------------------------------- MODULE CmdLine -------------------------------
(***************************************************************************)
(* The command line of cmdline.c, as Lua edits it (apilib.c) and the       *)
(* bottom row of the screen shows it.                                      *)
(*                                                                         *)
(* The text is kept in two halves with the cursor between them.  A         *)
(* character is a member of a small set; what matters of it is whether it  *)
(* is a space, punctuation or part of a word.                              *)
(***************************************************************************)
EXTENDS Integers, Sequences, SequencesExt

CONSTANTS Chars, Spaces, Puncts, \* characters; isspace, ispunct
          Prompts,               \* prompts of the input modes, shown in front
          MaxLen,                \* bound: characters in the line
          Settable,              \* pairs of halves that Lua sets
          Widths                 \* columns of the terminal

CharsAssumption ==
  Spaces \subseteq Chars /\ Puncts \subseteq Chars /\ Spaces \cap Puncts = {}
SettableAssumption ==
  \A h \in Settable : /\ h[1] \in Seq(Chars) /\ h[2] \in Seq(Chars)
                      /\ Len(h[1]) + Len(h[2]) <= MaxLen
LengthsAssumption == MaxLen \in Nat /\ \A p \in Prompts : Len(p) \in Nat
WidthsAssumption == Widths \subseteq Nat

VARIABLES prefix,     \* cmdline.prefix; empty: no input mode
          left, right,
          overwrite

vars == <<prefix, left, right, overwrite>>

text == left \o right
Line == UNION {[1..n -> Chars] : n \in 0..MaxLen}

\* cmdline_init
Init == /\ prefix = <<>> /\ left = <<>> /\ right = <<>>
        /\ overwrite = FALSE

Prompted == prefix # <<>>

-----------------------------------------------------------------------------
(* Words *)

Word(c) == c \notin Spaces \cup Puncts

\* How many characters at the end of a line go with its last word: one punctuation
\* mark, then all spaces or else all of a word.
LastWord(s) ==
  LET p == IF Last(s) \in Puncts THEN 1 ELSE 0
      i == Len(s) - p
      same(c) == IF s[i] \in Spaces THEN c \in Spaces ELSE Word(c)
      run(n) == \A j \in (i - n + 1)..i : same(s[j])
  IN p + CHOOSE n \in 0..i : run(n) /\ (n < i => ~run(n + 1))

\* Mutant: the loops stop at the second character of the line.
LastWordButOne(s) == LET n == LastWord(s) IN IF n = Len(s) /\ n > 1 THEN n - 1 ELSE n

\* The loops of cmdline_delete_word, cmdline_word_left
WordLength(s) == LastWord(s)

\* The same loops forwards, of cmdline_word_right
WordAhead(s) == WordLength(Reverse(s))

-----------------------------------------------------------------------------
(* Editing.  The callback on_change of a mode, run after an edit, is left out: it calls
   these same operations. *)

Edit(l, r) == left' = l /\ right' = r /\ UNCHANGED <<prefix, overwrite>>

\* cmdline_insert
Inserted(c) == Edit(Append(left, c),
                    IF overwrite /\ right # <<>> THEN Tail(right) ELSE right)

\* l_cmd_insert, input_add_char
Insert(c) == Prompted /\ Len(text) < MaxLen /\ Inserted(c)

\* l_cmd_toggle_overwrite
ToggleOverwrite == overwrite' = ~overwrite /\ UNCHANGED <<prefix, left, right>>

\* cmdline_clear, called by l_cmd_clear and when normal mode is entered
Clear == /\ prefix' = <<>> /\ left' = <<>> /\ right' = <<>>
         /\ overwrite' = FALSE

\* l_cmd_delete; in an empty line it leaves the mode
Delete == IF text = <<>> THEN Clear \/ (~Prompted /\ UNCHANGED vars)
          ELSE Edit(IF Prompted /\ left # <<>> THEN Front(left) ELSE left, right)

\* l_cmd_delete_right
DeleteRight == Prompted /\ right # <<>> /\ Edit(left, Tail(right))

\* l_cmd_delete_line_left
DeleteLineLeft == Prompted /\ left # <<>> /\ Edit(<<>>, right)

\* l_cmd_delete_word
DeleteWord == /\ Prompted /\ left # <<>>
              /\ Edit(SubSeq(left, 1, Len(left) - WordLength(left)), right)

\* n characters from one half to the other
MoveLeft(n) ==
  Edit(SubSeq(left, 1, Len(left) - n),
       SubSeq(left, Len(left) - n + 1, Len(left)) \o right)
MoveRight(n) ==
  Edit(left \o SubSeq(right, 1, n), SubSeq(right, n + 1, Len(right)))

\* l_cmd_left, l_cmd_right
Left == Prompted /\ left # <<>> /\ MoveLeft(1)
Right == Prompted /\ right # <<>> /\ MoveRight(1)

\* cmdline_home: the halves are joined, then exchanged.
Joined == Edit(<<>>, left \o right)

\* l_cmd_home, l_cmd_end
Home == Prompted /\ left # <<>> /\ Joined
End == Prompted /\ right # <<>> /\ Edit(left \o right, <<>>)

\* l_cmd_word_left, l_cmd_word_right
WordLeft == Prompted /\ left # <<>> /\ MoveLeft(WordLength(left))
WordRight == Prompted /\ right # <<>> /\ MoveRight(WordAhead(right))

\* l_cmd_line_set
LineSet(l, r) == Edit(l, r)

\* lfm_mode_enter of an input mode, cmdline_prefix_set
SetPrefix(p) == prefix' = p /\ UNCHANGED <<left, right, overwrite>>

Moves == Left \/ Right \/ Home \/ End \/ WordLeft \/ WordRight
Deletes == Delete \/ DeleteRight \/ DeleteLineLeft \/ DeleteWord

Next == \/ \E c \in Chars : Insert(c)
        \/ Moves
        \/ Deletes
        \/ ToggleOverwrite
        \/ \E h \in Settable : LineSet(h[1], h[2])
        \/ \E p \in Prompts : SetPrefix(p)
        \/ Clear

Spec == Init /\ [][Next]_vars

-----------------------------------------------------------------------------
(* Drawing *)

Half(n) == n \div 2

\* cmdline_draw: the characters of left that are scrolled out of sight, before the
\* one that the truncation mark takes the place of
Offset(room) ==
  LET l == Len(left)
      r == Len(right)
  IN IF r = 0 THEN l - room + 1
     ELSE IF r > Half(room) THEN l - room + Half(room) + 1
     ELSE l - room + r

\* cmdline_draw: the column of the cursor, and of left the characters shown
Drawn(width) ==
  LET room == width - Len(prefix)
      offset == Offset(room)
      shown == IF offset < 0 THEN Len(left) ELSE Len(left) - (offset + 1)
      mark == IF offset < 0 THEN 0 ELSE 1
  IN [cursor |-> Len(prefix) + mark + shown, shown |-> shown, mark |-> mark]

-----------------------------------------------------------------------------
(* Properties *)

TypeOK == /\ prefix \in Prompts \cup {<<>>}
          /\ left \in Line /\ right \in Line /\ Len(text) <= MaxLen
          /\ overwrite \in BOOLEAN

\* Moving the cursor, over characters, words or the whole line, never changes the
\* text, and it does move.
MovesKeepText == [][Moves => left' \o right' = text /\ left' # left]_vars

\* Deleting takes away a piece of the text next to the cursor, at the side asked for,
\* and typing replaces at most the character under the cursor.
EditsStayAtCursor ==
  [][ /\ Deletes => /\ left' = left \/ right' = right
                    /\ IsPrefix(left', left) /\ IsSuffix(right', right)
      /\ \A c \in Chars : Insert(c) =>
           /\ left' = Append(left, c)
           /\ Len(right) - Len(right') =
                (IF overwrite /\ right # <<>> THEN 1 ELSE 0) ]_vars

\* A word is moved over or deleted as a whole: wherever the cursor ends up, the
\* characters on both sides of where it stopped are not of one word.
WordsStayWhole ==
  [][ /\ (WordLeft \/ DeleteWord) /\ left' # <<>> =>
           ~(Word(Last(left')) /\ Word(left[Len(left') + 1]))
      /\ (WordRight /\ right' # <<>>) => ~(Word(Last(left')) /\ Word(right'[1])) ]_vars

\* The cursor is on the screen, with the character before it unless that is hidden by
\* the truncation mark, however long the line is; provided there are three columns
\* more than the prefix takes.
CursorVisible ==
  \A w \in Widths : w >= Len(prefix) + 3 =>
    LET d == Drawn(w)
    IN /\ Len(prefix) <= d.cursor /\ d.cursor < w
       /\ d.shown >= 0
       /\ d.mark = 0 => d.cursor = Len(prefix) + Len(left)
=============================================================================
