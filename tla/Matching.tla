------------------------------- MODULE Matching -------------------------------
(***************************************************************************)
(* How text that is typed selects and orders files: the general filter     *)
(* (filter.c), fuzzy matching (fuzzy.c) and the natural order of names     *)
(* (strnatcmp.c).  The algorithms are operators; the state is the text, of *)
(* which a new filter is made with every key.  A text or a name is a       *)
(* sequence of characters, an index counts from 1.                         *)
(***************************************************************************)
EXTENDS Integers, Sequences, FiniteSets, SequencesExt, TLC

CONSTANTS Typed,      \* per kind of text: characters that are typed
          MaxLen,     \* bound: of the text, per kind
          Files,      \* [name, size] of those filtered
          Names,      \* those matched or compared, per kind
          Garbage,    \* sizes that memory from malloc may hold
          Digits, Spaces, Upper, Letters,  \* classes of characters
          Fold,       \* tolower, toupper: to the same for both cases
          Value,      \* of a digit, and order among all characters
          Unit        \* what a suffix k multiplies a size by

VARIABLES kind,   \* "general", "fuzzy", "natural", or another in which text is only typed
          text,
          filter  \* of kind general: per word its atoms
vars == <<kind, text, filter>>

Kinds == DOMAIN Typed
min(i, j) == IF i < j THEN i ELSE j
max(i, j) == IF i > j THEN i ELSE j

-----------------------------------------------------------------------------
(* The general filter *)

\* strtok: the pieces of s between separators, none of them empty
Pieces(s, sep) ==
  LET starts == {i \in 1..Len(s) : s[i] # sep /\ (i = 1 \/ s[i - 1] = sep)}
      ends == {i \in 1..Len(s) : s[i] # sep /\ (i = Len(s) \/ s[i + 1] = sep)}
      End(i) == CHOOSE e \in ends : e >= i /\ \A f \in ends : f >= i => e <= f
      first == SetToSortSeq(starts, <)
  IN [n \in 1..Len(first) |-> SubSeq(s, first[n], End(first[n]))]

Substring(name, t) ==
  \E i \in 0..Len(name) - Len(t) : \A j \in 1..Len(t) : Fold[name[i + j]] = Fold[t[j]]

\* strtod, of digits only: what it reads, and what is left
Number(t) == LET n == CHOOSE i \in 0..Len(t) : /\ \A j \in 1..i : t[j] \in Digits
                                               /\ i = Len(t) \/ t[i + 1] \notin Digits
             IN [digits |-> SubSeq(t, 1, n), rest |-> SubSeq(t, n + 1, Len(t))]
Read(digits) == FoldLeft(LAMBDA v, c : 10 * v + Value[c], 0, digits)
Literal(t, negate) == [pred |-> "substr", string |-> t, size |-> 0, negate |-> negate]

\* size_atom of token t, which starts with s; a size that cannot be read is left as it is
\* in memory, and what follows an invalid size is matched literally
SizeAtomPlain(t, negate, garbage) ==
  LET orEqual == t[2] \in {">", "<"} /\ Len(t) > 2 /\ t[3] = "="
      n == Number(SubSeq(t, IF orEqual THEN 4 ELSE 3, Len(t)))
      pred == CASE t[2] = ">" -> "gt" [] t[2] = "<" -> "lt" [] OTHER -> "eq"
      Atom(size) == [pred |-> pred, string |-> <<>>, size |-> size, negate |-> negate]
  IN CASE Len(t) < 2 \/ t[2] \notin {">", "<", "="} -> Literal(t, negate)
       [] n.digits = <<>> -> Atom(garbage)
       [] n.rest = <<>> -> Atom(Read(n.digits))
       [] n.rest = <<"k">> -> Atom(Unit * Read(n.digits))
       [] OTHER -> Literal(t, negate)
SizeAtom(t, negate, garbage) ==
  LET orEqual == t[2] \in {">", "<"} /\ Len(t) > 2 /\ t[3] = "="
      n == Number(SubSeq(t, IF orEqual THEN 4 ELSE 3, Len(t)))
      \* at least is not less than
      pred == CASE t[2] = (IF orEqual THEN "<" ELSE ">") -> "gt"
                [] t[2] = (IF orEqual THEN ">" ELSE "<") -> "lt"
                [] OTHER -> "eq"
      flipped == negate # orEqual
      Atom(size) == [pred |-> pred, string |-> <<>>, size |-> size, negate |-> flipped]
  IN CASE Len(t) < 2 \/ t[2] \notin {">", "<", "="} -> Literal(t, negate)
       [] n.digits = <<>> -> Atom(garbage)
       [] n.rest = <<>> -> Atom(Read(n.digits))
       [] n.rest = <<"k">> -> Atom(Unit * Read(n.digits))
       [] OTHER -> Literal(t, flipped)

\* subfilter_init: the atoms of a word, that of "!" alone being skipped
Atoms(word, garbage) ==
  LET Parse(t) == LET negate == Head(t) = "!"
                      rest == IF negate THEN Tail(t) ELSE t
                  IN IF rest = <<>> THEN <<>>
                     ELSE IF Head(rest) = "s" THEN <<SizeAtom(rest, negate, garbage)>>
                     ELSE <<Literal(rest, negate)>>
  IN FoldLeft(LAMBDA atoms, t : atoms \o Parse(t), <<>>, Pieces(word, "|"))

\* filter_create_sub; words without an atom are skipped
Create(t, garbage) ==
  SelectSeq([i \in 1..Len(Pieces(t, " ")) |-> Atoms(Pieces(t, " ")[i], garbage)],
            LAMBDA atoms : atoms # <<>>)

Pred(atom, file) == CASE atom.pred = "substr" -> Substring(file.name, atom.string)
                      [] atom.pred = "lt" -> file.size < atom.size
                      [] atom.pred = "gt" -> file.size > atom.size
                      [] atom.pred = "eq" -> file.size = atom.size
\* sub_match
SubMatch(f, file) == \A w \in 1..Len(f) : \E a \in 1..Len(f[w]) :
                       Pred(f[w][a], file) # f[w][a].negate

-----------------------------------------------------------------------------
(* Fuzzy matching; scores are in thousandths *)

ScoreMin == -1000000  \* stands for -INFINITY
ScoreMax == 1000000
Plus(s, t) == IF s = ScoreMin THEN ScoreMin ELSE s + t

\* fzy_has_match: each character of the needle is found after the one before; one in
\* lower case is found in either
HasMatch(needle, name) ==
  LET Next(from, c) == LET at == {j \in from + 1..Len(name) :
                                    name[j] = c \/ (name[j] \in Upper /\ Fold[name[j]] = c)}
                       IN IF at = {} THEN Len(name) + 1
                          ELSE CHOOSE j \in at : \A k \in at : j <= k
  IN FoldLeft(LAMBDA from, c : Next(from, c), 0, needle) <= Len(name)

\* precompute_bonus
Bonus(name, j) ==
  LET before == IF j = 1 THEN "/" ELSE name[j - 1]
  IN CASE name[j] \notin Letters \cup Upper \cup Digits -> 0
       [] before = "/" -> 900
       [] before \in {"-", "_", " "} -> 800
       [] before = "." -> 600
       [] name[j] \in Upper /\ before \in Letters -> 700
       [] OTHER -> 0

\* match_row: the best score of needle[1..i] within name[1..j], and that of one which
\* matches at j
Rows(needle, name) ==
  LET n == Len(needle)
      gap(i) == IF i = n THEN -5 ELSE -10
      row[i \in 1..n, j \in 0..Len(name)] ==
        IF j = 0 THEN [D |-> ScoreMin, M |-> ScoreMin] ELSE
        LET D == CASE Fold[needle[i]] # Fold[name[j]] -> ScoreMin
                   [] i = 1 -> -5 * (j - 1) + Bonus(name, j)
                   [] OTHER -> max(Plus(row[i - 1, j - 1].M, Bonus(name, j)),
                                   Plus(row[i - 1, j - 1].D, 1000))
        IN [D |-> D, M |-> max(D, Plus(row[i, j - 1].M, gap(i)))]
  IN row

\* fzy_match
Score(needle, name) ==
  IF needle = <<>> \/ Len(needle) > Len(name) THEN ScoreMin
  ELSE IF Len(needle) = Len(name) THEN ScoreMax
  ELSE Rows(needle, name)[Len(needle), Len(name)].M

-----------------------------------------------------------------------------
(* Natural order *)

CharAt(s, i) == IF i > Len(s) THEN "end" ELSE s[i]
\* How many digits s has from i on
Run(s, i) == CHOOSE n \in 0..Len(s) : /\ \A k \in 0..n - 1 : CharAt(s, i + k) \in Digits
                                      /\ CharAt(s, i + n) \notin Digits
Sign(x, y) == IF x < y THEN -1 ELSE IF x > y THEN 1 ELSE 0
\* How the first n characters from i and j on compare
FirstDifference(s, i, t, j, n) ==
  LET at == {k \in 0..n - 1 : s[i + k] # t[j + k]}
  IN IF at = {} THEN 0 ELSE LET k == CHOOSE k \in at : \A m \in at : k <= m
                            IN Sign(Value[s[i + k]], Value[t[j + k]])
\* compare_right: the longer number is the greater; compare_left: digit by digit
CompareRight(s, i, t, j) ==
  IF Run(s, i) # Run(t, j) THEN Sign(Run(s, i), Run(t, j))
  ELSE FirstDifference(s, i, t, j, Run(s, i))
CompareLeft(s, i, t, j) ==
  LET first == FirstDifference(s, i, t, j, min(Run(s, i), Run(t, j)))
  IN IF first # 0 THEN first ELSE Sign(Run(s, i), Run(t, j))

\* Position after the spaces from i on
SkipSpaces(s, i) == CHOOSE p \in i..Len(s) + 2 : /\ \A k \in i..p - 1 : CharAt(s, k) \in Spaces
                                                 /\ CharAt(s, p) \notin Spaces
\* strnatcasecmp
Compare(s, t) ==
  LET cmp[i \in 1..Len(s) + 2, j \in 1..Len(t) + 2] ==
        LET p == SkipSpaces(s, i)
            q == SkipSpaces(t, j)
            c == CharAt(s, p)
            e == CharAt(t, q)
            number == IF ~(c \in Digits /\ e \in Digits) THEN 0
                      ELSE IF c = "0" \/ e = "0" THEN CompareLeft(s, p, t, q)
                      ELSE CompareRight(s, p, t, q)
        IN CASE number # 0 -> number
             [] c = "end" /\ e = "end" -> 0
             [] Fold[c] # Fold[e] -> Sign(Value[Fold[c]], Value[Fold[e]])
             [] OTHER -> cmp[p + 1, q + 1]
  IN cmp[1, 1]
\* Of all names, once
Order == [s, t \in Names["natural"] |-> Compare(s, t)]

-----------------------------------------------------------------------------
(* Typing *)

Init == kind \in Kinds /\ text = <<>> /\ filter = <<>>

Becomes(t) == /\ text' = t
              /\ \E garbage \in Garbage :
                   filter' = IF kind = "general" THEN Create(t, garbage) ELSE <<>>
              /\ UNCHANGED kind
Type(c) == Len(text) < MaxLen[kind] /\ Becomes(Append(text, c))
Erase == text # <<>> /\ Becomes(Front(text))

Next == (\E c \in Typed[kind] : Type(c)) \/ Erase
Spec == Init /\ [][Next]_vars

-----------------------------------------------------------------------------
(* Properties *)

TypeOK == /\ kind \in Kinds
          /\ ToSet(text) \subseteq Typed[kind] /\ Len(text) <= MaxLen[kind]
          /\ \A w \in ToSet(filter) : \A a \in ToSet(w) :
               /\ a.pred \in {"substr", "lt", "gt", "eq"} /\ a.negate \in BOOLEAN
               /\ a.pred = "substr" <=> a.string # <<>>

\* A word of the text is a list of tests; each is a comparison with a size or a
\* part of the name, and may be negated.
Test(t) == IF Head(t) = "!" THEN Tail(t) ELSE t
IsComparison(t) == Len(t) > 1 /\ t[1] = "s" /\ t[2] \in {">", "<", "="}
Operator(t) == IF t[2] # "=" /\ Len(t) > 2 /\ t[3] = "=" THEN t[2] \o "=" ELSE t[2]
Operand(t) == SubSeq(t, 2 + Len(Operator(t)), Len(t))
IsComplete(t) == LET n == Number(Operand(t)) IN n.digits # <<>> /\ n.rest \in {<<>>, <<"k">>}
Holds(t, file) ==
  IF ~IsComparison(t) THEN Substring(file.name, t)
  ELSE LET n == Number(Operand(t))
           size == Read(n.digits) * (IF n.rest = <<>> THEN 1 ELSE Unit)
       IN CASE Operator(t) = ">" -> file.size > size
            [] Operator(t) = ">=" -> file.size >= size
            [] Operator(t) = "<" -> file.size < size
            [] Operator(t) = "<=" -> file.size <= size
            [] Operator(t) = "=" -> file.size = size
Tests(word) == {t \in ToSet(Pieces(word, "|")) : t # <<"!">>}
Words(t) == {w \in ToSet(Pieces(t, " ")) : Tests(w) # {}}
Wants(t, file) == \A w \in Words(t) : \E test \in Tests(w) :
                    (Head(test) = "!") # Holds(Test(test), file)

Readable(t) == \A w \in Words(t) : \A test \in Tests(w) :
                 IsComparison(Test(test)) => IsComplete(Test(test))
\* What is typed is what selects: every word must hold, a word by one of its
\* tests, sizes being compared as they are written (filter_create_sub, sub_match).
\* A comparison whose size cannot be read is left out: it compares with what is
\* in memory, or >= and <= turn the literal match around (filter.c:112, 138).
FilterMeansText ==
  kind = "general" /\ Readable(text) =>
    \A file \in Files : SubMatch(filter, file) = Wants(text, file)

\* The ways to find the needle in the name, in ascending order, and what one scores
Embeddings(needle, name, Same(_, _)) ==
  {p \in [1..Len(needle) -> 1..Len(name)] :
     /\ \A i \in 1..Len(needle) : Same(needle[i], name[p[i]])
     /\ \A i \in 1..Len(needle) - 1 : p[i] < p[i + 1]}
Worth(p, needle, name) ==
  LET Step(i) == IF i = 1 THEN Bonus(name, p[1]) - 5 * (p[1] - 1)
                 ELSE IF p[i] = p[i - 1] + 1 THEN max(1000, Bonus(name, p[i]))
                 ELSE Bonus(name, p[i]) - 10 * (p[i] - p[i - 1] - 1)
  IN FoldLeft(LAMBDA sum, i : sum + Step(i), 0, [i \in 1..Len(needle) |-> i])
     - 5 * (Len(name) - p[Len(needle)])
\* A name is found if and only if its characters are there in order, and scores
\* what its best alignment does although only two rows are kept (fzy_match).
ScoreIsBest ==
  kind = "fuzzy" /\ text # <<>> =>
    \A name \in Names[kind] :
      LET alike == Embeddings(text, name, LAMBDA c, d : Fold[c] = Fold[d])
          found == Embeddings(text, name, LAMBDA c, d : c = d \/ Fold[d] = c)
      IN /\ HasMatch(text, name) = (found # {})
         /\ HasMatch(text, name) /\ Len(text) < Len(name) =>
              /\ \E p \in alike : Score(text, name) = Worth(p, text, name)
              /\ \A p \in alike : Score(text, name) >= Worth(p, text, name)

\* Names are in a total preorder, as sorting needs: no cycle through numbers with
\* leading zeros, numbers of other lengths, spaces and letters (strnatcmp0).
NaturalIsOrder ==
  kind = "natural" =>
    LET row == [s \in Names[kind] |-> Compare(text, s)]
    IN /\ Compare(text, text) = 0
       /\ \A s \in Names[kind] : Compare(s, text) = -row[s]
       /\ \A s, t \in Names[kind] : row[s] <= 0 /\ Order[s, t] <= 0 => row[t] <= 0
=============================================================================
