------------------------------ MODULE KeyInput ------------------------------
(***************************************************************************)
(* Keys, mappings, modes and macros: input.c, trie.c, mode.c and macro.c   *)
(* with their Lua functions of apilib.c.                                   *)
(*                                                                         *)
(* A key comes from the terminal, from a macro that is played, or from Lua *)
(* (feedkeys, input).  It extends a count or a key sequence that two tries *)
(* are walked with at once: the one of the mode and the one of its base    *)
(* mode.  A mapping that is reached runs a Lua function, which may switch  *)
(* modes, play macros and feed keys before the next key is looked at.      *)
(*                                                                         *)
(* A trie is the set of its mapped sequences with their functions, since   *)
(* trie_remove unlinks every node that leads nowhere; a node is the path   *)
(* from the root.  Ctrl-q, which ends the program, is left out.            *)
(***************************************************************************)
EXTENDS Integers, Sequences, FiniteSets, SequencesExt

CONSTANTS Keys,           \* keys; digits are the numbers among them
          Digits,         \* the digits among the keys
          Esc, Enter,     \* NCKEY_ESC, NCKEY_ENTER
          Printable,      \* keys that iswprint holds of
          Modes,          \* names of modes
          NewModes,       \* those that Lua may create later
          Normal, Input, Visual, \* the builtin modes
          IsInput,        \* modes with is_input
          Callbacks,      \* Lua functions
          Code,           \* what a function does: a sequence of commands
          OnEsc, OnReturn, OnChange, \* functions of the Lua modes
          InitialMaps,    \* mappings when the first key arrives, for each other mode
          NewMaps,        \* <<mode, sequence, function>> that Lua may map later
          Scripts,        \* commands that Lua runs from timers and processes
          Macros,         \* identifiers of macros
          SuggestionDelay, ClearDelay, \* map_suggestion_delay, map_clear_delay
          Fold, Rank,     \* a key in lower case, the place of its name in order
          MaxKeys,        \* bound: keys from the terminal
          MaxCalls,       \* bound: calls from Lua's timers and processes
          MaxNesting,     \* bound: keys being fed within keys being fed
          None

ModesAssumption ==
  /\ NewModes \subseteq Modes /\ {Normal, Input, Visual} \subseteq Modes \ NewModes
  /\ Input \in IsInput /\ {Normal, Visual} \cap IsInput = {} /\ Normal # Visual
KeysAssumption ==
  /\ Digits \subseteq Keys \cap (0..9) /\ {Esc, Enter} \subseteq Keys \ Digits
Commands ==
  [do : {"mode"}, mode : Modes] \cup [do : {"record", "play"}, id : Macros]
    \cup [do : {"feed", "input"}, keys : Seq(Keys)] \cup [do : {"stop", "execute"}]
MapsAssumption ==
  /\ DOMAIN InitialMaps = Modes \ (NewModes \cup {Visual})
  /\ \A t \in DOMAIN InitialMaps : /\ DOMAIN InitialMaps[t] \subseteq Seq(Keys)
                                  /\ \A s \in DOMAIN InitialMaps[t] :
                                       InitialMaps[t][s] \in Callbacks
  /\ NewMaps \subseteq Modes \X Seq(Keys) \X Callbacks
CodeAssumption ==
  /\ Scripts \subseteq Seq(Commands)
  /\ DOMAIN Code = Callbacks /\ \A f \in Callbacks : Code[f] \in Seq(Commands)
  /\ {OnEsc, OnReturn, OnChange} \subseteq [Modes -> Callbacks \cup {None}]
NoneAssumption == None \notin Modes \cup Macros \cup Callbacks
DelaysAssumption == SuggestionDelay \in Nat /\ ClearDelay \in Nat

VARIABLES maps,      \* per trie, its mapped sequences with their functions
          lfm,       \* mode, input_ctx, macros and the calls underway
          keys,      \* keys from the terminal so far, for the bound only
          calls,     \* calls of Lua so far, for the bound only
          \* Ghosts
          typed,     \* keys since the input was idle
          start,     \* the mode in which they began
          disturbed, \* the mode or a mapping changed since then
          interrupted, \* a foreground process ran since then
          last       \* the key just handled with those before it, or None

\* Ghosts within lfm, of the last recording: recorded, the keys from the terminal since
\* it began, and before, the macros when it began.

vars == <<maps, lfm, keys, calls, typed, start, disturbed, interrupted, last>>

\* The mode whose trie a mode uses: visual shares the one of normal.
TrieOf(m) == IF m = Visual THEN Normal ELSE m
BaseOf(m) == IF m \in IsInput THEN Input ELSE Normal
Tries == DOMAIN maps

NoNode == [trie |-> None, path |-> <<>>]
Root(t) == [trie |-> t, path |-> <<>>]

Mapped(t) == DOMAIN maps[t]
IsNode(n) == \E s \in Mapped(n.trie) : IsPrefix(n.path, s)

\* trie_find_child
Child(n, k) == LET c == [n EXCEPT !.path = Append(@, k)]
               IN IF n # NoNode /\ IsNode(c) THEN c ELSE NoNode
IsLeaf(n) == n # NoNode /\ n.path \in Mapped(n.trie)

Init ==
  /\ maps = InitialMaps
  /\ lfm = [mode |-> Normal, state |-> "IDLE", cur |-> NoNode, cur_base |-> NoNode,
            count |-> -1, seq |-> <<>>, clear |-> FALSE, suggest |-> FALSE,
            menu |-> None, macros |-> [i \in Macros |-> <<>>], recording |-> None,
            playing |-> FALSE, stack |-> <<>>, buffer |-> <<>>, did |-> None,
            recorded |-> <<>>, before |-> [i \in Macros |-> <<>>]]
  /\ keys = 0 /\ calls = 0
  /\ typed = <<>> /\ start = Normal /\ disturbed = FALSE /\ interrupted = FALSE
  /\ last = None

-----------------------------------------------------------------------------
(* What Lua code does, one command after the other *)

\* lfm_mode_enter.  The callbacks of the Lua modes on entering and leaving draw
\* and set the command line only.
EnterMode(s, m) ==
  IF m = s.mode \/ TrieOf(m) \notin Tries THEN s
  ELSE [s EXCEPT !.mode = m, !.cur_base = NoNode]

\* macro_record
Record(s, i) ==
  IF s.recording # None \/ s.playing THEN s
  ELSE [s EXCEPT !.recording = i, !.recorded = <<>>, !.before = s.macros]


\* Mutant: the key that stops the recording stays in the macro.
StopRecordKeepingLast(s) ==
  IF s.recording = None THEN s ELSE [s EXCEPT !.recording = None]

\* macro_stop_record drops the last key, which is taken for the one that led here.
StopRecord(s) ==
  IF s.recording = None THEN s
  ELSE [s EXCEPT !.macros[s.recording] = Front(@), !.recording = None]

Frame(from, ks) == [from |-> from, keys |-> ks]


\* macro_add_key
AddKey(s, k) ==
  IF s.recording = None THEN s ELSE [s EXCEPT !.macros[s.recording] = Append(@, k)]

\* What the ghost notes of a key from the terminal
Noted(s, k) ==
  IF s.recording = None THEN s ELSE [s EXCEPT !.recorded = Append(@, k)]

\* l_feedkeys: its keys are handled where they are fed.
Feed(s, ks) == [s EXCEPT !.stack = <<Frame("feed", ks)>> \o @]

\* l_input, input_buffer_add: its keys are handled when the loop is idle.
Buffer(s, ks) == [s EXCEPT !.buffer = @ \o ks]

\* input_suspend, then input_resume once the foreground process has ended
Execute(s) == [s EXCEPT !.clear = FALSE, !.suggest = FALSE]

\* macro_play, up to its loop over the keys of the macro
Play(s, i) ==
  IF s.recording # None \/ s.playing \/ s.macros[i] = <<>> THEN s
  ELSE [s EXCEPT !.playing = TRUE,
                 !.stack = <<Frame("macro", s.macros[i])>> \o @]

Do(s, c) ==
  CASE c.do = "mode"    -> EnterMode(s, c.mode)
    [] c.do = "record"  -> Record(s, c.id)
    [] c.do = "stop"    -> StopRecord(s)
    [] c.do = "play"    -> Play(s, c.id)
    [] c.do = "feed"    -> Feed(s, c.keys)
    [] c.do = "input"   -> Buffer(s, c.keys)
    [] c.do = "execute" -> Execute(s)

Run(s, commands) == FoldLeft(Do, s, commands)

\* Keys that are fed or played are handled after the last command: a function ends
\* with feedkeys or macro_play.
Call(s, f) == IF f = None THEN s ELSE Run(s, Code[f])

-----------------------------------------------------------------------------
(* Handling a key *)

\* input_init_sequence
InitSequence(s) ==
  LET t == TrieOf(s.mode)
      base == BaseOf(s.mode)
  IN [s EXCEPT !.cur = Root(t), !.cur_base = IF t = base THEN NoNode ELSE Root(base),
               !.count = -1]


\* Mutant: the keys shown stay.
ClearKeepingSeq(s) == [s EXCEPT !.state = "IDLE", !.cur = NoNode,
                                !.cur_base = NoNode, !.count = -1, !.menu = None]

\* input_clear
Clear(s) == [s EXCEPT !.state = "IDLE", !.cur = NoNode, !.cur_base = NoNode,
                      !.count = -1, !.menu = None, !.seq = <<>>]

Drop(s) == [Clear(s) EXCEPT !.did = [what |-> "drop"]]

\* accumulate_digit
AccumulateDigit(s, k) ==
  LET c == IF s.count < 0 THEN k ELSE s.count * 10 + k
  IN [s EXCEPT !.state = "COUNT", !.count = c, !.did = [what |-> "count"],
               !.seq = IF c > 0 THEN Append(@, k) ELSE @]

Matches(s, k) == Child(s.cur, k) # NoNode \/ Child(s.cur_base, k) # NoNode

\* process_sequence_key where it finds a leaf
RunMapping(s, n) ==
  LET f == maps[n.trie][n.path]
  IN Call([Clear(s) EXCEPT
             !.did = [what |-> "run", function |-> f, count |-> s.count]], f)


\* Mutant: a trie that does not know the key is not given up.
AdvanceKeeping(s, k) ==
  LET next(n) == IF Child(n, k) # NoNode THEN Child(n, k) ELSE n
  IN [s EXCEPT !.cur = next(@), !.cur_base = next(@), !.state = "SEQUENCE",
               !.seq = Append(@, k), !.did = [what |-> "wait"],
               !.clear = ClearDelay > 0, !.suggest = SuggestionDelay > 0]

\* Mutant: the clear timer is not started.
AdvanceUntimed(s, k) ==
  [s EXCEPT !.cur = Child(@, k), !.cur_base = Child(@, k), !.state = "SEQUENCE",
            !.seq = Append(@, k), !.did = [what |-> "wait"],
            !.suggest = SuggestionDelay > 0]

\* process_sequence_key where it finds none
Advance(s, k) ==
  [s EXCEPT !.cur = Child(@, k), !.cur_base = Child(@, k), !.state = "SEQUENCE",
            !.seq = Append(@, k), !.did = [what |-> "wait"],
            !.clear = ClearDelay > 0, !.suggest = SuggestionDelay > 0]

SequenceKey(s, k) ==
  IF IsLeaf(Child(s.cur, k)) THEN RunMapping(s, Child(s.cur, k))
  ELSE IF IsLeaf(Child(s.cur_base, k)) THEN RunMapping(s, Child(s.cur_base, k))
  ELSE IF Matches(s, k) THEN Advance(s, k)
  ELSE Drop(s)

\* handle_esc_idle
EscIdle(s) == EnterMode(Call([s EXCEPT !.menu = None], OnEsc[s.mode]), Normal)

\* input_add_char
AddChar(s) == Call([s EXCEPT !.did = [what |-> "insert"]], OnChange[s.mode])

\* handle_normal_mode_key
NormalKey(s, k) ==
  LET i == IF s.state = "IDLE" THEN InitSequence(s) ELSE s
  IN IF k = Esc
     THEN IF s.state = "IDLE" THEN EscIdle(s) ELSE Drop(s)
     ELSE IF k \in Digits /\ (s.state = "COUNT" \/ (s.state = "IDLE" /\ k # 0))
     THEN AccumulateDigit(i, k)
     ELSE SequenceKey(i, k)

\* handle_input_mode_key.  A count begun in another mode is no
\* reason to start a new sequence.
InputKey(s, k) ==
  LET i == IF s.state = "IDLE" THEN InitSequence(s) ELSE s
  IN IF k = Esc THEN EnterMode(Clear(Call(s, OnEsc[s.mode])), Normal)
     ELSE IF k = Enter THEN Call(Clear(s), OnReturn[s.mode])
     ELSE IF s.state = "SEQUENCE" \/ Matches(i, k) THEN SequenceKey(i, k)
     ELSE IF k \in Printable THEN AddChar(Clear(i)) ELSE Drop(i)

\* input_handle_key
HandleKey(s, k) ==
  LET t == [s EXCEPT !.clear = FALSE, !.suggest = FALSE, !.did = None]
  IN IF s.mode \in IsInput THEN InputKey(t, k) ELSE NormalKey(t, k)

\* One key, with what the ghosts note of it.
Key(s, k) ==
  LET begins == s.state = "IDLE"
      ks == IF begins THEN <<k>> ELSE Append(typed, k)
  IN /\ lfm' = HandleKey(s, k)
     /\ start' = IF begins THEN s.mode ELSE start
     /\ last' = IF ~begins /\ disturbed THEN None
                ELSE [keys |-> ks, mode |-> start']
     /\ typed' = IF lfm'.state = "IDLE" THEN <<>> ELSE ks
     /\ disturbed' = (lfm'.state # "IDLE" /\ ~begins /\ disturbed)
     /\ interrupted' = FALSE

-----------------------------------------------------------------------------
(* Where keys come from *)

Waiting == lfm.stack = <<>>

\* stdin_cb
Press(k) ==
  /\ Waiting
  /\ keys < MaxKeys /\ keys' = keys + 1
  /\ Key(AddKey(Noted(lfm, k), k), k)
  /\ UNCHANGED <<maps, calls>>

\* One round of the loops of macro_play and l_feedkeys
FeedKey ==
  /\ ~Waiting /\ Head(lfm.stack).keys # <<>>
  /\ Len(lfm.stack) <= MaxNesting
  /\ LET f == Head(lfm.stack)
     IN Key([lfm EXCEPT !.stack[1].keys = Tail(@)], Head(f.keys))
  /\ UNCHANGED <<maps, keys, calls>>

\* One round of the loop of input_buffer_cb, which ev_idle runs
BufferKey ==
  /\ lfm.buffer # <<>>
  /\ ~Waiting => Head(lfm.stack) = Frame("buffer", <<>>)
  /\ LET rest == IF Waiting THEN <<Frame("buffer", <<>>)>> ELSE lfm.stack
     IN Key([lfm EXCEPT !.buffer = Tail(@), !.stack = rest], Head(lfm.buffer))
  /\ UNCHANGED <<maps, keys, calls>>

\* The end of those loops
EndFeed ==
  /\ ~Waiting
  /\ LET f == Head(lfm.stack)
     IN /\ f.keys = <<>> /\ (f.from = "buffer" => lfm.buffer = <<>>)
        /\ lfm' = [lfm EXCEPT !.stack = Tail(@), !.did = None,
                              !.playing = @ /\ f.from # "macro"]
  /\ last' = None
  /\ UNCHANGED <<maps, keys, calls, typed, start, disturbed, interrupted>>

-----------------------------------------------------------------------------
(* Timers and Lua *)

\* map_clear_timer_cb.  Both timers are started together: the one with the shorter
\* delay fires first.
ClearTimer ==
  /\ Waiting /\ lfm.clear
  /\ lfm.suggest => ClearDelay <= SuggestionDelay
  /\ lfm' = [Clear(lfm) EXCEPT !.clear = FALSE, !.did = None]
  /\ typed' = <<>> /\ disturbed' = FALSE /\ interrupted' = FALSE /\ last' = None
  /\ UNCHANGED <<maps, keys, calls, start>>

Folded(s) == [i \in DOMAIN s |-> Fold[s[i]]]

\* trie_collect_leaves with prune: the leaves below a node that are reached before
\* another
Leaves(n) ==
  IF n = NoNode THEN {}
  ELSE {s \in Mapped(n.trie) :
          /\ IsPrefix(n.path, s)
          /\ \A p \in Mapped(n.trie) \ {s} : ~(IsPrefix(n.path, p) /\ IsPrefix(p, s))}


\* strcmp on key sequences by a rank of their keys
Before(rank, s, t) ==
  \E i \in DOMAIN t : /\ \A j \in 1..(i - 1) : j \in DOMAIN s /\ rank[s[j]] = rank[t[j]]
                      /\ i \in DOMAIN s => rank[s[i]] < rank[t[i]]

\* strcasecmp_strict, which a vec_trie is sorted by: capitals directly behind their letter
SortedBefore(s, t) ==
  Before([k \in Keys |-> 2 * Rank[Fold[k]] + (IF Fold[k] = k THEN 0 ELSE 1)], s, t)

\* An entry of the base is left out if one of the mode is found to begin it.  The search
\* goes through the sorted ones up to one that is behind it by strcmp, so that it may
\* stop too early.
Shadowed(own, s) ==
  \E m \in own : /\ IsPrefix(Folded(m), Folded(s))
                 /\ \A o \in own : o = m \/ SortedBefore(o, m) => ~Before(Rank, s, o)


\* Mutant: entries of the base are left out that mappings of the mode begin with.
SuggestionsShadowing ==
  LET own == Leaves(lfm.cur)
      shadowed(s) == \E m \in own : IsPrefix(Folded(s), Folded(m))
  IN own \cup {s \in Leaves(lfm.cur_base) : ~shadowed(s)}

\* map_suggestion_timer_cb: what is shown of the mode and, unless shadowed, of its base
Suggestions ==
  LET own == Leaves(lfm.cur)
  IN own \cup {s \in Leaves(lfm.cur_base) : ~Shadowed(own, s)}

SuggestionTimer ==
  /\ Waiting /\ lfm.suggest
  /\ lfm.clear => SuggestionDelay <= ClearDelay
  /\ lfm' = [lfm EXCEPT !.suggest = FALSE, !.menu = Suggestions, !.did = None]
  /\ last' = None
  /\ UNCHANGED <<maps, keys, calls, typed, start, disturbed, interrupted>>

LuaCall == Waiting /\ calls < MaxCalls /\ calls' = calls + 1 /\ last' = None

\* l_mode, l_feedkeys, l_input, l_macro_play and fm.execute, from a timer or when a
\* process ends
RunScript(c) ==
  /\ LuaCall
  /\ lfm' = Run([lfm EXCEPT !.did = None], c)
  /\ disturbed' = (lfm.state # "IDLE" /\ (disturbed \/ lfm'.mode # lfm.mode
                                            \/ lfm'.cur_base # lfm.cur_base))
  /\ interrupted' = (interrupted \/ \E i \in DOMAIN c : c[i].do = "execute")
  /\ UNCHANGED <<maps, keys, typed, start>>

\* trie_insert
Insert(t, s, f) == [maps EXCEPT ![t] = [x \in DOMAIN @ \cup {s} |->
                                          IF x = s THEN f ELSE @[x]]]

\* trie_remove
Unlink(t, s) == [maps EXCEPT ![t] = [x \in DOMAIN @ \ {s} |-> @[x]]]

\* lfm_mode_register.  The table of modes may move: current_mode is looked up again
\* by its name.
Register(m) == [t \in Tries \cup {m} |-> IF t = m THEN <<>> ELSE maps[t]]

\* l_set_keymap, input_map
SetKeymap(t, s, f) ==
  /\ LuaCall
  /\ t \in Tries
  /\ maps' = Insert(t, s, f)
  /\ lfm' = [lfm EXCEPT !.did = None]
  /\ disturbed' = (lfm.state # "IDLE")
  /\ UNCHANGED <<keys, typed, start, interrupted>>

\* l_create_mode
CreateMode(m) ==
  /\ LuaCall
  /\ m \notin Tries
  /\ maps' = Register(m)
  /\ lfm' = [lfm EXCEPT !.did = None]
  /\ UNCHANGED <<keys, typed, start, disturbed, interrupted>>

\* l_del_keymap.  A node that the input is at is not removed: the code
\* would be left with a pointer to freed memory.
DelKeymap(t, s) ==
  /\ LuaCall
  /\ s \in Mapped(t)
  /\ maps' = Unlink(t, s)
  /\ \A n \in {lfm.cur, lfm.cur_base} :
       n.trie = t /\ n.path # <<>> => \E x \in DOMAIN maps'[t] : IsPrefix(n.path, x)
  /\ lfm' = [lfm EXCEPT !.did = None]
  /\ disturbed' = (lfm.state # "IDLE")
  /\ UNCHANGED <<keys, typed, start, interrupted>>

-----------------------------------------------------------------------------

Next ==
  \/ \E k \in Keys : Press(k)
  \/ FeedKey
  \/ BufferKey
  \/ EndFeed
  \/ ClearTimer
  \/ SuggestionTimer
  \/ \E c \in Scripts : RunScript(c)
  \/ \E m \in NewMaps : SetKeymap(m[1], m[2], m[3])
  \/ \E m \in NewModes : CreateMode(m)
  \/ \E t \in Tries : \E s \in Mapped(t) : DelKeymap(t, s)

Spec == Init /\ [][Next]_vars

\* libev dispatches timers that are due, and loops over keys go on.
Fairness == /\ WF_vars(ClearTimer) /\ WF_vars(SuggestionTimer)
            /\ WF_vars(FeedKey) /\ WF_vars(BufferKey) /\ WF_vars(EndFeed)
FairSpec == Spec /\ Fairness

-----------------------------------------------------------------------------
(* Properties *)

NodeType == [trie : Tries, path : Seq(Keys)] \cup {NoNode}

\* Types, and a position in a trie only while a count or a sequence is underway.
TypeOK ==
  /\ lfm.mode \in Modes /\ lfm.state \in {"IDLE", "COUNT", "SEQUENCE"}
  /\ lfm.cur \in NodeType /\ lfm.cur_base \in NodeType
  /\ lfm.count \in Nat \cup {-1} /\ lfm.seq \in Seq(Keys)
  /\ lfm.clear \in BOOLEAN /\ lfm.suggest \in BOOLEAN /\ lfm.playing \in BOOLEAN
  /\ lfm.recording \in Macros \cup {None}
  /\ lfm.macros \in [Macros -> Seq(Keys)] /\ lfm.buffer \in Seq(Keys)
  /\ lfm.state = "IDLE" => lfm.cur = NoNode /\ lfm.cur_base = NoNode

\* The number that digits stand for
Number(digits) == FoldLeft(LAMBDA c, d : c * 10 + d, 0, digits)

\* What keys ask for, read off the mappings at once: the digits in front are a count
\* (outside input modes), the rest is looked up in the mode and then in its base.
Asked(m, ks) ==
  LET isCount(i) == i > 0 => /\ m \notin IsInput /\ ks[1] # 0
                             /\ \A j \in 1..i : ks[j] \in Digits
      n == Max({i \in 0..Len(ks) : isCount(i)})
      path == SubSeq(ks, n + 1, Len(ks))
      own == Mapped(TrieOf(m))
      base == Mapped(BaseOf(m))
      begun == \E s \in own \cup base : IsPrefix(path, s)
      run(t) == [what |-> "run", function |-> maps[t][path],
                 count |-> IF n = 0 THEN -1 ELSE Number(SubSeq(ks, 1, n))]
  IN IF Last(ks) = Esc \/ (Last(ks) = Enter /\ m \in IsInput) THEN {None, [what |-> "drop"]}
     ELSE IF path = <<>> THEN {[what |-> "count"]}
     ELSE IF path \in own THEN {run(TrieOf(m))}
     ELSE IF path \in base THEN {run(BaseOf(m))}
     ELSE IF begun THEN {[what |-> "wait"]}
     ELSE IF m \in IsInput /\ Len(ks) = 1 /\ ks[1] \in Printable
     THEN {[what |-> "insert"]}
     ELSE {[what |-> "drop"]}

\* Unless mode or mappings change underneath, a key does what all the keys since the
\* last mapping ask for: the walk along two tries, one of which may be lost on the
\* way, finds the mapping of the mode before that of the base, with the count typed.
KeysDoWhatTheyAsk == last # None => lfm.did \in Asked(last.mode, last.keys)

\* What is shown as being typed is what was typed, and the positions in the tries are
\* where those keys lead, also after modes were switched and mappings changed.
ShownIsTyped ==
  /\ lfm.seq = typed
  /\ \A n \in {lfm.cur, lfm.cur_base} \ {NoNode} :
       /\ n.trie \in {TrieOf(start), BaseOf(start)}
       /\ IsSuffix(n.path, typed) /\ (n.path # <<>> => IsNode(n))

\* The sequence is not cleared before its suggestions are shown.  With other delays,
\* which lfm accepts, map_clear_timer_cb lets the suggestion timer run, which then
\* shows a menu although no sequence is underway.
SuggestionsComeFirst ==
  SuggestionDelay > 0 /\ ClearDelay > 0 => SuggestionDelay < ClearDelay

\* A menu is shown only of a sequence that is underway, also if the clear timer and
\* the suggestion timer are both running when a sequence ends.
MenuOfSequence == SuggestionsComeFirst /\ lfm.menu # None => lfm.state = "SEQUENCE"

\* Whatever typing on could run is in the menu when it comes up: mappings are left out
\* only if another one, of either mode, is reached first or differs from the beginning
\* in the case of letters only.
MenuIsComplete ==
  [][ /\ lfm'.menu # lfm.menu /\ lfm'.menu # None
      /\ lfm.state = "SEQUENCE" /\ ~disturbed
      => LET path == IF lfm.cur # NoNode THEN lfm.cur.path ELSE lfm.cur_base.path
             all == UNION {Mapped(t) : t \in {TrieOf(start), BaseOf(start)}}
         IN {s \in all : /\ IsPrefix(path, s)
                         /\ \A p \in all \ {s} : ~(/\ IsPrefix(path, p)
                                                    /\ IsPrefix(Folded(p), Folded(s)))}
              \subseteq lfm'.menu ]_vars

\* A macro is played from one loop at a time, and the flag that refuses recording and
\* further macros meanwhile is set exactly as long.
PlayingIsUnderway ==
  /\ Cardinality({i \in DOMAIN lfm.stack : lfm.stack[i].from = "macro"})
       = (IF lfm.playing THEN 1 ELSE 0)
  /\ lfm.playing => lfm.recording = None

\* A recording adds to a macro the keys that were typed since its beginning, and none
\* that were fed or played; when it ends, without the one that ended it.
RecordsWhatIsTyped ==
  [][ /\ lfm'.recording # None =>
           lfm'.macros = [lfm'.before EXCEPT ![lfm'.recording] = @ \o lfm'.recorded]
      /\ lfm.recording # None /\ lfm'.recording = None /\ lfm'.recorded # <<>> =>
           lfm'.macros = [lfm'.before EXCEPT ![lfm.recording] = @ \o Front(lfm'.recorded)] ]_vars

\* A key sequence that is left unfinished does not stay: it times out, unless a
\* foreground process stopped the timers.
SequenceEnds ==
  lfm.state = "SEQUENCE" /\ ~interrupted ~> lfm.state # "SEQUENCE" \/ interrupted
=============================================================================
