------------------------------- MODULE History -------------------------------
(***************************************************************************)
(* The history of the command line (history.c): the list every running     *)
(* instance of lfm keeps, and the file they share.                         *)
(*                                                                         *)
(* An instance loads the file when it starts.  When it ends it makes a     *)
(* temporary file, takes a lock, reads the history again, appends what is  *)
(* new of its own, writes the newest HistSize lines to the temporary file  *)
(* and renames that over the history.  Locks are those of flock: one       *)
(* holder, released when the holder dies.  Waiting for one is given up     *)
(* after a while.                                                          *)
(***************************************************************************)
EXTENDS Integers, Sequences, FiniteSets, SequencesExt

CONSTANTS Procs,        \* instances of lfm
          Stopped,      \* those that may be stopped (Ctrl-Z) at any moment, for good
          Lines,        \* command lines
          Modes,        \* prefixes of the modes they were typed in
          Nothing,      \* an empty prefix or line
          HistSize,     \* option histsize
          InitialFiles, \* what the history file may hold at first, or Missing
          Missing, Nobody,
          Typed,        \* bound: the prefixes and lines that are typed
          MaxAppends,   \* bound: lines appended
          MaxLives      \* bound: times lfm is started

HistSizeAssumption == HistSize \in Nat
NothingAssumption == Nothing \notin Lines \cup Modes
ProcsAssumption == Nobody \notin Procs /\ Stopped \subseteq Procs
TypedAssumption == Typed \subseteq [prefix : Modes, line : Lines]
FilesAssumption == InitialFiles \subseteq {Missing} \cup
                     Seq([prefix : Modes \cup {Nothing}, line : Lines \cup {Nothing}])

VARIABLES file,    \* the history file: a sequence of [prefix, line], or Missing
          lock,    \* who holds the lock file
          pc, list, cur, out, appends, lives

vars == <<file, lock, pc, list, cur, out, appends, lives>>

Entry == [prefix : Modes, line : Lines, new : BOOLEAN]

-----------------------------------------------------------------------------
(* The list *)

\* append_or_move: a line that is there already is moved to the back, and keeps the
\* prefix it was first typed with.
AppendOrMove[l \in Seq(Entry)] ==
  [e \in Entry |->
     LET same == {i \in DOMAIN l : l[i].line = e.line}
         i == CHOOSE k \in same : TRUE
     IN IF same = {} THEN Append(l, e) ELSE Append(RemoveAt(l, i), [l[i] EXCEPT !.new = e.new])]

\* The loop of history_load; a line without a prefix or without text is malformed.
Loaded(f) ==
  FoldLeft(LAMBDA l, e : IF Nothing \in {e.prefix, e.line} THEN l
                         ELSE AppendOrMove[l][[prefix |-> e.prefix, line |-> e.line,
                                                new |-> FALSE]], <<>>, f)

\* Mutant: everything of the list is appended, not only what is new.
MergedAll(old, h) ==
  FoldLeft(LAMBDA l, e : AppendOrMove[l][[e EXCEPT !.new = TRUE]], old, h)

\* The loop of history_write: the new entries of h behind those read again
Merged(old, h) ==
  FoldLeft(LAMBDA l, e : IF e.new THEN AppendOrMove[l][e] ELSE l, old, h)

\* Mutant: the newest entries are left out.
WrittenFirst(l) ==
  [i \in 1..(IF Len(l) > HistSize THEN HistSize ELSE Len(l)) |->
     [prefix |-> l[i].prefix, line |-> l[i].line]]

\* The entries that are written: the oldest are skipped.
Written(l) ==
  LET skip == IF Len(l) > HistSize THEN Len(l) - HistSize ELSE 0
  IN [i \in 1..(Len(l) - skip) |-> [prefix |-> l[i + skip].prefix, line |-> l[i + skip].line]]

-----------------------------------------------------------------------------
Init ==
  /\ file \in InitialFiles
  /\ lock = Nobody
  /\ pc = [p \in Procs |-> "start"]
  /\ list = [p \in Procs |-> <<>>]
  /\ cur = [p \in Procs |-> 0]
  /\ out = [p \in Procs |-> <<>>]
  /\ appends = 0
  /\ lives = Cardinality(Procs)

Goto(p, l) == pc' = [pc EXCEPT ![p] = l]
Own == <<list, cur, appends, lives>>

\* The process ends, and with it what it kept.
Gone(p) == /\ Goto(p, "gone")
           /\ list' = [list EXCEPT ![p] = <<>>] /\ cur' = [cur EXCEPT ![p] = 0]
           /\ out' = [out EXCEPT ![p] = <<>>] /\ UNCHANGED <<appends, lives>>

\* Mutant: the lock is taken whoever holds it.
AcquireAnyhow(p) == lock' = p

\* acquire_file_lock
Acquire(p) == lock = Nobody /\ lock' = p

\* Waiting ends after LOCK_TIMEOUT_MS.
TimedOut(p) == lock # Nobody /\ UNCHANGED lock
\* release_file_lock
Release(p) == lock' = IF lock = p THEN Nobody ELSE lock

-----------------------------------------------------------------------------
(* Starting: cmdline_init, history_load *)

LockToLoad(p) == /\ pc[p] = "start" /\ Acquire(p) /\ Goto(p, "load")
                 /\ UNCHANGED <<file, list, cur, out, appends, lives>>

\* Without the lock an instance starts with an empty history.
LoadGivesUp(p) == /\ pc[p] = "start" /\ TimedOut(p) /\ Goto(p, "running")
                  /\ UNCHANGED <<file, list, cur, out, appends, lives>>

Load(p) ==
  /\ pc[p] = "load"
  /\ list' = [list EXCEPT ![p] = IF file = Missing THEN <<>> ELSE Loaded(file)]
  /\ Release(p) /\ Goto(p, "running")
  /\ UNCHANGED <<file, cur, out, appends, lives>>

-----------------------------------------------------------------------------
(* Running *)

\* history_append
HistoryAppend(p, prefix, line) ==
  /\ pc[p] = "running" /\ appends < MaxAppends
  /\ list' = [list EXCEPT ![p] = AppendOrMove[@][[prefix |-> prefix, line |-> line, new |-> TRUE]]]
  /\ cur' = [cur EXCEPT ![p] = 0]
  /\ appends' = appends + 1
  /\ UNCHANGED <<file, lock, pc, out, lives>>

\* history_reset, of cmdline_clear
Reset(p) == /\ pc[p] = "running" /\ cur' = [cur EXCEPT ![p] = 0]
            /\ UNCHANGED <<file, lock, pc, list, out, appends, lives>>

\* history_prev: where the cursor goes; 0 is nowhere
Prev(l, c) == IF c = 0 THEN Len(l) ELSE IF c > 1 THEN c - 1 ELSE c

\* history_next_entry
NextEntry(l, c) == IF c = 0 \/ c = Len(l) THEN 0 ELSE c + 1

HistoryPrev(p) == /\ pc[p] = "running" /\ cur' = [cur EXCEPT ![p] = Prev(list[p], @)]
                  /\ UNCHANGED <<file, lock, pc, list, out, appends, lives>>
HistoryNext(p) == /\ pc[p] = "running" /\ cur' = [cur EXCEPT ![p] = NextEntry(list[p], @)]
                  /\ UNCHANGED <<file, lock, pc, list, out, appends, lives>>

-----------------------------------------------------------------------------
(* Ending: cmdline_deinit, history_write *)

\* make_dirs or mkstemp may fail: nothing is written then.
MakeTemp(p) == /\ pc[p] = "running"
               /\ \/ Gone(p)
                  \/ /\ Goto(p, "temp") /\ cur' = [cur EXCEPT ![p] = 0]
                     /\ UNCHANGED <<list, out, appends, lives>>
               /\ UNCHANGED <<file, lock>>

LockToWrite(p) == /\ pc[p] = "temp" /\ Acquire(p) /\ Goto(p, "locked")
                  /\ UNCHANGED <<file, out>> /\ UNCHANGED Own

\* err: the temporary file is removed.
Abandon(p) == Release(p) /\ Gone(p) /\ UNCHANGED file

WriteGivesUp(p) == /\ pc[p] = "temp" /\ TimedOut(p) /\ Gone(p) /\ UNCHANGED file

\* The history is read again, merged and written to the temporary file.
ReadAgain(p) == /\ pc[p] = "locked" /\ file # Missing
                /\ out' = [out EXCEPT ![p] = Written(Merged(Loaded(file), list[p]))]
                /\ Goto(p, "written")
                /\ UNCHANGED <<file, lock>> /\ UNCHANGED Own

\* Reading fails when there is no file, and writing may fail.
ReadOrWriteFails(p) == pc[p] = "locked" /\ Abandon(p)

\* rename, after fclose
Rename(p) == /\ pc[p] = "written"
             /\ file' = out[p] /\ Release(p) /\ Gone(p)

RenameFails(p) == pc[p] = "written" /\ Abandon(p)

\* The instance is killed, anywhere.
Crash(p) == pc[p] # "gone" /\ Abandon(p)

Start(p) == /\ pc[p] = "gone" /\ lives < MaxLives /\ Goto(p, "start")
            /\ lives' = lives + 1
            /\ UNCHANGED <<file, lock, list, cur, out, appends>>

\* What an instance does of itself once it started, and once it was told to end
Loading(p) == LockToLoad(p) \/ LoadGivesUp(p) \/ Load(p)
Writing(p) == \/ LockToWrite(p) \/ WriteGivesUp(p) \/ ReadAgain(p)
              \/ ReadOrWriteFails(p) \/ Rename(p) \/ RenameFails(p)

Next == \E p \in Procs :
          \/ Loading(p) \/ Writing(p) \/ MakeTemp(p) \/ Crash(p) \/ Start(p)
          \/ Reset(p) \/ HistoryPrev(p) \/ HistoryNext(p)
          \/ \E e \in Typed : HistoryAppend(p, e.prefix, e.line)

\* A started instance loads, and one told to end writes, without anyone's help, unless
\* it is stopped; using it, or ending it, is up to the user.
Fairness == \A p \in Procs \ Stopped : WF_vars(Loading(p)) /\ WF_vars(Writing(p))

Spec == Init /\ [][Next]_vars /\ Fairness

-----------------------------------------------------------------------------
(* Properties *)

TypeOK ==
  /\ file = Missing \/ file \in Seq([prefix : Modes \cup {Nothing}, line : Lines \cup {Nothing}])
  /\ lock \in Procs \cup {Nobody}
  /\ pc \in [Procs -> {"start", "load", "running", "temp", "locked", "written", "gone"}]
  /\ \A p \in Procs : /\ list[p] \in Seq(Entry) /\ cur[p] \in 0..Len(list[p])
                      /\ out[p] \in Seq([prefix : Modes, line : Lines])

NewLines(p) == {list[p][i].line : i \in {j \in DOMAIN list[p] : list[p][j].new}}
LinesOf(f) == [i \in DOMAIN f |-> f[i].line]
\* What of s is in T, in the order of s
Those(s, T) == FoldLeft(LAMBDA t, x : IF x \in T THEN Append(t, x) ELSE t, <<>>, s)
Newest(s) == IF Len(s) > HistSize THEN SubSeq(s, Len(s) - HistSize + 1, Len(s)) ELSE s

\* Ending an instance loses nobody's lines: after the file is replaced it holds what
\* it held at that moment, whoever wrote it, followed by the lines new in this
\* instance in the order of its list; only the oldest beyond histsize are dropped.
NoUpdateLost ==
  [][\A p \in Procs : Rename(p) =>
       LET new == Those(LinesOf(list[p]), NewLines(p))
           others == Those(LinesOf(Loaded(file)), Lines \ NewLines(p))
       IN LinesOf(file') = Newest(others \o new)]_vars

\* A line is in a list once, and the file the instances write has it once; so does
\* what is being written.
LinesAreUnique ==
  /\ \A p \in Procs : /\ IsInjective(LinesOf(list[p])) /\ IsInjective(LinesOf(out[p]))
                      /\ pc[p] = "written" => Len(out[p]) <= HistSize

\* Going back recalls the lines from the newest to the oldest, one at a time, and stays
\* there; going forward undoes each step back, and ends where it began.
RecallWalksTheList ==
  \A p \in Procs : list[p] # <<>> =>
    LET l == list[p]
        back[n \in 0..Len(l)] == IF n = 0 THEN 0 ELSE Prev(l, back[n - 1])
    IN /\ {back[n] : n \in 1..Len(l)} = DOMAIN l
       /\ Prev(l, back[Len(l)]) = back[Len(l)]
       /\ \A n \in 1..Len(l) : NextEntry(l, back[n]) = back[n - 1]

\* Every instance that was told to end does so, and every started one comes up,
\* whatever the others do, even one that is stopped while it holds the lock.
EndsAndStarts ==
  \A p \in Procs \ Stopped : /\ pc[p] = "temp" ~> pc[p] = "gone"
                   /\ pc[p] = "start" ~> pc[p] # "start"
=============================================================================
