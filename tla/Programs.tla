------------------------------ MODULE Programs ------------------------------
(***************************************************************************)
(* The programs lfm runs: in the background (lua/spawn.c), where the loop  *)
(* passes their output on line by line and reports their end, and in the   *)
(* foreground (lua/execute.c), where the one thread of lfm feeds them,     *)
(* reads from them and waits for them itself.                              *)
(*                                                                         *)
(* Pipes hold Pipe chunks.  A chunk of output is "n" when it ends with a   *)
(* newline and "f" when it does not, and a line is given by the number of  *)
(* its chunks.  A program is of one of three kinds: "echo" writes every    *)
(* chunk it reads before it reads the next, "collect" reads all of its     *)
(* input first, "deaf" reads none of it and writes Says chunks.            *)
(***************************************************************************)
EXTENDS Integers, Sequences, FiniteSets, SequencesExt

CONSTANTS Kids,      \* the programs that may be run
          Background, \* those of them that are spawned; the others are executed
          Jobs,      \* what may be run: sets of options by program
          Pipe,      \* chunks a pipe holds
          MaxInput,  \* bound: chunks of input
          Says,      \* what a deaf program writes
          Nobody

Streams == {"out", "err"}

PipeAssumption == Pipe \in Nat \ {0} /\ Says \in Nat /\ MaxInput \in Nat
KidsAssumption == Nobody \notin Kids /\ Background \subseteq Kids
JobsAssumption ==
  Jobs \in [Kids -> SUBSET [kind : {"echo", "collect", "deaf"}, cap : SUBSET Streams,
                           onExit : BOOLEAN, stdin : {"none", "data", "open"},
                           chunks : 0..MaxInput]]

VARIABLES kids,  \* the programs, and what lfm holds of them
          main   \* what the thread of lfm is doing

vars == <<kids, main>>

Fresh == [live |-> "no", kind |-> "deaf", cap |-> {}, watched |-> FALSE, stdin |-> "none",
          in |-> 0, read |-> 0, told |-> 0, said |-> [s \in Streams |-> <<>>],
          seen |-> [s \in Streams |-> 0], lines |-> [s \in Streams |-> <<>>],
          reported |-> "no", chunks |-> 0]

Loop == [op |-> "loop", kid |-> Nobody, left |-> 0, step |-> "", sending |-> FALSE,
         open |-> {}, part |-> [s \in Streams |-> 0]]

Unread(k, s) == SubSeq(kids[k].said[s], kids[k].seen[s] + 1, Len(kids[k].said[s]))
Running(k) == kids[k].live = "run"

-----------------------------------------------------------------------------
(* Lines *)

\* getline, chunk by chunk: the lengths of the lines that are complete, behind those of
\* got, and the length of the one that is not.
Split(got, text) ==
  FoldLeft(LAMBDA g, chunk :
             IF chunk = "n" THEN [lines |-> Append(g.lines, g.part + 1), part |-> 0]
             ELSE [lines |-> g.lines, part |-> g.part + 1],
           got, text)

\* The last line may lack its newline.
Whole(got) == IF got.part > 0 THEN Append(got.lines, got.part) ELSE got.lines

LineLengths(text) == Whole(Split([lines |-> <<>>, part |-> 0], text))

\* child_output_cb: getline until there is nothing more to read.
Output(kid, s) ==
  LET unread == SubSeq(kid.said[s], kid.seen[s] + 1, Len(kid.said[s]))
  IN [kid EXCEPT !.lines[s] = Whole(Split([lines |-> @, part |-> 0], unread)),
                 !.seen[s] = Len(kid.said[s])]

-----------------------------------------------------------------------------
(* Background programs *)

Started(job, watched, stdin) ==
  [Fresh EXCEPT !.live = "run", !.kind = job.kind, !.cap = job.cap, !.watched = watched,
                !.stdin = stdin, !.chunks = job.chunks]

\* spawn up to the input, which is written by the caller itself.
Spawn(k, job) ==
  /\ main.op = "loop" /\ kids[k].live = "no" /\ k \in Background
  /\ kids' = [kids EXCEPT ![k] =
                Started(job, job.onExit \/ job.cap # {},
                        IF job.stdin = "none" THEN "none" ELSE "open")]
  /\ main' = IF job.stdin = "data"
             THEN [Loop EXCEPT !.op = "spawn", !.kid = k, !.left = job.chunks]
             ELSE Loop

\* libev waits for every child that ended, and feeds its watcher, if it has one.
Reaped(kid) == [kid EXCEPT !.live = "gone", !.reported = IF kid.watched THEN "due" ELSE @]

\* A blocking write to the pipe; a reader that is gone makes it fail at once.
PipeTakes(k) == kids[k].in < Pipe \/ ~Running(k)
Put(k) == [kids EXCEPT ![k].in = IF Running(k) THEN @ + 1 ELSE @]

\* The loop of spawn over the chunks.
SendInput(k) ==
  /\ main.op = "spawn" /\ main.kid = k /\ main.left > 0 /\ PipeTakes(k)
  /\ kids' = Put(k)
  /\ main' = [main EXCEPT !.left = @ - 1]

InputSent(k) ==
  /\ main.op = "spawn" /\ main.kid = k /\ main.left = 0
  /\ kids' = [kids EXCEPT ![k].stdin = "closed"]
  /\ main' = Loop

\* proc:write with stdin = true; a failing write closes the pipe.
StartWrite(k) ==
  /\ main.op = "loop" /\ k \in Background /\ kids[k].live # "no" /\ kids[k].stdin = "open"
  /\ kids[k].chunks < MaxInput
  /\ main' = [Loop EXCEPT !.op = "write", !.kid = k]
  /\ kids' = [kids EXCEPT ![k].chunks = @ + 1]

EndWrite(k) ==
  /\ main.op = "write" /\ main.kid = k /\ PipeTakes(k)
  /\ kids' = IF Running(k) THEN Put(k) ELSE [kids EXCEPT ![k].stdin = "closed"]
  /\ main' = Loop

\* proc:close, also when the handle is collected.
CloseInput(k) ==
  /\ main.op = "loop" /\ k \in Background /\ kids[k].stdin = "open"
  /\ kids' = [kids EXCEPT ![k].stdin = "closed"]
  /\ UNCHANGED main

\* The io watchers of a program: from its start to child_exit_cb.
Listening(k, s) == k \in Background /\ s \in kids[k].cap /\ kids[k].live # "no"
                   /\ kids[k].reported # "yes"

\* child_output_cb, run by the loop when the pipe can be read.
ChildOutput(k, s) ==
  /\ main.op = "loop" /\ Listening(k, s) /\ Unread(k, s) # <<>>
  /\ kids' = [kids EXCEPT ![k] = Output(@, s)]
  /\ UNCHANGED main

Reap(k) ==
  /\ main.op = "loop" /\ k \in Background /\ kids[k].live = "zombie"
  /\ kids' = [kids EXCEPT ![k] = Reaped(@)]
  /\ UNCHANGED main

\* Mutant: the end is reported without the output that is still in the pipes.
AtExitAtOnce(kid) == kid

\* What is left in the pipes is passed on before the end is reported.
AtExit(kid) == IF kid.cap = {"out", "err"} THEN Output(Output(kid, "out"), "err")
               ELSE IF kid.cap = {} THEN kid
               ELSE Output(kid, CHOOSE s \in kid.cap : TRUE)

\* child_exit_cb: the rest of the output, the callback, and the watchers are gone.
ChildExit(k) ==
  /\ main.op = "loop" /\ kids[k].reported = "due"
  /\ kids' = [kids EXCEPT ![k] = [AtExit(@) EXCEPT !.reported = "yes"]]
  /\ UNCHANGED main

-----------------------------------------------------------------------------
(* Foreground programs *)

\* execute up to the loop: watchers stopped, UI suspended, program started.
Execute(k, job) ==
  /\ main.op = "loop" /\ kids[k].live = "no" /\ k \notin Background
  /\ kids' = [kids EXCEPT ![k] =
                Started(job, FALSE, IF job.stdin = "data" THEN "open" ELSE "none")]
  /\ main' = [Loop EXCEPT !.op = "execute", !.kid = k, !.left = job.chunks, !.step = "top",
                          !.sending = job.stdin = "data", !.open = job.cap]

Executing(k, step) == main.op = "execute" /\ main.kid = k /\ main.step = step

\* while (num_open_fds > 0 || sending_input)
LoopEnds(k) ==
  /\ Executing(k, "top") /\ main.open = {} /\ ~main.sending
  /\ main' = [main EXCEPT !.step = "wait"]
  /\ kids' = [kids EXCEPT ![k].stdin = IF @ = "open" THEN "closed" ELSE @]

\* Mutant: the pipe stays open after the last chunk.
WritesAndKeepsOpen(k) ==
  LET taken == main.left > 0 /\ Running(k) /\ kids[k].in < Pipe
      left == IF taken THEN main.left - 1 ELSE main.left
  IN /\ kids' = [kids EXCEPT ![k].in = IF taken THEN @ + 1 ELSE @]
     /\ main' = [main EXCEPT !.step = "before", !.left = left, !.sending = left > 0]

\* One chunk is written, if the pipe takes it, and the pipe closed after the last one.
\* A write that fails asks whether the program died: only waitpid failing means yes, so
\* the program has to be waited for twice.
Writes(k) ==
  LET chunk == main.left > 0
      taken == chunk /\ Running(k) /\ kids[k].in < Pipe
      left == IF taken THEN main.left - 1 ELSE main.left
      dead == chunk /\ ~taken /\ kids[k].live = "gone"
  IN /\ kids' = [kids EXCEPT ![k].in = IF taken THEN @ + 1 ELSE @,
                             ![k].live = IF chunk /\ ~taken /\ @ = "zombie" THEN "gone" ELSE @,
                             ![k].stdin = IF left = 0 THEN "closed" ELSE @]
     /\ main' = [main EXCEPT !.step = "before", !.left = left, !.sending = left > 0 /\ ~dead]

\* The part of the loop before poll.
Send(k) ==
  /\ Executing(k, "top") /\ (main.open # {} \/ main.sending)
  /\ IF main.sending THEN Writes(k)
     ELSE main' = [main EXCEPT !.step = "before"] /\ UNCHANGED kids

Ready(k, s) == s \in main.open /\ (Unread(k, s) # <<>> \/ ~Running(k))

\* poll finds nothing to do and blocks, without a limit.
Blocks(k) ==
  /\ Executing(k, "before") /\ \A s \in Streams : ~Ready(k, s)
  /\ main' = [main EXCEPT !.step = "poll"]
  /\ UNCHANGED kids

\* poll returns: what can be read is read, and a stream that has only hung up is closed.
\* A fragment is kept, and put before the next line.
Polled(k) ==
  /\ Executing(k, "before") \/ Executing(k, "poll")
  /\ \E s \in Streams : Ready(k, s)
  /\ LET read == {s \in main.open : Unread(k, s) # <<>>}
         got == [s \in read |-> Split([lines |-> kids[k].lines[s], part |-> main.part[s]],
                                      Unread(k, s))]
     IN /\ kids' = [kids EXCEPT
              ![k].lines = [s \in Streams |-> IF s \in read THEN got[s].lines ELSE @[s]],
              ![k].seen = [s \in Streams |-> IF s \in read THEN Len(kids[k].said[s]) ELSE @[s]]]
        /\ main' = [main EXCEPT !.step = "top",
              !.open = {s \in @ : s \in read \/ Running(k)},
              !.part = [s \in Streams |-> IF s \in read THEN got[s].part ELSE @[s]]]

\* waitpid, what is left of a line without newline, and the return.
Waited(k) ==
  /\ Executing(k, "wait") /\ ~Running(k)
  /\ kids' = [kids EXCEPT ![k].live = "gone", ![k].reported = "yes",
                ![k].lines = [s \in Streams |-> Whole([lines |-> @[s], part |-> main.part[s]])]]
  /\ main' = Loop

-----------------------------------------------------------------------------
(* The programs themselves *)

AtEnd(k) == kids[k].in = 0 /\ kids[k].stdin # "open"

Reads(k) ==
  /\ Running(k) /\ kids[k].in > 0
  /\ \/ kids[k].kind = "echo" /\ kids[k].told = kids[k].read
     \/ kids[k].kind = "collect"
  /\ kids' = [kids EXCEPT ![k].in = @ - 1, ![k].read = @ + 1]
  /\ UNCHANGED main

\* A chunk of output; what is not captured goes to the terminal or to /dev/null.
Tells(k, s, chunk) ==
  /\ Running(k)
  /\ \/ kids[k].kind = "echo" /\ kids[k].told < kids[k].read /\ s = "out"
     \/ kids[k].kind = "collect" /\ AtEnd(k) /\ kids[k].told < kids[k].read /\ s = "out"
     \/ kids[k].kind = "deaf" /\ kids[k].told < Says
  /\ IF s \in kids[k].cap
     THEN /\ Len(Unread(k, s)) < Pipe
          /\ kids' = [kids EXCEPT ![k].told = @ + 1, ![k].said[s] = Append(@, chunk)]
     ELSE /\ chunk = "n"
          /\ kids' = [kids EXCEPT ![k].told = @ + 1]
  /\ UNCHANGED main

\* The program ends.  The signal interrupts a poll that is blocked, and only that.
Ends(k) ==
  /\ Running(k)
  /\ IF kids[k].kind = "deaf" THEN kids[k].told = Says
     ELSE AtEnd(k) /\ kids[k].told = kids[k].read
  /\ kids' = [kids EXCEPT ![k].live = "zombie"]
  /\ main' = IF main.step = "poll" THEN [main EXCEPT !.step = "top"] ELSE main

-----------------------------------------------------------------------------
Init == kids = [k \in Kids |-> Fresh] /\ main = Loop

Lua ==
  \E k \in Kids :
    \/ \E job \in Jobs[k] : Spawn(k, job) \/ Execute(k, job)
    \/ StartWrite(k) \/ CloseInput(k)

Lfm ==
  \E k \in Kids :
    \/ SendInput(k) \/ InputSent(k) \/ EndWrite(k)
    \/ LoopEnds(k) \/ Send(k) \/ Blocks(k) \/ Polled(k) \/ Waited(k)

Events(k) == \/ \E s \in Streams : ChildOutput(k, s)
             \/ Reap(k) \/ ChildExit(k)

Program(k) == Reads(k) \/ Ends(k) \/ \E s \in Streams, chunk \in {"n", "f"} : Tells(k, s, chunk)

Next == Lua \/ Lfm \/ \E k \in Kids : Events(k) \/ Program(k)

Spec == Init /\ [][Next]_vars

\* The thread of lfm goes on while it can, the loop attends to its watchers, and the
\* programs are of the well-behaved kind that ends when its input does.
FairSpec == Spec /\ WF_vars(Lfm)
                 /\ \A k \in Kids : /\ WF_vars(ChildOutput(k, "out")) /\ WF_vars(ChildOutput(k, "err"))
                                    /\ WF_vars(Reap(k)) /\ WF_vars(ChildExit(k))
                                    /\ WF_vars(Program(k))

-----------------------------------------------------------------------------
TypeOK ==
  /\ \A k \in Kids :
       LET kid == kids[k] IN
       /\ kid.live \in {"no", "run", "zombie", "gone"} /\ kid.kind \in {"echo", "collect", "deaf"}
       /\ kid.cap \subseteq Streams /\ kid.in \in 0..Pipe
       /\ kid.reported \in {"no", "due", "yes"} /\ kid.stdin \in {"none", "open", "closed"}
       /\ \A s \in Streams : kid.seen[s] \in 0..Len(kid.said[s])
       /\ kid.told <= Says \/ kid.told <= kid.read
  /\ main.op \in {"loop", "spawn", "write", "execute"} /\ main.kid \in Kids \cup {Nobody}
  /\ main.left \in 0..MaxInput /\ main.open \subseteq Streams

Total(lengths) == FoldLeft(+, 0, lengths)
CutsOf(lengths) == {Total(SubSeq(lengths, 1, i)) : i \in DOMAIN lengths}

\* When the end of a background program is reported, everything it wrote to a captured
\* stream has been passed on, and no two of its lines were passed on as one
\* (lua/spawn.c:103-159).
OutputBeforeExit ==
  \A k \in Background, s \in Streams :
    (kids[k].reported = "yes" /\ s \in kids[k].cap)
      => /\ kids[k].seen[s] = Len(kids[k].said[s])
         /\ CutsOf(LineLengths(kids[k].said[s])) \subseteq CutsOf(kids[k].lines[s])

\* What execute returns is exactly the lines the program wrote, whatever pieces they
\* were read in (lua/execute.c:232-298).
ResultIsOutput ==
  \A k \in Kids \ Background, s \in Streams :
    (kids[k].reported = "yes" /\ s \in kids[k].cap)
      => kids[k].lines[s] = LineLengths(kids[k].said[s])

\* More input than the pipes on both sides of the program hold.
Overfills(k) ==
  LET kid == kids[k] IN
  /\ kid.cap # {}
  /\ \/ kid.kind = "echo" /\ kid.chunks > 2 * Pipe + 1
     \/ kid.kind = "deaf" /\ kid.chunks > Pipe /\ Says > Pipe

\* lfm.spawn and proc:write return, unless the program is stuck on its own output, which
\* nobody reads meanwhile (lua/spawn.c:381, 176).
SpawnReturns ==
  \A k \in Background :
    (main.op \in {"spawn", "write"} /\ main.kid = k) ~> (main.op = "loop" \/ Overfills(k))

\* Programs with which the loop of execute cannot be held up: poll waits for their
\* output, or for their end, but never for room in the pipe to them.
KeepsTalking(k) ==
  LET kid == kids[k] IN
  \/ kid.stdin = "none"
  \/ kid.chunks = 0 /\ kid.cap # {}
  \/ kid.kind = "echo" /\ "out" \in kid.cap
  \/ kid.kind = "collect" /\ kid.chunks = 1 /\ kid.cap # {}

\* lfm.execute returns from a program that answers what it is sent
\* (lua/execute.c:203-283).
ExecuteReturns ==
  \A k \in Kids \ Background :
    (main.op = "execute" /\ main.kid = k /\ KeepsTalking(k)) ~> (main.op = "loop")

HeldUp ==
  \/ main.op = "execute" /\ ~KeepsTalking(main.kid)
  \/ main.op \in {"spawn", "write"} /\ Overfills(main.kid)

\* The end of a background program with a watcher is reported, also when it comes while
\* lfm is busy with another program, unless lfm is held up for good
\* (lua/spawn.c:103-132).
ExitIsReported ==
  \A k \in Background :
    (kids[k].live \in {"zombie", "gone"} /\ kids[k].watched)
      ~> (kids[k].reported = "yes" \/ HeldUp)

\* What the interface promises: the data given to execute is sent to the program, so
\* that one that waits for all of its input gets it and ends
\* (doc/LuaCATS/lfm.lua:76, lua/execute.c:204-223).
InputIsSent ==
  \A k \in Kids \ Background :
    (main.op = "execute" /\ main.kid = k /\ kids[k].kind = "collect") ~> (main.op = "loop")
=============================================================================
