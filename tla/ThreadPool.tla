----------------------------- MODULE ThreadPool -----------------------------
(***************************************************************************)
(* The worker pool of src/src/tpool.c, as lfm uses it: the event loop       *)
(* thread adds work, resizes the pool (option "threads"), and on exit waits *)
(* and destroys it (async_ctx_deinit).  One action is one critical section  *)
(* of work_mutex, or one execution of a work function outside of it.        *)
(* pthread_cond_wait is a state of its own: a thread sleeps until a signal, *)
(* a broadcast or a spurious wakeup makes it compete for the mutex again.   *)
(***************************************************************************)
EXTENDS Integers, Sequences, FiniteSets, SequencesExt

CONSTANTS Threads,     \* thread identities; more than ever live at once
          Works,       \* the work items the event loop may submit
          Nprocs,      \* size given to tpool_create: get_nprocs() + 1
          MaxThreads,  \* bound: largest size asked of tpool_resize
          MaxResizes,  \* bound: how often the option "threads" is set
          NoWork       \* "this thread holds no work"

ASSUME ThreadsAssumption == IsFiniteSet(Threads)
ASSUME SizeAssumption == /\ Nprocs \in Nat \ {0, 1}
                         /\ MaxThreads \in Nat
                         /\ MaxResizes \in Nat
                         /\ Nprocs <= Cardinality(Threads)
                         /\ MaxThreads <= Cardinality(Threads)
ASSUME NoWorkAssumption == NoWork \notin Works

VARIABLES queue,        \* work_first ... work_last
          pc,           \* where each worker is in tpool_worker
          job,          \* the work each worker holds
          working_cnt, thread_cnt, kill_cnt, stop,
          caller,       \* where the event loop thread is
          done,         \* works whose function has returned
          dropped,      \* works freed unexecuted by tpool_destroy
          resizes       \* calls of tpool_resize so far, for the bound only

vars == <<queue, pc, job, working_cnt, thread_cnt, kill_cnt, stop, caller,
          done, dropped, resizes>>

\* "none": no such thread; "ready": about to lock work_mutex at the top of the
\* loop; "asleep": in pthread_cond_wait; "busy": executing its work function;
\* "ran": the function has returned, about to lock work_mutex again
WorkerPC == {"none", "ready", "asleep", "busy", "ran"}

\* "loop": the event loop runs; "drain"/"drain_asleep": first tpool_wait of
\* async_ctx_deinit; "drained": it returned; "join"/"join_asleep": tpool_wait
\* inside tpool_destroy; "freed": the pool is gone
CallerPC == {"loop", "drain", "drain_asleep", "drained",
             "join", "join_asleep", "freed"}

Alive == {t \in Threads : pc[t] # "none"}
Holding == {t \in Threads : pc[t] \in {"busy", "ran"}}

\* pthread_cond_broadcast(&work_cond)
WakeWorkers(p) == [t \in Threads |-> IF p[t] = "asleep" THEN "ready" ELSE p[t]]

\* pthread_cond_signal(&working_cond): only the event loop thread waits on it
WakeCaller == CASE caller = "drain_asleep" -> "drain"
                [] caller = "join_asleep"  -> "join"
                [] OTHER                   -> caller

Init == /\ queue = <<>>
        /\ \E started \in SUBSET Threads :
             /\ Cardinality(started) = Nprocs
             /\ pc = [t \in Threads |-> IF t \in started THEN "ready" ELSE "none"]
        /\ job = [t \in Threads |-> NoWork]
        /\ working_cnt = 0
        /\ thread_cnt = Nprocs
        /\ kill_cnt = 0
        /\ stop = FALSE
        /\ caller = "loop"
        /\ done = {}
        /\ dropped = {}
        /\ resizes = 0

-----------------------------------------------------------------------------
\* tpool_worker, one critical section per action

Sleep(t) == /\ pc[t] = "ready"
            /\ queue = <<>> /\ ~stop /\ kill_cnt = 0
            /\ pc' = [pc EXCEPT ![t] = "asleep"]
            /\ UNCHANGED <<queue, job, working_cnt, thread_cnt, kill_cnt, stop,
                           caller, done, dropped, resizes>>

\* POSIX lets pthread_cond_wait return without a signal
SpuriousWakeup(t) == /\ pc[t] = "asleep"
                     /\ pc' = [pc EXCEPT ![t] = "ready"]
                     /\ UNCHANGED <<queue, job, working_cnt, thread_cnt,
                                    kill_cnt, stop, caller, done, dropped, resizes>>

Take(t) == /\ pc[t] = "ready"
           /\ queue # <<>> /\ ~stop /\ kill_cnt = 0
           /\ pc' = [pc EXCEPT ![t] = "busy"]
           /\ job' = [job EXCEPT ![t] = Head(queue)]
           /\ queue' = Tail(queue)
           /\ working_cnt' = working_cnt + 1
           /\ UNCHANGED <<thread_cnt, kill_cnt, stop, caller, done, dropped, resizes>>

\* work->func(work->arg), outside of the mutex
Run(t) == /\ pc[t] = "busy"
          /\ pc' = [pc EXCEPT ![t] = "ran"]
          /\ done' = done \cup {job[t]}
          /\ UNCHANGED <<queue, job, working_cnt, thread_cnt, kill_cnt, stop,
                         caller, dropped, resizes>>

Finish(t) == /\ pc[t] = "ran"
             /\ pc' = [pc EXCEPT ![t] = "ready"]
             /\ job' = [job EXCEPT ![t] = NoWork]
             /\ working_cnt' = working_cnt - 1
             /\ caller' = IF ~stop /\ working_cnt = 1 /\ queue = <<>>
                          THEN WakeCaller ELSE caller
             /\ UNCHANGED <<queue, thread_cnt, kill_cnt, stop, done, dropped, resizes>>

\* the two breaks out of the loop, and what follows it up to the unlock
Exit(t) == /\ pc[t] = "ready"
           /\ stop \/ kill_cnt > 0
           /\ pc' = [pc EXCEPT ![t] = "none"]
           /\ kill_cnt' = IF stop THEN kill_cnt ELSE kill_cnt - 1
           /\ thread_cnt' = thread_cnt - 1
           /\ caller' = WakeCaller
           /\ UNCHANGED <<queue, job, working_cnt, stop, done, dropped, resizes>>

-----------------------------------------------------------------------------
\* the event loop thread

Seen == ToSet(queue) \cup {job[t] : t \in Holding} \cup done \cup dropped

\* mutant: work->next is not set when the work goes first
AddWorkLosingChain(w, priority) ==
  /\ caller = "loop"
  /\ w \notin Seen
  /\ queue' = IF priority THEN <<w>> ELSE Append(queue, w)
  /\ pc' = WakeWorkers(pc)
  /\ UNCHANGED <<job, working_cnt, thread_cnt, kill_cnt, stop, caller, done,
                 dropped, resizes>>

AddWork(w, priority) ==
  /\ caller = "loop"
  /\ w \notin Seen
  /\ queue' = IF priority THEN <<w>> \o queue ELSE Append(queue, w)
  /\ pc' = WakeWorkers(pc)
  /\ UNCHANGED <<job, working_cnt, thread_cnt, kill_cnt, stop, caller, done,
                 dropped, resizes>>

\* tpool_resize to at least as many threads as there are: start the missing
\* ones and call off the kills that have not happened yet
Grow(num) ==
  /\ caller = "loop" /\ resizes < MaxResizes
  /\ num >= thread_cnt
  /\ \E new \in SUBSET (Threads \ Alive) :
       /\ Cardinality(new) = num - thread_cnt
       /\ pc' = WakeWorkers([t \in Threads |->
                               IF t \in new THEN "ready" ELSE pc[t]])
  /\ thread_cnt' = num
  /\ kill_cnt' = 0
  /\ resizes' = resizes + 1
  /\ UNCHANGED <<queue, job, working_cnt, stop, caller, done, dropped>>

\* mutant: no broadcast after setting kill_cnt
ShrinkSilently(num) ==
  /\ caller = "loop" /\ resizes < MaxResizes
  /\ num < thread_cnt
  /\ kill_cnt' = thread_cnt - num
  /\ resizes' = resizes + 1
  /\ UNCHANGED <<pc, thread_cnt, queue, job, working_cnt, stop, caller, done,
                 dropped>>

\* tpool_resize to fewer threads: ask the surplus to exit
Shrink(num) ==
  /\ caller = "loop" /\ resizes < MaxResizes
  /\ num < thread_cnt
  /\ kill_cnt' = thread_cnt - num
  /\ pc' = WakeWorkers(pc)
  /\ resizes' = resizes + 1
  /\ UNCHANGED <<thread_cnt, queue, job, working_cnt, stop, caller, done, dropped>>

\* async_ctx_deinit calls tpool_wait, then tpool_destroy
Drain == /\ caller = "loop"
         /\ caller' = "drain"
         /\ UNCHANGED <<queue, pc, job, working_cnt, thread_cnt, kill_cnt, stop,
                        done, dropped, resizes>>

\* mutant: only running works are waited for, not threads
MustWaitForWorkOnly == working_cnt # 0

\* the condition under which tpool_wait goes (back) to sleep
MustWait == (~stop /\ working_cnt # 0) \/ (stop /\ thread_cnt # 0)

WaitSleeps == /\ caller \in {"drain", "join"}
              /\ MustWait
              /\ caller' = IF caller = "drain" THEN "drain_asleep"
                                               ELSE "join_asleep"
              /\ UNCHANGED <<queue, pc, job, working_cnt, thread_cnt, kill_cnt,
                             stop, done, dropped, resizes>>

\* when the second tpool_wait returns, tpool_destroy frees the pool
WaitReturns == /\ caller \in {"drain", "join"}
               /\ ~MustWait
               /\ caller' = IF caller = "drain" THEN "drained" ELSE "freed"
               /\ UNCHANGED <<queue, pc, job, working_cnt, thread_cnt, kill_cnt,
                              stop, done, dropped, resizes>>

CallerSpuriousWakeup == /\ caller \in {"drain_asleep", "join_asleep"}
                        /\ caller' = WakeCaller
                        /\ UNCHANGED <<queue, pc, job, working_cnt, thread_cnt,
                                       kill_cnt, stop, done, dropped, resizes>>

\* mutant: tpool_destroy does not wake the idle workers
DestroySilently == /\ caller = "drained"
                   /\ dropped' = dropped \cup ToSet(queue)
                   /\ queue' = <<>>
                   /\ stop' = TRUE
                   /\ caller' = "join"
                   /\ UNCHANGED <<pc, job, working_cnt, thread_cnt, kill_cnt,
                                  done, resizes>>

\* tpool_destroy up to its tpool_wait.  work_first is left pointing at freed
\* nodes; emptying the queue here is what its users can see, since stop is set
\* in the same critical section and workers test stop first
Destroy == /\ caller = "drained"
           /\ dropped' = dropped \cup ToSet(queue)
           /\ queue' = <<>>
           /\ stop' = TRUE
           /\ pc' = WakeWorkers(pc)
           /\ caller' = "join"
           /\ UNCHANGED <<job, working_cnt, thread_cnt, kill_cnt, done, resizes>>

-----------------------------------------------------------------------------
Worker(t) == Sleep(t) \/ Take(t) \/ Run(t) \/ Finish(t) \/ Exit(t)
Teardown == WaitSleeps \/ WaitReturns \/ Destroy

\* the pool is gone and the process goes on without it
Terminated == caller = "freed" /\ UNCHANGED vars

Next == \/ \E t \in Threads : Worker(t) \/ SpuriousWakeup(t)
        \/ \E w \in Works, priority \in BOOLEAN : AddWork(w, priority)
        \/ \E num \in 2 .. MaxThreads : Grow(num) \/ Shrink(num)
        \/ Drain \/ Teardown \/ CallerSpuriousWakeup
        \/ Terminated

Spec == Init /\ [][Next]_vars

\* Every thread that can lock work_mutex, or whose work function can return,
\* eventually does: the mutex is held for a few instructions only, and the
\* functions lfm submits terminate once the system calls they make return.
FairSpec == /\ Spec
            /\ \A t \in Threads : WF_vars(Worker(t))
            /\ WF_vars(Teardown)

-----------------------------------------------------------------------------
TypeOK == /\ queue \in Seq(Works)
          /\ pc \in [Threads -> WorkerPC]
          /\ job \in [Threads -> Works \cup {NoWork}]
          /\ working_cnt \in Int
          /\ thread_cnt \in Int
          /\ kill_cnt \in Nat
          /\ stop \in BOOLEAN
          /\ caller \in CallerPC
          /\ done \subseteq Works
          /\ dropped \subseteq Works
          /\ resizes \in Nat

\* The counters the wait conditions are written with count what they claim to:
\* working_cnt the threads that hold a work, thread_cnt the threads that live.
\* A resize never condemns so many threads that fewer than two remain.
CountersExact == /\ working_cnt = Cardinality(Holding)
                 /\ thread_cnt = Cardinality(Alive)
                 /\ ~stop => kill_cnt <= thread_cnt - 2

\* A work item is in one place only: queued once, held by one thread, executed
\* or discarded, whatever the interleaving of adds, takes, resizes and exits.
ExecutedOnce ==
  /\ IsInjective(queue)
  /\ \A t \in Holding : /\ job[t] \notin ToSet(queue) \cup dropped
                        /\ job[t] \in done <=> pc[t] = "ran"
  /\ \A t, u \in Holding : job[t] = job[u] => t = u
  /\ ToSet(queue) \cap (done \cup dropped) = {}
  /\ done \cap dropped = {}

\* No wakeup is lost on work_cond: while work is queued, threads are to be
\* killed, or the pool is stopping, no worker sleeps through it.
NoWorkerMissesWakeup ==
  queue # <<>> \/ stop \/ kill_cnt > 0 => \A t \in Threads : pc[t] # "asleep"

\* No wakeup is lost on working_cond: tpool_wait sleeps only while a thread
\* that will signal it is still to come.
CallerNotForgotten ==
  /\ caller = "drain_asleep" => Holding # {} \/ queue # <<>>
  /\ caller = "join_asleep" => Alive # {}

\* When tpool_destroy frees the pool no thread is left that could touch it, and
\* every work item ever accepted was executed or discarded.
FreedIsQuiescent ==
  caller = "freed" => Alive = {} /\ Seen = done \cup dropped

\* The pool implements its abstract promise.
Pool == INSTANCE WorkPool WITH
          pending <- ToSet(queue),
          running <- {job[t] : t \in {u \in Threads : pc[u] = "busy"}}
PoolSpec == Pool!Spec

\* Every accepted work item is executed, or discarded by the teardown, although
\* every add of lfm puts its item in front of the older ones.
WorkSettles ==
  \A w \in Works : w \in ToSet(queue) ~> w \in done \cup dropped

\* async_ctx_deinit gets through both waits.
TeardownCompletes == caller = "drain" ~> caller = "freed"

\* A smaller size is eventually in force: all condemned threads have exited.
ShrinkTakesEffect == kill_cnt > 0 ~> kill_cnt = 0 \/ stop

\* Nothing is lost track of: types, exact counters, works executed once, a thread in
\* tpool_wait that is going to be woken, and no thread that could touch a freed pool.
PoolConsistent == /\ TypeOK /\ CountersExact /\ ExecutedOnce
                  /\ CallerNotForgotten /\ FreedIsQuiescent

\* What the pool was asked for comes about: accepted works end, a teardown comes back,
\* and a pool that was made smaller gets smaller.
PoolSettles == WorkSettles /\ TeardownCompletes /\ ShrinkTakesEffect
=============================================================================
