-------------------------- MODULE ThreadPoolProofs --------------------------
(***************************************************************************)
(* Proofs about ThreadPool, for any numbers of threads, works and resizes.  *)
(* The inductive invariant is the conjunction of the safety invariants and  *)
(* of StopPhase, which ties tm->stop to where the event loop thread is, and  *)
(* JobsHeld: a thread out of the mutex holds a work.                        *)
(***************************************************************************)
EXTENDS ThreadPool, FiniteSetTheorems, SequenceTheorems, TLAPS

StopPhase == /\ stop <=> caller \in {"join", "join_asleep", "freed"}
             /\ stop => queue = <<>>

JobsHeld == \A t \in Holding : job[t] \in Works

IInv == /\ TypeOK
        /\ JobsHeld
        /\ CountersExact
        /\ ExecutedOnce
        /\ NoWorkerMissesWakeup
        /\ CallerNotForgotten
        /\ FreedIsQuiescent
        /\ StopPhase

-----------------------------------------------------------------------------
(* Sequences without repetition *)

LEMMA EmptyToSet == /\ ToSet(<<>>) = {}
                    /\ IsInjective(<<>>)
BY DEF ToSet, IsInjective

LEMMA ToSetElements ==
  ASSUME NEW S, NEW s \in Seq(S)
  PROVE  /\ ToSet(s) \subseteq S
         /\ ToSet(s) = {} <=> s = <<>>
BY DEF ToSet

LEMMA PrependToSet ==
  ASSUME NEW S, NEW s \in Seq(S), NEW e \in S, e \notin ToSet(s), IsInjective(s)
  PROVE  LET r == <<e>> \o s
         IN  /\ r \in Seq(S) /\ r # <<>>
             /\ ToSet(r) = ToSet(s) \cup {e}
             /\ IsInjective(r)
<1> DEFINE r == <<e>> \o s
<1>1. /\ r \in Seq(S)
      /\ Len(r) = Len(s) + 1
      /\ DOMAIN r = 1 .. Len(s) + 1
      /\ r[1] = e
      /\ \A i \in 2 .. Len(s) + 1 : r[i] = s[i - 1]
  OBVIOUS
<1> HIDE DEF r
<1>2. \A i \in 1 .. Len(s) : r[i + 1] = s[i]
  BY <1>1
<1>3. ToSet(r) = ToSet(s) \cup {e}
  <2>1. /\ e \in ToSet(r)
        /\ ToSet(s) \subseteq ToSet(r)
    <3>1. 1 \in DOMAIN r
      BY <1>1
    <3>2. \A i \in DOMAIN s : i + 1 \in DOMAIN r /\ r[i + 1] = s[i]
      BY <1>1, <1>2
    <3> QED BY <1>1, <3>1, <3>2 DEF ToSet
  <2>2. ASSUME NEW i \in DOMAIN r PROVE r[i] \in ToSet(s) \cup {e}
    BY <1>1 DEF ToSet
  <2> QED BY <2>1, <2>2 DEF ToSet
<1>4. IsInjective(r)
  <2>1. SUFFICES ASSUME NEW i \in 1 .. Len(s) + 1, NEW j \in 1 .. Len(s) + 1,
                        r[i] = r[j]
                 PROVE  i = j
    BY <1>1 DEF IsInjective
  <2>2. \A k \in 2 .. Len(s) + 1 : r[k] # e
    BY <1>1 DEF ToSet
  <2>3. \A k, l \in 2 .. Len(s) + 1 : s[k - 1] = s[l - 1] => k = l
    BY DEF IsInjective
  <2> QED BY <1>1, <2>1, <2>2, <2>3
<1>5. r # <<>>
  BY <1>1
<1> QED BY <1>1, <1>3, <1>4, <1>5 DEF r

LEMMA AppendToSet ==
  ASSUME NEW S, NEW s \in Seq(S), NEW e \in S, e \notin ToSet(s), IsInjective(s)
  PROVE  LET r == Append(s, e)
         IN  /\ r \in Seq(S) /\ r # <<>>
             /\ ToSet(r) = ToSet(s) \cup {e}
             /\ IsInjective(r)
<1> DEFINE r == Append(s, e)
<1>1. /\ r \in Seq(S)
      /\ DOMAIN r = 1 .. Len(s) + 1
      /\ r[Len(s) + 1] = e
      /\ \A i \in 1 .. Len(s) : r[i] = s[i]
  OBVIOUS
<1>2. ToSet(r) = ToSet(s) \cup {e}
  <2>1. ToSet(s) \cup {e} \subseteq ToSet(r)
    BY <1>1 DEF ToSet
  <2>2. ASSUME NEW i \in DOMAIN r PROVE r[i] \in ToSet(s) \cup {e}
    BY <1>1 DEF ToSet
  <2> QED BY <2>1, <2>2 DEF ToSet
<1>3. IsInjective(r)
  BY <1>1 DEF IsInjective, ToSet
<1> QED BY <1>1, <1>2, <1>3

LEMMA TailToSet ==
  ASSUME NEW S, NEW s \in Seq(S), s # <<>>, IsInjective(s)
  PROVE  /\ Tail(s) \in Seq(S)
         /\ Head(s) \in ToSet(s)
         /\ ToSet(Tail(s)) = ToSet(s) \ {Head(s)}
         /\ IsInjective(Tail(s))
<1>1. /\ Tail(s) \in Seq(S)
      /\ Len(s) \in Nat \ {0}
      /\ DOMAIN s = 1 .. Len(s)
      /\ DOMAIN Tail(s) = 1 .. Len(s) - 1
      /\ Head(s) = s[1]
      /\ \A i \in 1 .. Len(s) - 1 : Tail(s)[i] = s[i + 1]
  OBVIOUS
<1>2. \A i \in 2 .. Len(s) : /\ s[i] = Tail(s)[i - 1]
                             /\ i - 1 \in DOMAIN Tail(s)
                             /\ s[i] # s[1]
  BY <1>1 DEF IsInjective
<1>3. Head(s) \in ToSet(s)
  BY <1>1 DEF ToSet
<1>4. ToSet(Tail(s)) = ToSet(s) \ {Head(s)}
  <2>1. ASSUME NEW i \in DOMAIN Tail(s)
        PROVE  Tail(s)[i] \in ToSet(s) \ {Head(s)}
    <3>1. i + 1 \in 2 .. Len(s) /\ Tail(s)[i] = s[i + 1]
      BY <1>1
    <3> QED BY <1>1, <1>2, <3>1 DEF ToSet
  <2>2. ASSUME NEW i \in DOMAIN s, s[i] # Head(s)
        PROVE  s[i] \in ToSet(Tail(s))
    <3>1. i \in 2 .. Len(s)
      BY <1>1, <2>2
    <3> QED BY <1>2, <3>1 DEF ToSet
  <2> QED BY <2>1, <2>2 DEF ToSet
<1>5. IsInjective(Tail(s))
  BY <1>1 DEF IsInjective
<1> QED BY <1>1, <1>3, <1>4, <1>5

-----------------------------------------------------------------------------
(* How the actions change the two sets the counters count *)

LEMMA ThreadSetsFinite ==
  /\ IsFiniteSet(Alive) /\ Cardinality(Alive) \in Nat
  /\ IsFiniteSet(Holding) /\ Cardinality(Holding) \in Nat
<1>1. Alive \in SUBSET Threads /\ Holding \in SUBSET Threads
  BY DEF Alive, Holding
<1> QED BY <1>1, ThreadsAssumption, FS_Subset, FS_CardinalityType

LEMMA HoldingIsAlive == Holding \subseteq Alive
BY DEF Holding, Alive

\* a broadcast changes neither set
LEMMA WakeKeepsSets ==
  ASSUME TypeOK, pc' = WakeWorkers(pc)
  PROVE  /\ Alive' = Alive
         /\ Holding' = Holding
         /\ \A t \in Holding : pc'[t] = pc[t]
         /\ \A t \in Threads : pc'[t] # "asleep"
         /\ pc' \in [Threads -> WorkerPC]
BY DEF TypeOK, Alive, Holding, WakeWorkers, WorkerPC

LEMMA WakeCallerProperties ==
  ASSUME TypeOK
  PROVE  /\ WakeCaller \in CallerPC
         /\ WakeCaller \notin {"drain_asleep", "join_asleep"}
         /\ WakeCaller = "freed" <=> caller = "freed"
         /\ WakeCaller \in {"join", "join_asleep", "freed"}
              <=> caller \in {"join", "join_asleep", "freed"}
         /\ WakeCaller = caller \/ caller \in {"drain_asleep", "join_asleep"}
BY DEF TypeOK, CallerPC, WakeCaller

-----------------------------------------------------------------------------
LEMMA InitIInv == Init => IInv
<1> SUFFICES ASSUME Init PROVE IInv
  OBVIOUS
<1>1. PICK started \in SUBSET Threads :
        /\ Cardinality(started) = Nprocs
        /\ pc = [t \in Threads |-> IF t \in started THEN "ready" ELSE "none"]
  BY DEF Init
<1>2. Alive = started /\ Holding = {}
  BY <1>1 DEF Alive, Holding
<1>3. TypeOK
  <2>1. pc \in [Threads -> WorkerPC]
    BY <1>1 DEF WorkerPC
  <2>2. queue \in Seq(Works) /\ job \in [Threads -> Works \cup {NoWork}]
    BY EmptySeq DEF Init
  <2>3. /\ working_cnt \in Int /\ thread_cnt \in Int /\ kill_cnt \in Nat
        /\ resizes \in Nat
    BY SizeAssumption DEF Init
  <2>4. stop \in BOOLEAN /\ caller \in CallerPC
    BY DEF Init, CallerPC
  <2>5. done \subseteq Works /\ dropped \subseteq Works
    BY DEF Init
  <2> QED BY <2>1, <2>2, <2>3, <2>4, <2>5 DEF TypeOK
<1>4. CountersExact
  BY <1>1, <1>2, FS_EmptySet, SizeAssumption DEF Init, CountersExact
<1>5. ExecutedOnce
  BY <1>2, EmptyToSet DEF Init, ExecutedOnce
<1>6. /\ NoWorkerMissesWakeup /\ CallerNotForgotten /\ FreedIsQuiescent
      /\ StopPhase /\ JobsHeld
  BY <1>1, <1>2 DEF Init, NoWorkerMissesWakeup, CallerNotForgotten,
                    FreedIsQuiescent, StopPhase, JobsHeld
<1> QED BY <1>3, <1>4, <1>5, <1>6 DEF IInv

\* Sleep and SpuriousWakeup only move a thread between "ready" and "asleep"
LEMMA SleepPreserves ==
  ASSUME IInv, NEW t \in Threads, Sleep(t) \/ SpuriousWakeup(t)
  PROVE  IInv'
<1> USE DEF IInv
<1>1. /\ pc' \in [Threads -> WorkerPC]
      /\ Alive' = Alive
      /\ Holding' = Holding
      /\ \A u \in Holding : pc'[u] = pc[u]
  BY DEF Sleep, SpuriousWakeup, TypeOK, WorkerPC, Alive, Holding
<1>2. /\ UNCHANGED <<queue, job, working_cnt, thread_cnt, kill_cnt, stop, caller,
                     done, dropped, resizes>>
      /\ Seen' = Seen
  BY <1>1 DEF Sleep, SpuriousWakeup, Seen
<1>3. TypeOK'
  BY <1>1, <1>2 DEF TypeOK
<1>4. CountersExact' /\ CallerNotForgotten' /\ FreedIsQuiescent' /\ StopPhase'
  BY <1>1, <1>2 DEF CountersExact, CallerNotForgotten, FreedIsQuiescent, StopPhase
<1>5. ExecutedOnce' /\ JobsHeld'
  BY <1>1, <1>2 DEF ExecutedOnce, JobsHeld
<1>6. NoWorkerMissesWakeup'
  BY DEF Sleep, SpuriousWakeup, NoWorkerMissesWakeup, TypeOK
<1> QED BY <1>3, <1>4, <1>5, <1>6

LEMMA TakePreserves ==
  ASSUME IInv, NEW t \in Threads, Take(t)
  PROVE  IInv'
<1> USE DEF IInv
<1>1. /\ t \notin Holding
      /\ Holding' = Holding \cup {t}
      /\ Alive' = Alive
      /\ \A u \in Holding : pc'[u] = pc[u] /\ job'[u] = job[u]
      /\ pc' \in [Threads -> WorkerPC]
      /\ pc'[t] = "busy" /\ job'[t] = Head(queue)
  BY DEF Take, TypeOK, WorkerPC, Holding, Alive
<1>2. /\ queue' \in Seq(Works)
      /\ Head(queue) \in ToSet(queue)
      /\ ToSet(queue') = ToSet(queue) \ {Head(queue)}
      /\ IsInjective(queue')
  BY TailToSet DEF Take, TypeOK, ExecutedOnce
<1>3. ToSet(queue) \subseteq Works
  BY ToSetElements DEF TypeOK
<1>4. /\ UNCHANGED <<thread_cnt, kill_cnt, stop, caller, done, dropped, resizes>>
      /\ ~stop /\ queue # <<>> /\ kill_cnt = 0
      /\ working_cnt' = working_cnt + 1
  BY DEF Take
<1>5. TypeOK'
  BY <1>1, <1>2, <1>3, <1>4 DEF TypeOK, Take
<1>6. CountersExact'
  BY <1>1, <1>4, FS_AddElement, ThreadSetsFinite DEF CountersExact
<1>7. ExecutedOnce'
  <2>1. \A u \in Holding' :
          /\ job'[u] \notin ToSet(queue') \cup dropped'
          /\ job'[u] \in done' <=> pc'[u] = "ran"
    BY <1>1, <1>2, <1>4 DEF ExecutedOnce
  <2>2. \A u, v \in Holding' : job'[u] = job'[v] => u = v
    BY <1>1, <1>2 DEF ExecutedOnce
  <2> QED BY <1>2, <1>4, <2>1, <2>2 DEF ExecutedOnce
<1>8. NoWorkerMissesWakeup' /\ JobsHeld'
  BY <1>1, <1>2, <1>3, <1>4 DEF NoWorkerMissesWakeup, JobsHeld, Take, TypeOK
<1>9. CallerNotForgotten' /\ FreedIsQuiescent' /\ StopPhase'
  BY <1>1, <1>4 DEF CallerNotForgotten, FreedIsQuiescent, StopPhase
<1> QED BY <1>5, <1>6, <1>7, <1>8, <1>9

LEMMA RunPreserves ==
  ASSUME IInv, NEW t \in Threads, Run(t)
  PROVE  IInv'
<1> USE DEF IInv
<1>1. /\ t \in Holding
      /\ Holding' = Holding
      /\ Alive' = Alive
      /\ pc' \in [Threads -> WorkerPC]
      /\ pc[t] = "busy" /\ pc'[t] = "ran"
      /\ \A u \in Threads \ {t} : pc'[u] = pc[u]
  BY DEF Run, TypeOK, WorkerPC, Holding, Alive
<1>2. /\ UNCHANGED <<queue, job, working_cnt, thread_cnt, kill_cnt, stop, caller,
                     dropped, resizes>>
      /\ done' = done \cup {job[t]}
  BY DEF Run
<1>3. job[t] \notin ToSet(queue) \cup dropped
  BY <1>1 DEF ExecutedOnce
<1>4. TypeOK'
  BY <1>1, <1>2 DEF TypeOK, JobsHeld
<1>5. CountersExact' /\ JobsHeld'
  BY <1>1, <1>2 DEF CountersExact, JobsHeld
<1>6. ExecutedOnce'
  <2>1. \A u \in Holding :
          /\ job[u] \notin ToSet(queue) \cup dropped
          /\ job[u] \in done' <=> pc'[u] = "ran"
    <3>1. ASSUME NEW u \in Holding, u # t
          PROVE  job[u] # job[t] /\ pc'[u] = pc[u]
      BY <1>1, <3>1 DEF ExecutedOnce, Holding
    <3> QED BY <1>1, <1>2, <1>3, <3>1 DEF ExecutedOnce
  <2> QED BY <1>1, <1>2, <1>3, <2>1 DEF ExecutedOnce
<1>7. NoWorkerMissesWakeup'
  BY <1>1, <1>2 DEF NoWorkerMissesWakeup
<1>8. CallerNotForgotten' /\ StopPhase'
  BY <1>1, <1>2 DEF CallerNotForgotten, StopPhase
<1>9. FreedIsQuiescent'
  BY <1>1, <1>2, HoldingIsAlive DEF FreedIsQuiescent
<1> QED BY <1>4, <1>5, <1>6, <1>7, <1>8, <1>9

LEMMA FinishPreserves ==
  ASSUME IInv, NEW t \in Threads, Finish(t)
  PROVE  IInv'
<1> USE DEF IInv
<1>1. /\ t \in Holding
      /\ Holding' = Holding \ {t}
      /\ Alive' = Alive
      /\ pc' \in [Threads -> WorkerPC]
      /\ pc[t] = "ran" /\ pc'[t] = "ready"
      /\ \A u \in Threads \ {t} : pc'[u] = pc[u] /\ job'[u] = job[u]
  BY DEF Finish, TypeOK, WorkerPC, Holding, Alive
<1>2. /\ UNCHANGED <<queue, thread_cnt, kill_cnt, stop, done, dropped, resizes>>
      /\ working_cnt' = working_cnt - 1
      /\ caller' = caller \/ caller' = WakeCaller
  BY DEF Finish
<1>3. TypeOK'
  BY <1>1, <1>2, WakeCallerProperties DEF TypeOK, Finish
<1>4. CountersExact'
  BY <1>1, <1>2, ThreadSetsFinite, FS_RemoveElement DEF CountersExact
<1>5. ExecutedOnce' /\ JobsHeld'
  <2>1. \A u \in Holding' : u \in Holding /\ pc'[u] = pc[u] /\ job'[u] = job[u]
    BY <1>1 DEF Holding
  <2> QED BY <1>2, <2>1 DEF ExecutedOnce, JobsHeld
<1>6. NoWorkerMissesWakeup'
  BY <1>1, <1>2 DEF NoWorkerMissesWakeup
<1>7. CallerNotForgotten'
  <2>1. CASE caller' = "drain_asleep"
    <3>1. caller = "drain_asleep" /\ ~stop
      BY <1>2, <2>1, WakeCallerProperties DEF StopPhase
    <3>2. queue # <<>> \/ working_cnt # 1
      BY <2>1, <3>1 DEF Finish, WakeCaller
    <3>3. Cardinality(Holding') = Cardinality(Holding) - 1
      BY <1>1, ThreadSetsFinite, FS_RemoveElement
    <3>4. ASSUME Holding' = {} PROVE queue # <<>>
      <4>1. Cardinality(Holding') = 0
        BY <3>4, FS_EmptySet
      <4> QED BY <3>2, <3>3, <4>1, ThreadSetsFinite DEF CountersExact
    <3> QED BY <1>2, <2>1, <3>4 DEF CallerNotForgotten
  <2>2. CASE caller' = "join_asleep"
    <3>1. caller = "join_asleep"
      BY <1>2, <2>2, WakeCallerProperties
    <3> QED BY <1>1, <2>2, <3>1 DEF CallerNotForgotten
  <2> QED BY <2>1, <2>2 DEF CallerNotForgotten
<1>8. FreedIsQuiescent' /\ StopPhase'
  BY <1>1, <1>2, WakeCallerProperties, HoldingIsAlive DEF FreedIsQuiescent, StopPhase
<1> QED BY <1>3, <1>4, <1>5, <1>6, <1>7, <1>8

LEMMA ExitPreserves ==
  ASSUME IInv, NEW t \in Threads, Exit(t)
  PROVE  IInv'
<1> USE DEF IInv
<1>1. /\ t \in Alive
      /\ Alive' = Alive \ {t}
      /\ Holding' = Holding
      /\ pc' \in [Threads -> WorkerPC]
      /\ pc'[t] = "none"
      /\ \A u \in Threads \ {t} : pc'[u] = pc[u]
      /\ \A u \in Holding : pc'[u] = pc[u]
  BY DEF Exit, TypeOK, WorkerPC, Holding, Alive
<1>2. /\ UNCHANGED <<queue, job, working_cnt, stop, done, dropped, resizes>>
      /\ thread_cnt' = thread_cnt - 1
      /\ kill_cnt' = IF stop THEN kill_cnt ELSE kill_cnt - 1
      /\ stop \/ kill_cnt > 0
      /\ caller' = WakeCaller
  BY DEF Exit
<1>3. TypeOK'
  BY <1>1, <1>2, WakeCallerProperties DEF TypeOK
<1>4. CountersExact'
  <2>1. Cardinality(Alive') = Cardinality(Alive) - 1
    BY <1>1, ThreadSetsFinite, FS_RemoveElement
  <2> QED BY <1>1, <1>2, <2>1, ThreadSetsFinite DEF CountersExact, TypeOK
<1>5. ExecutedOnce' /\ JobsHeld'
  BY <1>1, <1>2 DEF ExecutedOnce, JobsHeld
<1>6. NoWorkerMissesWakeup'
  BY <1>1, <1>2 DEF NoWorkerMissesWakeup, TypeOK
<1>7. CallerNotForgotten' /\ StopPhase'
  BY <1>2, WakeCallerProperties DEF CallerNotForgotten, StopPhase
<1>8. FreedIsQuiescent'
  BY <1>1, <1>2, WakeCallerProperties DEF FreedIsQuiescent
<1> QED BY <1>3, <1>4, <1>5, <1>6, <1>7, <1>8

LEMMA AddWorkPreserves ==
  ASSUME IInv, NEW w \in Works, NEW priority \in BOOLEAN, AddWork(w, priority)
  PROVE  IInv'
<1> USE DEF IInv
<1>1. /\ UNCHANGED <<job, working_cnt, thread_cnt, kill_cnt, stop, caller, done,
                     dropped, resizes>>
      /\ caller = "loop" /\ ~stop
      /\ w \notin ToSet(queue) \cup done \cup dropped
      /\ \A u \in Holding : job[u] # w
  BY DEF AddWork, StopPhase, Seen
<1>2. /\ queue' \in Seq(Works)
      /\ ToSet(queue') = ToSet(queue) \cup {w}
      /\ IsInjective(queue')
  BY <1>1, PrependToSet, AppendToSet DEF AddWork, TypeOK, ExecutedOnce
<1>3. /\ Alive' = Alive
      /\ Holding' = Holding
      /\ \A u \in Holding : pc'[u] = pc[u]
      /\ \A u \in Threads : pc'[u] # "asleep"
      /\ pc' \in [Threads -> WorkerPC]
  BY WakeKeepsSets DEF AddWork
<1>4. TypeOK'
  BY <1>1, <1>2, <1>3 DEF TypeOK
<1>5. CountersExact' /\ NoWorkerMissesWakeup' /\ JobsHeld'
  BY <1>1, <1>3 DEF CountersExact, NoWorkerMissesWakeup, JobsHeld
<1>6. ExecutedOnce'
  BY <1>1, <1>2, <1>3 DEF ExecutedOnce
<1>7. CallerNotForgotten' /\ FreedIsQuiescent' /\ StopPhase'
  BY <1>1 DEF CallerNotForgotten, FreedIsQuiescent, StopPhase
<1> QED BY <1>4, <1>5, <1>6, <1>7

LEMMA GrowPreserves ==
  ASSUME IInv, NEW num \in 2 .. MaxThreads, Grow(num)
  PROVE  IInv'
<1> USE DEF IInv
<1>1. /\ UNCHANGED <<queue, job, working_cnt, stop, caller, done, dropped>>
      /\ caller = "loop" /\ ~stop
      /\ thread_cnt' = num /\ kill_cnt' = 0 /\ resizes' = resizes + 1
  BY DEF Grow, StopPhase
<1>2. PICK new \in SUBSET (Threads \ Alive) :
        /\ Cardinality(new) = num - thread_cnt
        /\ pc' = WakeWorkers([u \in Threads |->
                               IF u \in new THEN "ready" ELSE pc[u]])
  BY DEF Grow
<1>3. /\ Alive' = Alive \cup new
      /\ Holding' = Holding
      /\ \A u \in Holding : pc'[u] = pc[u]
      /\ \A u \in Threads : pc'[u] # "asleep"
      /\ pc' \in [Threads -> WorkerPC]
  BY <1>2 DEF TypeOK, Alive, Holding, WakeWorkers, WorkerPC
<1>4. Cardinality(Alive') = num
  <2>1. IsFiniteSet(new) /\ Cardinality(new \cap Alive) = 0
    <3>1. new \in SUBSET Threads /\ new \cap Alive = {}
      BY <1>2
    <3> QED BY <3>1, FS_Subset, FS_EmptySet, ThreadsAssumption
  <2>2. Cardinality(new \cup Alive) = Cardinality(new) + Cardinality(Alive) - 0
    BY <2>1, ThreadSetsFinite, FS_Union
  <2>3. Alive' = new \cup Alive /\ Cardinality(Alive) = thread_cnt
    BY <1>3 DEF CountersExact
  <2> QED BY <1>2, <2>2, <2>3 DEF TypeOK
<1>5. TypeOK'
  BY <1>1, <1>3, SizeAssumption DEF TypeOK
<1>6. CountersExact' /\ NoWorkerMissesWakeup' /\ JobsHeld'
  BY <1>1, <1>3, <1>4 DEF CountersExact, NoWorkerMissesWakeup, JobsHeld
<1>7. ExecutedOnce'
  BY <1>1, <1>3 DEF ExecutedOnce
<1>8. CallerNotForgotten' /\ FreedIsQuiescent' /\ StopPhase'
  BY <1>1 DEF CallerNotForgotten, FreedIsQuiescent, StopPhase
<1> QED BY <1>5, <1>6, <1>7, <1>8

LEMMA ShrinkPreserves ==
  ASSUME IInv, NEW num \in 2 .. MaxThreads, Shrink(num)
  PROVE  IInv'
<1> USE DEF IInv
<1>1. /\ UNCHANGED <<queue, job, working_cnt, thread_cnt, stop, caller, done,
                     dropped>>
      /\ caller = "loop" /\ ~stop
      /\ num < thread_cnt
      /\ kill_cnt' = thread_cnt - num /\ resizes' = resizes + 1
  BY DEF Shrink, StopPhase
<1>2. /\ Alive' = Alive
      /\ Holding' = Holding
      /\ \A u \in Holding : pc'[u] = pc[u]
      /\ \A u \in Threads : pc'[u] # "asleep"
      /\ pc' \in [Threads -> WorkerPC]
  BY WakeKeepsSets DEF Shrink
<1>3. TypeOK'
  BY <1>1, <1>2, SizeAssumption DEF TypeOK
<1>4. CountersExact' /\ NoWorkerMissesWakeup' /\ JobsHeld'
  BY <1>1, <1>2 DEF CountersExact, NoWorkerMissesWakeup, JobsHeld, TypeOK
<1>5. ExecutedOnce'
  BY <1>1, <1>2 DEF ExecutedOnce
<1>6. CallerNotForgotten' /\ FreedIsQuiescent' /\ StopPhase'
  BY <1>1 DEF CallerNotForgotten, FreedIsQuiescent, StopPhase
<1> QED BY <1>3, <1>4, <1>5, <1>6

\* Drain, WaitSleeps, WaitReturns, CallerSpuriousWakeup move only the caller
LEMMA CallerPreserves ==
  ASSUME IInv,
         Drain \/ WaitSleeps \/ WaitReturns \/ CallerSpuriousWakeup
  PROVE  IInv'
<1> USE DEF IInv
<1>1. UNCHANGED <<queue, pc, job, working_cnt, thread_cnt, kill_cnt, stop, done,
                  dropped, resizes>>
  BY DEF Drain, WaitSleeps, WaitReturns, CallerSpuriousWakeup
<1>2. Alive' = Alive /\ Holding' = Holding /\ Seen' = Seen
  BY <1>1 DEF Alive, Holding, Seen
<1>3. TypeOK'
  BY <1>1 DEF TypeOK, CallerPC, Drain, WaitSleeps, WaitReturns,
              CallerSpuriousWakeup, WakeCaller
<1>4. CountersExact' /\ ExecutedOnce' /\ NoWorkerMissesWakeup' /\ JobsHeld'
  BY <1>1, <1>2 DEF CountersExact, ExecutedOnce, NoWorkerMissesWakeup, JobsHeld
<1>5. StopPhase'
  BY <1>1 DEF StopPhase, Drain, WaitSleeps, WaitReturns,
              CallerSpuriousWakeup, WakeCaller
<1>6. CallerNotForgotten'
  <2>1. CASE WaitSleeps
    <3>1. caller = "drain" => Holding # {}
      BY <2>1, FS_EmptySet DEF WaitSleeps, MustWait, CountersExact, StopPhase
    <3>2. caller = "join" => Alive # {}
      BY <2>1, FS_EmptySet DEF WaitSleeps, MustWait, CountersExact, StopPhase
    <3> QED BY <1>1, <1>2, <2>1, <3>1, <3>2 DEF CallerNotForgotten, WaitSleeps
  <2>2. CASE Drain \/ WaitReturns \/ CallerSpuriousWakeup
    BY <2>2 DEF CallerNotForgotten, Drain, WaitReturns, CallerSpuriousWakeup,
                WakeCaller
  <2> QED BY <2>1, <2>2
<1>7. FreedIsQuiescent'
  <2>1. CASE WaitReturns /\ caller = "join"
    <3>1. stop /\ queue = <<>> /\ Cardinality(Alive) = 0
      BY <2>1 DEF WaitReturns, MustWait, CountersExact, StopPhase
    <3>2. Alive = {} /\ Holding = {}
      BY <3>1, ThreadSetsFinite, FS_EmptySet, HoldingIsAlive
    <3> QED BY <1>1, <1>2, <3>1, <3>2, EmptyToSet DEF FreedIsQuiescent, Seen
  <2>2. CASE ~(WaitReturns /\ caller = "join")
    BY <1>1, <2>2 DEF FreedIsQuiescent, Drain, WaitSleeps, WaitReturns,
                      CallerSpuriousWakeup, WakeCaller
  <2> QED BY <2>1, <2>2
<1> QED BY <1>3, <1>4, <1>5, <1>6, <1>7

LEMMA DestroyPreserves ==
  ASSUME IInv, Destroy
  PROVE  IInv'
<1> USE DEF IInv
<1>1. /\ UNCHANGED <<job, working_cnt, thread_cnt, kill_cnt, done, resizes>>
      /\ dropped' = dropped \cup ToSet(queue)
      /\ queue' = <<>>
      /\ stop'
      /\ caller' = "join"
  BY DEF Destroy
<1>2. /\ Alive' = Alive
      /\ Holding' = Holding
      /\ \A u \in Holding : pc'[u] = pc[u]
      /\ \A u \in Threads : pc'[u] # "asleep"
      /\ pc' \in [Threads -> WorkerPC]
  BY WakeKeepsSets DEF Destroy
<1>3. TypeOK'
  BY <1>1, <1>2, ToSetElements DEF TypeOK, CallerPC, Destroy
<1>4. CountersExact' /\ NoWorkerMissesWakeup' /\ JobsHeld'
  BY <1>1, <1>2 DEF CountersExact, NoWorkerMissesWakeup, JobsHeld
<1>5. ExecutedOnce'
  BY <1>1, <1>2, EmptyToSet DEF ExecutedOnce
<1>6. CallerNotForgotten' /\ FreedIsQuiescent' /\ StopPhase'
  BY <1>1 DEF CallerNotForgotten, FreedIsQuiescent, StopPhase
<1> QED BY <1>3, <1>4, <1>5, <1>6

-----------------------------------------------------------------------------
LEMMA NextPreserves == IInv /\ [Next]_vars => IInv'
<1> SUFFICES ASSUME IInv, [Next]_vars PROVE IInv'
  OBVIOUS
<1>1. ASSUME NEW t \in Threads, Worker(t) \/ SpuriousWakeup(t) PROVE IInv'
  BY <1>1, SleepPreserves, TakePreserves, RunPreserves, FinishPreserves,
     ExitPreserves DEF Worker
<1>2. ASSUME NEW w \in Works, NEW priority \in BOOLEAN, AddWork(w, priority)
      PROVE IInv'
  BY <1>2, AddWorkPreserves
<1>3. ASSUME NEW num \in 2 .. MaxThreads, Grow(num) \/ Shrink(num) PROVE IInv'
  BY <1>3, GrowPreserves, ShrinkPreserves
<1>4. CASE Drain \/ Teardown \/ CallerSpuriousWakeup
  BY <1>4, CallerPreserves, DestroyPreserves DEF Teardown
<1>5. CASE UNCHANGED vars
  BY <1>5 DEF vars, IInv, TypeOK, CountersExact, ExecutedOnce, JobsHeld,
              NoWorkerMissesWakeup, CallerNotForgotten, FreedIsQuiescent,
              StopPhase, Alive, Holding, Seen
<1> QED BY <1>1, <1>2, <1>3, <1>4, <1>5 DEF Next, Terminated

\* The strengthened invariant holds in every reachable state.
THEOREM Invariance == Spec => []IInv
BY InitIInv, NextPreserves, PTL DEF Spec

\* The variables keep their types for any number of threads and works.
THEOREM TypeCorrect == Spec => []TypeOK
<1>1. IInv => TypeOK
  BY DEF IInv
<1> QED BY <1>1, Invariance, PTL

\* The counters tpool_wait and tpool_resize rely on are exact (tpool.c:117-134).
THEOREM CountersAreExact == Spec => []CountersExact
<1>1. IInv => CountersExact
  BY DEF IInv
<1> QED BY <1>1, Invariance, PTL

\* No work item is ever duplicated, lost or executed twice.
THEOREM WorkExecutedOnce == Spec => []ExecutedOnce
<1>1. IInv => ExecutedOnce
  BY DEF IInv
<1> QED BY <1>1, Invariance, PTL

\* Neither condition variable loses a wakeup.
THEOREM NoLostWakeup == Spec => [](NoWorkerMissesWakeup /\ CallerNotForgotten)
<1>1. IInv => NoWorkerMissesWakeup /\ CallerNotForgotten
  BY DEF IInv
<1> QED BY <1>1, Invariance, PTL

\* tpool_destroy frees the pool only when no thread can use it any more.
THEOREM FreeIsSafe == Spec => []FreedIsQuiescent
<1>1. IInv => FreedIsQuiescent
  BY DEF IInv
<1> QED BY <1>1, Invariance, PTL

\* Whatever the number of threads, works and resizes, nothing of the pool is lost track
\* of.
THEOREM NothingIsLost == Spec => []PoolConsistent
<1>1. IInv => PoolConsistent
  BY DEF IInv, PoolConsistent
<1> QED BY <1>1, Invariance, PTL

-----------------------------------------------------------------------------
(* Refinement: Take, Run, AddWork and Destroy are the steps of WorkPool, all  *)
(* others stutter.                                                           *)

Executing == {job[t] : t \in {u \in Threads : pc[u] = "busy"}}

PoolVars == <<ToSet(queue), Executing, done, dropped>>

LEMMA TakeRefines ==
  ASSUME IInv, NEW t \in Threads, Take(t)
  PROVE  \E w \in Works : Pool!Start(w)
<1>1. /\ Head(queue) \in ToSet(queue)
      /\ ToSet(queue') = ToSet(queue) \ {Head(queue)}
  BY TailToSet DEF Take, IInv, TypeOK, ExecutedOnce
<1>2. Executing' = Executing \cup {Head(queue)}
  BY DEF Take, IInv, TypeOK, WorkerPC, Executing
<1>3. Head(queue) \in Works
  BY <1>1, ToSetElements DEF IInv, TypeOK
<1>4. PICK w : w = Head(queue)
  OBVIOUS
<1>5. Pool!Start(w)
  BY <1>1, <1>2, <1>4 DEF Take, Pool!Start, Executing
<1> QED BY <1>3, <1>4, <1>5

LEMMA RunRefines ==
  ASSUME IInv, NEW t \in Threads, Run(t)
  PROVE  \E w \in Works : Pool!Complete(w)
<1>1. /\ t \in Holding
      /\ \A u \in Threads \ {t} : pc'[u] = pc[u]
      /\ pc[t] = "busy" /\ pc'[t] = "ran"
      /\ UNCHANGED <<queue, job, dropped>>
      /\ done' = done \cup {job[t]}
  BY DEF Run, IInv, TypeOK, WorkerPC, Holding
<1>2. \A u \in Threads \ {t} : pc[u] = "busy" => job[u] # job[t]
  BY <1>1 DEF IInv, ExecutedOnce, Holding
<1>3. Executing' = Executing \ {job[t]} /\ job[t] \in Executing
  BY <1>1, <1>2 DEF Executing
<1>4. PICK w \in Works : w = job[t]
  BY <1>1 DEF IInv, JobsHeld
<1>5. Pool!Complete(w)
  BY <1>1, <1>3, <1>4 DEF Pool!Complete, Executing
<1> QED BY <1>5

LEMMA AddWorkRefines ==
  ASSUME IInv, NEW w \in Works, NEW priority \in BOOLEAN, AddWork(w, priority)
  PROVE  Pool!Submit(w)
<1>1. w \notin ToSet(queue)
  BY DEF AddWork, Seen
<1>2. ToSet(queue') = ToSet(queue) \cup {w}
  BY <1>1, PrependToSet, AppendToSet DEF AddWork, IInv, TypeOK, ExecutedOnce
<1>3. Executing' = Executing
  BY DEF AddWork, WakeWorkers, Executing, IInv, TypeOK, WorkerPC
<1>4. w \notin Executing \cup done \cup dropped
  BY DEF AddWork, Seen, Executing, Holding
<1> QED BY <1>1, <1>2, <1>3, <1>4 DEF AddWork, Pool!Submit, Executing

LEMMA DestroyRefines ==
  ASSUME IInv, Destroy
  PROVE  Pool!Teardown
<1>1. Executing' = Executing
  BY DEF Destroy, WakeWorkers, Executing, IInv, TypeOK, WorkerPC
<1> QED BY <1>1, EmptyToSet DEF Destroy, Pool!Teardown, Executing

LEMMA OtherWorkerStepsStutter ==
  ASSUME IInv, NEW t \in Threads,
         Sleep(t) \/ SpuriousWakeup(t) \/ Finish(t) \/ Exit(t)
  PROVE  UNCHANGED PoolVars
<1>1. Executing' = Executing
  <2>1. {u \in Threads : pc'[u] = "busy"} = {u \in Threads : pc[u] = "busy"}
    BY DEF Sleep, SpuriousWakeup, Finish, Exit, IInv, TypeOK, WorkerPC
  <2>2. \A u \in Threads : pc[u] = "busy" => job'[u] = job[u]
    BY DEF Sleep, SpuriousWakeup, Finish, Exit, IInv, TypeOK
  <2> QED BY <2>1, <2>2 DEF Executing
<1> QED BY <1>1 DEF Sleep, SpuriousWakeup, Finish, Exit, PoolVars

LEMMA ResizesStutter ==
  ASSUME IInv, NEW num \in 2 .. MaxThreads, Grow(num) \/ Shrink(num)
  PROVE  UNCHANGED PoolVars
<1>1. {u \in Threads : pc'[u] = "busy"} = {u \in Threads : pc[u] = "busy"}
  <2>1. CASE Grow(num)
    BY <2>1 DEF Grow, WakeWorkers, Alive, IInv, TypeOK, WorkerPC
  <2>2. CASE Shrink(num)
    BY <2>2 DEF Shrink, WakeWorkers, IInv, TypeOK, WorkerPC
  <2> QED BY <2>1, <2>2
<1>2. Executing' = Executing
  BY <1>1 DEF Grow, Shrink, Executing
<1> QED BY <1>2 DEF Grow, Shrink, PoolVars

LEMMA CallerStutters ==
  ASSUME Drain \/ WaitSleeps \/ WaitReturns \/ CallerSpuriousWakeup
  PROVE  UNCHANGED PoolVars
BY DEF Drain, WaitSleeps, WaitReturns, CallerSpuriousWakeup, PoolVars, Executing

LEMMA StepRefines == IInv /\ [Next]_vars => [Pool!Next]_PoolVars
<1> SUFFICES ASSUME IInv, [Next]_vars PROVE Pool!Next \/ UNCHANGED PoolVars
  OBVIOUS
<1>1. ASSUME NEW t \in Threads, Worker(t) \/ SpuriousWakeup(t)
      PROVE  Pool!Next \/ UNCHANGED PoolVars
  <2>1. CASE Take(t)
    BY <2>1, TakeRefines DEF Pool!Next
  <2>2. CASE Run(t)
    BY <2>2, RunRefines DEF Pool!Next
  <2>3. CASE Sleep(t) \/ SpuriousWakeup(t) \/ Finish(t) \/ Exit(t)
    BY <2>3, OtherWorkerStepsStutter
  <2> QED BY <1>1, <2>1, <2>2, <2>3 DEF Worker
<1>2. ASSUME NEW w \in Works, NEW priority \in BOOLEAN, AddWork(w, priority)
      PROVE  Pool!Next
  BY <1>2, AddWorkRefines DEF Pool!Next
<1>3. ASSUME NEW num \in 2 .. MaxThreads, Grow(num) \/ Shrink(num)
      PROVE  UNCHANGED PoolVars
  BY <1>3, ResizesStutter
<1>4. CASE Drain \/ Teardown \/ CallerSpuriousWakeup
  BY <1>4, CallerStutters, DestroyRefines DEF Teardown, Pool!Next
<1>5. CASE UNCHANGED vars
  BY <1>5 DEF vars, PoolVars, Executing
<1> QED BY <1>1, <1>2, <1>3, <1>4, <1>5 DEF Next, Terminated

\* The pool implements WorkPool, whatever the number of threads and resizes.
THEOREM RefinesWorkPool == Spec => PoolSpec
<1>1. Init => Pool!Init
  <2>1. SUFFICES ASSUME Init PROVE Pool!Init
    OBVIOUS
  <2>2. {u \in Threads : pc[u] = "busy"} = {}
    BY <2>1 DEF Init
  <2> QED BY <2>1, <2>2, EmptyToSet DEF Init, Pool!Init
<1>2. IInv /\ [Next]_vars => [Pool!Next]_(Pool!vars)
  BY StepRefines DEF Pool!vars, PoolVars, Executing
<1> QED BY <1>1, <1>2, Invariance, PTL DEF Spec, PoolSpec, Pool!Spec
=============================================================================
