------------------------ MODULE ReloadThrottleProofs ------------------------
(***************************************************************************)
(* Proofs about ReloadThrottle, for every set of loadables and every value *)
(* of the options.                                                         *)
(***************************************************************************)
EXTENDS ReloadThrottle, TLAPS

\* The marks agree, whether or not libev will fire the timer.
Marks == /\ is_scheduled = timers
         /\ running \subseteq timers
         /\ is_scheduled \cap requested = {}

\* next_scheduled is no earlier than the last load where nothing is scheduled,
\* so that loader_reload counts the timeout from that load.
Counted == \A l \in Loadables : l \notin is_scheduled => next_scheduled[l] >= -age[l]

\* When a timer runs out or a waiting request falls due, the timeout is over.
Spaced == \A l \in Loadables :
            /\ gap[l] <= Far
            /\ l \in running => age[l] + left[l] >= gap[l]
            /\ l \in requested => \/ age[l] >= gap[l]
                                  \/ age[l] + next_requested[l] >= gap[l]

Inv == TypeOK /\ Marks /\ Counted /\ Spaced

LEMMA Numbers == /\ Far \in Nat /\ Slack \in Nat /\ StepBack \in Nat
                 /\ \A t \in Timeouts : t \in Nat /\ t > 0 /\ t <= Far
                 /\ \A d \in Delays : d \in Nat
<1>1. \A t \in Timeouts : t \in Nat /\ t > 0
  BY SetsAssumption
<1>2. MaxChanges * StepBack \in Nat
  BY NumbersAssumption
<1>3. \A t \in Timeouts : t <= Far
  BY <1>1, <1>2, NumbersAssumption
<1> QED
  BY <1>1, <1>3, SetsAssumption, NumbersAssumption

-----------------------------------------------------------------------------
(* Each action preserves the invariant *)

\* What load() leaves behind for one loadable, however it came to be called.
LEMMA AfterLoad ==
  ASSUME Inv, NEW l \in Loadables, NEW n \in [Loadables -> Nat], Load(l, n)
  PROVE  /\ underway' \in [Loadables -> Nat]
         /\ next_scheduled' \in [Loadables -> Int]
         /\ next_requested' \in [Loadables -> Int]
         /\ requested' = requested \ {l}
         /\ in_progress' \subseteq Loadables /\ wanted' \subseteq Loadables
         /\ age' \in [Loadables -> 0..Far]
         /\ next_scheduled'[l] = 0 /\ age'[l] = 0
         /\ \A m \in Loadables \ {l} : /\ next_scheduled'[m] = next_scheduled[m]
                                       /\ next_requested'[m] = next_requested[m]
                                       /\ age'[m] = age[m]
<1> USE Numbers DEF Load, Inv, TypeOK
<1>1. underway' \in [Loadables -> Nat]
  BY DEF StartLoad
<1>2. age' \in [Loadables -> 0..Far]
  OBVIOUS
<1> QED
  BY <1>1, <1>2

LEMMA StepTimerFires ==
  ASSUME Inv, NEW l \in Loadables, TimerFires(l)
  PROVE  Inv'
<1> USE Numbers DEF TimerFires
<1>0. underway \in [Loadables -> Nat]
  BY DEF Inv, TypeOK
<1>1. /\ underway' \in [Loadables -> Nat]
      /\ next_scheduled' \in [Loadables -> Int]
      /\ next_requested' \in [Loadables -> Int]
      /\ requested' = requested \ {l}
      /\ in_progress' \subseteq Loadables /\ wanted' \subseteq Loadables
      /\ age' \in [Loadables -> 0..Far]
      /\ next_scheduled'[l] = 0 /\ age'[l] = 0
      /\ \A m \in Loadables \ {l} : /\ next_scheduled'[m] = next_scheduled[m]
                                    /\ next_requested'[m] = next_requested[m]
                                    /\ age'[m] = age[m]
  BY <1>0, AfterLoad
<1>2. TypeOK'
  BY <1>1 DEF Inv, TypeOK, settings
<1>3. Marks'
  BY <1>1 DEF Inv, Marks
<1>4. Counted'
  BY <1>1 DEF Inv, Counted, TypeOK
<1>5. Spaced'
  BY <1>1 DEF Inv, Spaced, Marks, TypeOK
<1> QED
  BY <1>2, <1>3, <1>4, <1>5 DEF Inv

\* What schedule() does, for a time at which the timeout will be over.
LEMMA AfterSchedule ==
  ASSUME Inv, Slack = 0, NEW l \in Loadables, NEW t \in Nat, NEW g \in Nat,
         Schedule(l, t), age[l] + t >= g, g <= Far,
         l \in is_scheduled => g = gap[l],
         UNCHANGED age,
         gap' = [gap EXCEPT ![l] = g]
  PROVE  /\ next_scheduled' \in [Loadables -> Int]
         /\ next_requested' \in [Loadables -> Int]
         /\ requested' \subseteq requested
         /\ is_scheduled' \subseteq Loadables /\ timers' \subseteq Loadables
         /\ running' \subseteq Loadables /\ left' \in [Loadables -> Nat]
         /\ l \in is_scheduled'
         /\ Marks' /\ Counted' /\ Spaced'
<1> USE Numbers
<1>1. CASE l \in is_scheduled
  <2>1. gap' = gap
    BY <1>1 DEF Inv, TypeOK
  <2> QED
    BY <1>1, <2>1 DEF Schedule, Inv, TypeOK, Marks, Counted, Spaced
<1>2. CASE l \notin is_scheduled
  <2>1. /\ timers' = timers \cup {l}
        /\ is_scheduled' = is_scheduled \cup {l}
        /\ running' = IF t > 0 THEN running \cup {l} ELSE running
        /\ left' = [left EXCEPT ![l] = t]
        /\ next_scheduled' = [next_scheduled EXCEPT ![l] = t]
        /\ next_requested' = [next_requested EXCEPT ![l] = 0]
        /\ requested' = requested \ {l}
    BY <1>2 DEF Schedule
  <2>2. /\ next_scheduled' \in [Loadables -> Int]
        /\ next_requested' \in [Loadables -> Int]
        /\ left' \in [Loadables -> Nat]
    BY <2>1 DEF Inv, TypeOK
  <2>3. Marks'
    BY <2>1 DEF Inv, Marks
  <2>4. Counted'
    BY <2>1 DEF Inv, Counted, TypeOK
  <2>5. ASSUME NEW m \in Loadables
        PROVE  /\ gap'[m] <= Far
               /\ m \in running' => age'[m] + left'[m] >= gap'[m]
               /\ m \in requested' => \/ age'[m] >= gap'[m]
                                      \/ age'[m] + next_requested'[m] >= gap'[m]
    <3>1. CASE m = l
      BY <2>1, <3>1 DEF Inv, TypeOK
    <3>2. CASE m # l
      BY <2>1, <3>2 DEF Inv, TypeOK, Spaced
    <3> QED
      BY <3>1, <3>2
  <2> QED
    BY <2>1, <2>2, <2>3, <2>4, <2>5 DEF Inv, TypeOK, Spaced
<1> QED
  BY <1>1, <1>2

\* A reload granted now comes when the timeout is over.
LEMMA NextReloadLate ==
  ASSUME Inv, NEW l \in Loadables, l \notin is_scheduled
  PROVE  /\ NextReload(l) \in Nat
         /\ age[l] + NextReload(l) >= timeout
         /\ 0 \notin Delays => NextReload(l) > 0
<1>1. /\ next_scheduled[l] \in Int /\ age[l] \in Nat /\ timeout \in Nat
      /\ timeout > 0 /\ delay \in Nat /\ delay \in Delays
      /\ next_scheduled[l] >= -age[l]
  BY Numbers DEF Inv, TypeOK, Counted
<1>2. 0 \notin Delays => delay > 0
  BY <1>1
<1> QED
  BY <1>1, <1>2 DEF NextReload

LEMMA StepReload ==
  ASSUME Inv, Slack = 0, NEW l \in Loadables, Reload(l)
  PROVE  Inv'
<1> USE Numbers
<1>0. /\ wanted' \subseteq Loadables
      /\ UNCHANGED <<in_progress, underway, timeout, delay, lua_previewer,
                     changes, age>>
  BY DEF Reload, Inv, TypeOK, settings
<1>1. CASE /\ \/ l \in is_scheduled \/ l \in requested
              \/ next_scheduled[l] >= timeout
           /\ UNCHANGED <<next_scheduled, next_requested, requested, is_scheduled,
                          timers, running, left, gap>>
  BY <1>0, <1>1 DEF Inv, TypeOK, Marks, Counted, Spaced
<1>2. CASE l \notin is_scheduled /\ l \notin requested /\ Request(l)
  <2>1. /\ NextReload(l) \in Nat /\ age[l] + NextReload(l) >= timeout
    BY <1>2, NextReloadLate
  <2>2. /\ timeout \in Nat /\ timeout <= Far /\ gap' \in [Loadables -> Nat]
        /\ gap' = [gap EXCEPT ![l] = timeout]
    BY <1>2 DEF Request, Inv, TypeOK
  <2>3. CASE /\ l \in in_progress
             /\ next_requested' = [next_requested EXCEPT ![l] = NextReload(l)]
             /\ requested' = requested \cup {l}
             /\ UNCHANGED <<next_scheduled, is_scheduled, timers, running, left>>
    <3>1. TypeOK'
      BY <1>0, <2>1, <2>2, <2>3 DEF Inv, TypeOK
    <3>2. Marks' /\ Counted'
      BY <1>0, <1>2, <2>3 DEF Inv, Marks, Counted
    <3>3. ASSUME NEW m \in Loadables
          PROVE  /\ gap'[m] <= Far
                 /\ m \in running' => age'[m] + left'[m] >= gap'[m]
                 /\ m \in requested' => \/ age'[m] >= gap'[m]
                                        \/ age'[m] + next_requested'[m] >= gap'[m]
      <4>1. CASE m = l
        BY <1>0, <1>2, <2>1, <2>2, <2>3, <4>1 DEF Inv, TypeOK, Marks
      <4>2. CASE m # l
        BY <1>0, <2>2, <2>3, <4>2 DEF Inv, TypeOK, Spaced
      <4> QED
        BY <4>1, <4>2
    <3> QED
      BY <3>1, <3>2, <3>3 DEF Inv, Spaced
  <2>4. CASE l \notin in_progress /\ Schedule(l, NextReload(l))
    <3>1. /\ next_scheduled' \in [Loadables -> Int]
          /\ next_requested' \in [Loadables -> Int]
          /\ requested' \subseteq requested
          /\ is_scheduled' \subseteq Loadables /\ timers' \subseteq Loadables
          /\ running' \subseteq Loadables /\ left' \in [Loadables -> Nat]
          /\ Marks' /\ Counted' /\ Spaced'
      BY <1>0, <1>2, <2>1, <2>2, <2>4, AfterSchedule
    <3>2. TypeOK'
      BY <1>0, <2>2, <3>1 DEF Inv, TypeOK
    <3> QED
      BY <3>1, <3>2 DEF Inv
  <2> QED
    BY <1>2, <2>3, <2>4 DEF Request
<1> QED
  BY <1>1, <1>2 DEF Reload

LEMMA StepLoadDone ==
  ASSUME Inv, Slack = 0, NEW l \in Loadables, LoadDone(l)
  PROVE  Inv'
<1> USE Numbers
<1>0. /\ Finished(l) \in [Loadables -> Nat]
      /\ UNCHANGED <<timeout, delay, lua_previewer, changes, gap>>
  BY DEF LoadDone, Finished, Inv, TypeOK, settings
<1>1. CASE /\ l \in requested /\ Load(l, Finished(l))
           /\ UNCHANGED <<is_scheduled, timers, running, left>>
  <2>1. /\ underway' \in [Loadables -> Nat]
        /\ next_scheduled' \in [Loadables -> Int]
        /\ next_requested' \in [Loadables -> Int]
        /\ requested' = requested \ {l}
        /\ in_progress' \subseteq Loadables /\ wanted' \subseteq Loadables
        /\ age' \in [Loadables -> 0..Far]
        /\ next_scheduled'[l] = 0 /\ age'[l] = 0
        /\ \A m \in Loadables \ {l} : /\ next_scheduled'[m] = next_scheduled[m]
                                      /\ next_requested'[m] = next_requested[m]
                                      /\ age'[m] = age[m]
    BY <1>0, <1>1, AfterLoad
  <2>2. TypeOK'
    BY <1>0, <1>1, <2>1 DEF Inv, TypeOK
  <2>3. Marks'
    BY <1>1, <2>1 DEF Inv, Marks
  <2>4. Counted'
    BY <1>1, <2>1 DEF Inv, Counted, TypeOK
  <2>5. l \notin running
    BY <1>1 DEF Inv, Marks
  <2>6. Spaced'
    BY <1>0, <1>1, <2>1, <2>5 DEF Inv, Spaced, TypeOK
  <2> QED
    BY <2>2, <2>3, <2>4, <2>6 DEF Inv
<1>2. CASE /\ l \in requested /\ next_requested[l] > 0
           /\ in_progress' = in_progress \ {l}
           /\ underway' = Finished(l)
           /\ Schedule(l, next_requested[l])
           /\ UNCHANGED <<age, wanted>>
  <2>1. /\ next_requested[l] \in Nat /\ gap[l] \in Nat /\ gap[l] <= Far
        /\ gap' = [gap EXCEPT ![l] = gap[l]]
        /\ age[l] \in Nat
    BY <1>0, <1>2 DEF Inv, TypeOK, Spaced
  <2>2. age[l] + next_requested[l] >= gap[l]
    BY <1>2, <2>1 DEF Inv, Spaced
  <2>3. /\ next_scheduled' \in [Loadables -> Int]
        /\ next_requested' \in [Loadables -> Int]
        /\ requested' \subseteq requested
        /\ is_scheduled' \subseteq Loadables /\ timers' \subseteq Loadables
        /\ running' \subseteq Loadables /\ left' \in [Loadables -> Nat]
        /\ Marks' /\ Counted' /\ Spaced'
    BY <1>2, <2>1, <2>2, AfterSchedule
  <2>4. TypeOK'
    BY <1>0, <1>2, <2>3 DEF Inv, TypeOK
  <2> QED
    BY <2>3, <2>4 DEF Inv
<1>3. CASE /\ in_progress' = in_progress \ {l}
           /\ underway' = Finished(l)
           /\ UNCHANGED <<next_scheduled, next_requested, requested, is_scheduled,
                          timers, running, left, age, wanted>>
  BY <1>0, <1>3 DEF Inv, TypeOK, Marks, Counted, Spaced
<1> QED
  BY <1>1, <1>2, <1>3 DEF LoadDone

LEMMA StepCalls ==
  ASSUME Inv, NEW l \in Loadables, LuaPreviewDone(l) \/ LoadNow(l)
  PROVE  Inv'
<1>1. /\ underway' \in [Loadables -> Nat] /\ wanted' \subseteq Loadables
      /\ UNCHANGED <<next_scheduled, next_requested, requested, is_scheduled,
                     in_progress, timers, running, left, settings, age, gap>>
  BY DEF LuaPreviewDone, LoadNow, Finished, StartLoad, Inv, TypeOK
<1> QED
  BY <1>1 DEF Inv, TypeOK, Marks, Counted, Spaced, settings

LEMMA StepSetOption ==
  ASSUME Inv, NEW t \in Timeouts, NEW d \in Delays, SetOption(t, d)
  PROVE  Inv'
<1> USE Numbers DEF SetOption, Reschedule
<1>1. TypeOK'
  <2>1. /\ next_scheduled' \in [Loadables -> Int]
        /\ next_requested' \in [Loadables -> Int]
    BY DEF Inv, TypeOK
  <2>2. left' \in [Loadables -> Nat] /\ gap' \in [Loadables -> Nat]
    BY DEF Inv, TypeOK
  <2>3. changes' \in Nat
    BY DEF Inv, TypeOK
  <2> QED
    BY <2>1, <2>2, <2>3 DEF Inv, TypeOK
<1>2. Marks' /\ Counted'
  BY DEF Inv, Marks, Counted, TypeOK
<1>3. ASSUME NEW m \in Loadables
      PROVE  /\ gap'[m] <= Far
             /\ m \in running' => age'[m] + left'[m] >= gap'[m]
             /\ m \in requested' => \/ age'[m] >= gap'[m]
                                    \/ age'[m] + next_requested'[m] >= gap'[m]
  <2>1. CASE m \in timers
    BY <2>1 DEF Inv, TypeOK, Marks
  <2>2. CASE m \notin timers
    BY <2>2 DEF Inv, TypeOK, Marks, Spaced
  <2> QED
    BY <2>1, <2>2
<1> QED
  BY <1>1, <1>2, <1>3 DEF Inv, Spaced

LEMMA StepSetClockBack ==
  ASSUME Inv, SetClockBack
  PROVE  Inv'
<1> USE Numbers DEF SetClockBack
<1>1. TypeOK'
  BY DEF Inv, TypeOK
<1>2. Marks' /\ Counted'
  BY DEF Inv, Marks, Counted, TypeOK
<1>3. Spaced'
  BY DEF Inv, TypeOK, Spaced
<1> QED
  BY <1>1, <1>2, <1>3 DEF Inv

LEMMA StepTick ==
  ASSUME Inv, Tick
  PROVE  Inv'
<1> USE Numbers DEF Tick, settings
<1>1. TypeOK'
  <2>1. next_scheduled' \in [Loadables -> Int]
    BY DEF Inv, TypeOK, Long
  <2>2. next_requested' \in [Loadables -> Int]
    BY DEF Inv, TypeOK, Long
  <2>3. left' \in [Loadables -> Nat]
    BY DEF Inv, TypeOK
  <2>4. age' \in [Loadables -> 0..Far]
    BY DEF Inv, TypeOK, Old
  <2> QED
    BY <2>1, <2>2, <2>3, <2>4 DEF Inv, TypeOK
<1>2. Marks'
  BY DEF Inv, Marks
<1>3. Counted'
  BY DEF Inv, Counted, TypeOK, Long, Old
<1>4. ASSUME NEW m \in Loadables
      PROVE  /\ gap'[m] <= Far
             /\ m \in running' => age'[m] + left'[m] >= gap'[m]
             /\ m \in requested' => \/ age'[m] >= gap'[m]
                                    \/ age'[m] + next_requested'[m] >= gap'[m]
  <2>1. /\ age[m] \in 0..Far /\ left[m] \in Nat /\ gap[m] \in Nat
        /\ next_requested[m] \in Int /\ gap[m] <= Far /\ gap'[m] = gap[m]
        /\ age'[m] = Old(age[m] + 1)
        /\ left'[m] = IF left[m] > 0 THEN left[m] - 1 ELSE 0
        /\ m \in requested => next_requested'[m] = Long(next_requested[m] - 1)
    BY DEF Inv, TypeOK, Spaced
  <2>2. m \in running' => age'[m] + left'[m] >= gap'[m]
    BY <2>1 DEF Inv, Spaced, Old
  <2>3. m \in requested' => \/ age'[m] >= gap'[m]
                            \/ age'[m] + next_requested'[m] >= gap'[m]
    BY <2>1 DEF Inv, Spaced, Old, Long
  <2> QED
    BY <2>1, <2>2, <2>3
<1> QED
  BY <1>1, <1>2, <1>3, <1>4 DEF Inv, Spaced

-----------------------------------------------------------------------------
(* The theorems *)

\* The inductive invariant, as long as the clock stands still within a handler.
THEOREM Invariant ==
  ASSUME Slack = 0
  PROVE  Spec => []Inv
<1>1. Init => Inv
  BY Numbers DEF Init, Inv, TypeOK, Marks, Counted, Spaced
<1>2. Inv /\ [Next]_vars => Inv'
  <2> SUFFICES ASSUME Inv, [Next]_vars PROVE Inv'
    OBVIOUS
  <2>1. CASE UNCHANGED vars
    BY <2>1 DEF vars, Inv, TypeOK, Marks, Counted, Spaced
  <2>2. CASE Next
    BY <2>2, StepReload, StepTimerFires, StepLoadDone, StepCalls, StepSetOption,
       StepSetClockBack, StepTick DEF Next
  <2> QED
    BY <2>1, <2>2
<1> QED
  BY <1>1, <1>2, PTL DEF Spec

\* Reloads that the loader makes keep the timeout that was in force, whatever
\* the options are set to and however often the wall clock is set back.
THEOREM Distance ==
  ASSUME Slack = 0
  PROVE  Spec => []ReloadsKeepDistance
<1>1. Inv => ReloadsKeepDistance
  BY Numbers DEF Inv, TypeOK, Spaced, ReloadsKeepDistance
<1> QED
  BY <1>1, Invariant, PTL

\* A loadable marked as scheduled has a timer that libev fires, provided that
\* inotify_delay is not zero and the clock stands still within a handler;
\* throttle_zero and throttle_tick show that both are needed.
THEOREM ScheduledRuns ==
  ASSUME Slack = 0, 0 \notin Delays
  PROVE  Spec => []ScheduledIsRunning
<1> DEFINE Runs == timers \subseteq running
<1>1. Init => Inv /\ Runs
  BY Numbers DEF Init, Inv, TypeOK, Marks, Counted, Spaced
<1>2. Inv /\ Runs /\ [Next]_vars => Runs'
  <2> SUFFICES ASSUME Inv, Runs, [Next]_vars PROVE Runs'
    OBVIOUS
  <2>1. ASSUME NEW l \in Loadables, NEW t \in Nat, t > 0, Schedule(l, t)
        PROVE  Runs'
    BY <2>1 DEF Schedule
  <2>2. ASSUME NEW l \in Loadables, Reload(l)
        PROVE  Runs'
    <3>1. CASE UNCHANGED <<timers, running>>
      BY <3>1
    <3>2. CASE l \notin is_scheduled /\ Schedule(l, NextReload(l))
      BY <2>1, <3>2, NextReloadLate
    <3> QED
      BY <2>2, <3>1, <3>2 DEF Reload, Request
  <2>3. ASSUME NEW l \in Loadables, LoadDone(l)
        PROVE  Runs'
    <3>1. CASE UNCHANGED <<timers, running>>
      BY <3>1
    <3>2. CASE next_requested[l] > 0 /\ Schedule(l, next_requested[l])
      <4>1. next_requested[l] \in Nat
        BY <3>2 DEF Inv, TypeOK
      <4> QED
        BY <2>1, <3>2, <4>1
    <3> QED
      BY <2>3, <3>1, <3>2 DEF LoadDone
  <2>4. ASSUME NEW l \in Loadables, TimerFires(l)
        PROVE  Runs'
    BY <2>4 DEF TimerFires
  <2>5. ASSUME NEW t \in Timeouts, NEW d \in Delays, SetOption(t, d)
        PROVE  Runs'
    BY <2>5 DEF SetOption, Reschedule
  <2>6. ASSUME UNCHANGED <<timers, running>>
        PROVE  Runs'
    BY <2>6
  <2> QED
    BY <2>2, <2>3, <2>4, <2>5, <2>6
    DEF Next, LuaPreviewDone, LoadNow, SetClockBack, Tick, vars
<1>3. Inv /\ Runs => ScheduledIsRunning
  BY DEF Inv, Marks, ScheduledIsRunning
<1> HIDE DEF Runs
<1> QED
  BY <1>1, <1>2, <1>3, Invariant, PTL DEF Spec

\* A load marked as in progress is underway, unless a Lua previewer does it.
THEOREM InProgress == Spec => []InProgressBacked
<1> DEFINE J == /\ underway \in [Loadables -> Nat]
                /\ in_progress \subseteq Loadables
                /\ InProgressBacked
<1>1. Init => J
  BY DEF Init, InProgressBacked
<1>2. J /\ [Next]_vars => J'
  <2> SUFFICES ASSUME J, [Next]_vars PROVE J'
    OBVIOUS
  <2>1. ASSUME NEW l \in Loadables, NEW n \in [Loadables -> Nat], Load(l, n),
               lua_previewer' = lua_previewer,
               \A m \in Loadables \ {l} : n[m] = underway[m]
        PROVE  J'
    BY <2>1 DEF Load, StartLoad, InProgressBacked, ByLua
  <2>2. ASSUME UNCHANGED <<underway, in_progress, lua_previewer>>
        PROVE  J'
    BY <2>2 DEF InProgressBacked, ByLua
  <2>3. ASSUME NEW l \in Loadables, LoadDone(l)
        PROVE  J'
    <3>0. lua_previewer' = lua_previewer
      BY <2>3 DEF LoadDone, settings
    <3>1. /\ Finished(l) \in [Loadables -> Nat]
          /\ \A m \in Loadables \ {l} : Finished(l)[m] = underway[m]
      BY <2>3 DEF LoadDone, Finished
    <3>2. CASE Load(l, Finished(l))
      BY <2>1, <3>0, <3>1, <3>2
    <3>3. CASE underway' = Finished(l) /\ in_progress' = in_progress \ {l}
      BY <3>0, <3>1, <3>3 DEF InProgressBacked, ByLua
    <3> QED
      BY <2>3, <3>2, <3>3 DEF LoadDone
  <2>4. ASSUME NEW l \in Loadables, TimerFires(l)
        PROVE  J'
    BY <2>1, <2>4 DEF TimerFires, settings
  <2>5. ASSUME NEW l \in Loadables, LoadNow(l)
        PROVE  J'
    BY <2>5 DEF LoadNow, StartLoad, InProgressBacked, ByLua, settings
  <2>6. ASSUME NEW l \in Loadables, Reload(l)
        PROVE  J'
    BY <2>2, <2>6 DEF Reload, settings
  <2>7. ASSUME NEW l \in Loadables, LuaPreviewDone(l)
        PROVE  J'
    BY <2>7 DEF LuaPreviewDone, Finished, InProgressBacked, ByLua, settings
  <2> QED
    BY <2>2, <2>3, <2>4, <2>5, <2>6, <2>7
    DEF Next, SetOption, SetClockBack, Tick, vars, settings
<1>3. J => InProgressBacked
  OBVIOUS
<1> HIDE DEF J
<1> QED
  BY <1>1, <1>2, <1>3, PTL DEF Spec

\* The marks the throttle goes by agree with timers and loads, under the same provisions.
THEOREM MarksStayTrue ==
  ASSUME Slack = 0, 0 \notin Delays
  PROVE  Spec => []MarksAgree
<1>1. Inv /\ ScheduledIsRunning /\ InProgressBacked => MarksAgree
  BY DEF Inv, MarksAgree
<1> QED
  BY <1>1, Invariant, ScheduledRuns, InProgress, PTL
=============================================================================
