---------------------------- MODULE ReloadThrottle ----------------------------
(***************************************************************************)
(* Throttling of reloads in loader.c: when the reload of a directory or a  *)
(* preview that inotify or a check asks for takes place.                   *)
(*                                                                         *)
(* Times are in milliseconds.  The handlers only compare times with the    *)
(* wall clock, so a time is kept as its distance from the current reading: *)
(* one that has passed is negative, and is not told apart from others once *)
(* it is Far in the past.  The wall clock (current_millis) may be set;     *)
(* timers run on the monotonic clock of libev.  DirLoader models the       *)
(* dropping of the cache; here no loadable is disowned.                    *)
(***************************************************************************)
EXTENDS Integers

CONSTANTS Loadables,   \* Dirs and Previews
          Previews,    \* those of which every result calls loader_callback;
                       \* of a Dir only the newest load does
          Timeouts,    \* values of cfg.inotify_timeout
          Delays,      \* values of cfg.inotify_delay
          Slack,       \* the clock may advance so much within one handler
          StepBack,    \* the wall clock is set back by so much at a time
          Far,         \* bound: how far back times are told apart
          MaxLoads,    \* bound: loads of one preview at a time
          MaxChanges   \* bound: settings of an option or of the clock

ASSUME SetsAssumption == /\ Previews \subseteq Loadables
                         /\ Timeouts \subseteq Nat \ {0} /\ Timeouts # {}
                         /\ Delays \subseteq Nat /\ Delays # {}
ASSUME NumbersAssumption == /\ Slack \in Nat /\ StepBack \in Nat /\ Far \in Nat
                            /\ MaxLoads \in Nat /\ MaxChanges \in Nat
                            /\ \A t \in Timeouts : t + MaxChanges * StepBack <= Far

VARIABLES next_scheduled,  \* loadable_data.next_scheduled, from now
          next_requested,  \* loadable_data.next_requested, from now
          requested,       \* loadables whose next_requested is set
          is_scheduled,    \* loadables with is_scheduled
          in_progress,     \* loadables with in_progress
          timers,          \* the keys of loader_ctx.timers
          running,         \* timers that libev will fire, ...
          left,            \* ... and after how long
          underway,        \* loads whose result will call loader_callback
          timeout, delay,  \* cfg.inotify_timeout, cfg.inotify_delay
          lua_previewer,   \* is cfg.lua_previewer set? (from the start, here)
          changes,         \* settings so far, for the bound only
          age,             \* ghost: time since the loader last called load
          gap,             \* ghost: the timeout a planned reload was granted under
          wanted           \* ghost: loadables that changed after their last load

vars == <<next_scheduled, next_requested, requested, is_scheduled, in_progress,
          timers, running, left, underway, timeout, delay, lua_previewer,
          changes, age, gap, wanted>>

settings == <<timeout, delay, lua_previewer, changes>>

\* async_preview_load hands the preview to a Lua previewer
ByLua(l) == lua_previewer /\ l \in Previews

Long(t) == IF t < -Far THEN -Far ELSE t
Old(t) == IF t > Far THEN Far ELSE t

Init == /\ next_scheduled = [l \in Loadables |-> -Far]
        /\ next_requested = [l \in Loadables |-> 0]
        /\ requested = {} /\ is_scheduled = {} /\ in_progress = {}
        /\ timers = {} /\ running = {}
        /\ left = [l \in Loadables |-> 0]
        /\ underway = [l \in Loadables |-> 1]  \* loader_dir_from_path loads
        /\ timeout \in Timeouts /\ delay \in Delays /\ changes = 0
        /\ lua_previewer \in BOOLEAN
        /\ age = [l \in Loadables |-> Far]
        /\ gap = [l \in Loadables |-> 0]
        /\ wanted = {}

-----------------------------------------------------------------------------
(* What the handlers do to one loadable *)

\* async_dir_load, async_preview_load: a new load of a Dir outdates the others
StartLoad(n, l) == [n EXCEPT ![l] = IF l \in Previews THEN @ + 1 ELSE 1]

\* load; n are the loads underway when it is called
Load(l, n) ==
  /\ n[l] < MaxLoads
  /\ underway' = StartLoad(n, l)
  /\ next_scheduled' = [next_scheduled EXCEPT ![l] = 0]
  /\ next_requested' = [next_requested EXCEPT ![l] = 0]
  /\ requested' = requested \ {l}
  /\ in_progress' = in_progress \cup {l}
  /\ age' = [age EXCEPT ![l] = 0]
  /\ wanted' = wanted \ {l}

\* schedule, for a time that is t from the caller's reading of the clock, of
\* which s goes by before its own.  The difference is unsigned: below zero it
\* wraps and never elapses.  ev_timer_again does not start a timer of zero.
Schedule(l, t) ==
  IF l \in is_scheduled
  THEN UNCHANGED <<next_scheduled, next_requested, requested, is_scheduled,
                   timers, running, left>>
  ELSE \E s \in 0..Slack :
         /\ timers' = timers \cup {l}
         /\ is_scheduled' = is_scheduled \cup {l}
         /\ running' = IF t > s THEN running \cup {l} ELSE running
         /\ left' = [left EXCEPT ![l] = IF t > s THEN t - s ELSE 0]
         /\ next_scheduled' = [next_scheduled EXCEPT ![l] = t]
         /\ next_requested' = [next_requested EXCEPT ![l] = 0]
         /\ requested' = requested \ {l}

\* mutant: the delay counts from the latest load only
NextReloadEager(l) == IF next_scheduled[l] + timeout > 0
                      THEN next_scheduled[l] + delay
                      ELSE delay

\* next in loader_reload, from now
NextReload(l) == IF next_scheduled[l] + timeout > 0
                 THEN next_scheduled[l] + timeout + delay
                 ELSE delay

-----------------------------------------------------------------------------
(* Actions *)

\* mutant: a request during a load is dropped
RequestForgetting(l) ==
  IF l \in in_progress
  THEN UNCHANGED <<next_scheduled, next_requested, requested, is_scheduled,
                   timers, running, left, gap>>
  ELSE /\ Schedule(l, NextReload(l))
       /\ gap' = [gap EXCEPT ![l] = timeout]

\* loader_reload, past its early returns
Request(l) ==
  /\ gap' = [gap EXCEPT ![l] = timeout]
  /\ \/ /\ l \in in_progress
        /\ next_requested' = [next_requested EXCEPT ![l] = NextReload(l)]
        /\ requested' = requested \cup {l}
        /\ UNCHANGED <<next_scheduled, is_scheduled, timers, running, left>>
     \/ /\ l \notin in_progress
        /\ Schedule(l, NextReload(l))

\* loader_dir_reload, loader_preview_reload, loader_reload: something changed
\* on disk, and inotify or a check says so
Reload(l) ==
  /\ wanted' = wanted \cup {l}
  /\ IF \/ l \in is_scheduled \/ l \in requested
        \/ next_scheduled[l] >= timeout
     THEN UNCHANGED <<next_scheduled, next_requested, requested, is_scheduled,
                      timers, running, left, gap>>
     ELSE Request(l)
  /\ UNCHANGED <<in_progress, underway, settings, age>>

\* load_timer_cb
TimerFires(l) ==
  /\ l \in running /\ left[l] = 0
  /\ running' = running \ {l} /\ timers' = timers \ {l}
  /\ is_scheduled' = is_scheduled \ {l}
  /\ Load(l, underway)
  /\ UNCHANGED <<left, settings, gap>>

Finished(l) == [underway EXCEPT ![l] = @ - 1]

\* mutant: a reload that is due is left to the timer
LoadDoneScheduling(l) ==
  /\ underway[l] > 0 /\ ~ByLua(l)
  /\ underway' = Finished(l)
  /\ in_progress' = in_progress \ {l}
  /\ IF l \in requested
     THEN Schedule(l, next_requested[l])
     ELSE UNCHANGED <<next_scheduled, next_requested, requested, is_scheduled,
                      timers, running, left>>
  /\ UNCHANGED <<age, wanted, settings, gap>>

\* dir_update_callback of the newest load, the callback of preview_load.c:
\* loader_callback
LoadDone(l) ==
  /\ underway[l] > 0 /\ ~ByLua(l)
  /\ \/ /\ l \in requested /\ next_requested[l] <= 0
        /\ Load(l, Finished(l))
        /\ UNCHANGED <<is_scheduled, timers, running, left>>
     \/ /\ l \in requested /\ next_requested[l] > 0
        /\ in_progress' = in_progress \ {l}
        /\ underway' = Finished(l)
        /\ Schedule(l, next_requested[l])
        /\ UNCHANGED <<age, wanted>>
     \/ /\ l \notin requested
        /\ in_progress' = in_progress \ {l}
        /\ underway' = Finished(l)
        /\ UNCHANGED <<next_scheduled, next_requested, requested, is_scheduled,
                       timers, running, left, age, wanted>>
  /\ UNCHANGED <<settings, gap>>

\* the callback of lua_preview.c, which does not tell the loader
LuaPreviewDone(l) ==
  /\ underway[l] > 0 /\ ByLua(l)
  /\ underway' = Finished(l)
  /\ UNCHANGED <<next_scheduled, next_requested, requested, is_scheduled,
                 in_progress, timers, running, left, settings, age, gap, wanted>>

\* fm_reload and others load at once, past the loader
LoadNow(l) ==
  /\ underway[l] < MaxLoads
  /\ underway' = StartLoad(underway, l)
  /\ wanted' = wanted \ {l}
  /\ UNCHANGED <<next_scheduled, next_requested, requested, is_scheduled,
                 in_progress, timers, running, left, settings, age, gap>>

\* loader_reschedule, for the new values of the options
Reschedule(t, d) ==
  /\ next_scheduled' = [l \in Loadables |-> IF l \in timers THEN t + d
                                            ELSE next_scheduled[l]]
  /\ next_requested' = [l \in Loadables |-> IF l \in timers THEN 0
                                            ELSE next_requested[l]]
  /\ running' = timers
  /\ left' = [l \in Loadables |-> IF l \in timers THEN t + d ELSE left[l]]
  /\ gap' = [l \in Loadables |-> IF l \in timers THEN t ELSE gap[l]]

\* lfm.o.inotify_timeout or lfm.o.inotify_delay is assigned
SetOption(t, d) ==
  /\ changes < MaxChanges /\ changes' = changes + 1
  /\ t = timeout \/ d = delay
  /\ timeout' = t /\ delay' = d
  /\ Reschedule(t, d)
  /\ UNCHANGED <<requested, is_scheduled, in_progress, timers, underway,
                 lua_previewer, age, wanted>>

\* the wall clock is set back: every time is further ahead of it
SetClockBack ==
  /\ StepBack > 0
  /\ changes < MaxChanges /\ changes' = changes + 1
  /\ next_scheduled' = [l \in Loadables |-> next_scheduled[l] + StepBack]
  /\ next_requested' = [l \in Loadables |-> IF l \in requested
                                            THEN next_requested[l] + StepBack
                                            ELSE 0]
  /\ UNCHANGED <<requested, is_scheduled, in_progress, timers, running, left,
                 underway, timeout, delay, lua_previewer, age, gap, wanted>>

\* a millisecond goes by
Tick ==
  /\ next_scheduled' = [l \in Loadables |-> Long(next_scheduled[l] - 1)]
  /\ next_requested' = [l \in Loadables |-> IF l \in requested
                                            THEN Long(next_requested[l] - 1)
                                            ELSE 0]
  /\ left' = [l \in Loadables |-> IF left[l] > 0 THEN left[l] - 1 ELSE 0]
  /\ age' = [l \in Loadables |-> Old(age[l] + 1)]
  /\ UNCHANGED <<requested, is_scheduled, in_progress, timers, running, underway,
                 settings, gap, wanted>>

Next == \/ \E l \in Loadables : \/ Reload(l) \/ TimerFires(l) \/ LoadDone(l)
                                \/ LuaPreviewDone(l) \/ LoadNow(l)
        \/ \E t \in Timeouts, d \in Delays : SetOption(t, d)
        \/ SetClockBack
        \/ Tick

Spec == Init /\ [][Next]_vars

\* Time goes by, libev fires the timers that are due, and the worker and the
\* result queue finish each load.  Nothing is assumed of requests.
FairSpec == /\ Spec /\ WF_vars(Tick)
            /\ \A l \in Loadables : /\ WF_vars(TimerFires(l))
                                    /\ WF_vars(LoadDone(l) \/ LuaPreviewDone(l))

-----------------------------------------------------------------------------
(* Properties *)

TypeOK == /\ next_scheduled \in [Loadables -> Int]
          /\ next_requested \in [Loadables -> Int]
          /\ requested \subseteq Loadables /\ is_scheduled \subseteq Loadables
          /\ in_progress \subseteq Loadables /\ timers \subseteq Loadables
          /\ running \subseteq Loadables
          /\ left \in [Loadables -> Nat]
          /\ underway \in [Loadables -> Nat]
          /\ timeout \in Timeouts /\ delay \in Delays /\ changes \in Nat
          /\ lua_previewer \in BOOLEAN
          /\ age \in [Loadables -> 0..Far] /\ gap \in [Loadables -> Nat]
          /\ wanted \subseteq Loadables

\* A loadable that is marked as scheduled, and whose reload requests are
\* therefore ignored (loader_reload), has a timer, and libev will fire it.
ScheduledIsRunning == /\ is_scheduled = timers /\ timers = running
                      /\ is_scheduled \cap requested = {}

\* A request that waits for the load underway to finish (next_requested) does
\* not wait for a load that is over: loadable.h says in_progress is unset by
\* loader_callback.  A Lua previewer never calls it.
InProgressBacked ==
  \A l \in in_progress : ~ByLua(l) => underway[l] > 0

\* A reload that the loader would make now, since its timer has run out or the
\* load it waited for would find it due, comes no sooner after the loader's last
\* load than the timeout that held when the reload was granted: o.lua promises
\* a minimum time between reloads.
ReloadsKeepDistance ==
  \A l \in Loadables :
    \/ l \in running /\ left[l] = 0
    \/ l \in requested /\ next_requested[l] <= 0
    => age[l] >= gap[l]

\* What changed on disk after the last load is loaded in the end, however the
\* request was put off; except for a Preview once a Lua previewer has loaded it.
RequestIsServed ==
  \A l \in Loadables : l \in wanted ~> l \notin wanted \/ ByLua(l)

\* The marks the throttle decides by agree with the timers and loads they stand for.
MarksAgree == TypeOK /\ ScheduledIsRunning /\ InProgressBacked
=============================================================================
