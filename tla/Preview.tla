------------------------------ MODULE Preview ------------------------------
(***************************************************************************)
(* Previews of files: the pane of ui.c, the cache of loader.c, loads and   *)
(* checks of async/preview_load.c, async/lua_preview.c and                 *)
(* async/preview_check.c, and what becomes of a Preview in preview.c.      *)
(*                                                                         *)
(* A load forks a previewer in the main thread.  A worker reads what it    *)
(* writes until it is gone and waits for a semaphore that the main thread  *)
(* posts with the exit status; the result goes back to the main thread.    *)
(* A Lua previewer runs in the worker itself.  Several loads of a Preview  *)
(* may be underway, and nothing tells their results apart.                 *)
(*                                                                         *)
(* When a reload is due is in ReloadThrottle; here a timer just runs.      *)
(***************************************************************************)
EXTENDS Integers, FiniteSets, Functions

CONSTANTS Files,      \* files under the cursor
          Images,     \* those of which the previewer makes an image
          Tall,       \* rows of the terminal
          Changing,   \* bound: files that are written to
          MaxMoves,   \* bound: calls that move the cursor and the like
          MaxChanges, \* bound: changes of files
          MaxDrops,   \* bound: times the cache is dropped
          MaxWork,    \* bound: loads and checks underway
          None

FilesAssumption == Images \cup Changing \subseteq Files /\ None \notin Files
TallAssumption == Tall \in Nat \ {0, 1}
BoundsAssumption == MaxDrops \in Nat /\ MaxWork \in Nat /\ MaxChanges \in Nat \ {0}

VARIABLES
  disk,      \* per file the number of its last change
  lua,       \* a Lua previewer is configured
  pvs,       \* Previews, by path and number of cache drops before
  drops,
  timers,    \* Previews with a load_timer
  loads,     \* preview_load_work and lua_preview_work
  checks,    \* preview_check_work
  ui,        \* preview and preview.hidden, cursor, cursor_resting_timer is active
  rows,      \* ui.preview.y
  phase,     \* "running", "stopping" when workers are awaited, "stopped"
  moves,
  \* Ghosts
  raced,     \* files that changed, or whose pane did, while a load of them was underway
  looked,    \* files that were loaded or checked since their last change
  hurried    \* files that the cursor came to without resting since they were loaded

vars == <<disk, lua, pvs, drops, timers, loads, checks, ui, rows, phase,
          moves, raced, looked, hurried>>

Cached(f) == <<f, drops>>
InCache(id) == id \in DOMAIN pvs /\ pvs[id].cached
Underway(f) == {w \in loads : w.pv[1] = f /\ ~w.cancelled}

\* The part of the state that a step of the main thread passes along
State == [pvs |-> pvs, timers |-> timers, loads |-> loads, checks |-> checks,
          rows |-> rows, raced |-> raced, looked |-> looked]
Becomes(s) == /\ pvs' = s.pvs /\ timers' = s.timers /\ loads' = s.loads
              /\ checks' = s.checks /\ rows' = s.rows
              /\ raced' = s.raced /\ looked' = s.looked

-----------------------------------------------------------------------------
(* Previews *)

\* preview_dec_ref, preview_destroy
DecRef(p, id) == IF p[id].ref = 1 THEN Restrict(p, DOMAIN p \ {id})
                 ELSE [p EXCEPT ![id].ref = @ - 1]

\* How many loads and checks hold a reference
Holders(s, id) == Cardinality({w \in s.loads \cup s.checks : w.pv = id})

\* preview_create_loading, with the reference of the cache
Created == [ref |-> 1, cached |-> TRUE, status |-> "delayed", loading |-> TRUE,
            height |-> Tall, mtime |-> 0, content |-> 0, draws |-> "text",
            holds |-> "text", in_progress |-> FALSE, requested |-> FALSE]

WithCreated(p, id) == [i \in DOMAIN p \cup {id} |-> IF i = id THEN Created ELSE p[i]]

\* update_text_preview and update_image_preview; the latter expects an image.
Update(p, u) ==
  [p EXCEPT !.mtime = u.mtime, !.content = u.content, !.height = u.height,
            !.loading = FALSE, !.status = "loaded", !.holds = u.kind,
            !.draws = IF p.draws = "text" THEN u.kind ELSE "image"]

-----------------------------------------------------------------------------
(* Loads and checks *)

\* A number that tells a work from those underway
Unused(s) == CHOOSE n \in 0..MaxWork : \A w \in s.loads \cup s.checks : w.n # n

\* How much of the file is asked for
Rows(s, id) == s.rows

\* async_preview_load, async_lua_preview
LoadWith(s, id, l) ==
  LET w == [pv |-> id, n |-> Unused(s), height |-> Rows(s, id), mtime |-> None,
            from |-> disk[id[1]], content |-> None, kind |-> None,
            child |-> IF l THEN "none" ELSE "runs", sem |-> FALSE,
            done |-> FALSE, cancelled |-> FALSE]
  IN [s EXCEPT !.pvs[id] = [s.pvs[id] EXCEPT !.status = "loaded", !.loading = TRUE,
                                             !.ref = @ + 1],
               !.loads = @ \cup {w},
               !.raced = IF \E v \in s.loads : v.pv[1] = id[1] /\ ~v.cancelled THEN @
                         ELSE @ \ {id[1]},
               !.looked = @ \cup {id[1]}]

Load(s, id) == LoadWith(s, id, lua)

\* async_preview_check
Check(s, id) ==
  [s EXCEPT !.pvs[id].ref = @ + 1,
            !.checks = @ \cup {[pv |-> id, n |-> Unused(s), mtime |-> s.pvs[id].mtime,
                                done |-> FALSE]},
            !.looked = @ \cup {id[1]}]

\* load, from a timer or because one was requested meanwhile
LoadScheduled(s, id) ==
  LET t == Load(s, id)
  IN [t EXCEPT !.pvs[id] = [@ EXCEPT !.in_progress = TRUE, !.requested = FALSE]]

\* Mutant: what was loaded before is not loaded again.
ReloadOnce(s, id) ==
  IF ~s.pvs[id].cached \/ id \in s.timers \/ s.pvs[id].mtime > 0 THEN s
  ELSE [s EXCEPT !.timers = @ \cup {id}]

\* loader_preview_reload
Reload(s, id) ==
  IF ~s.pvs[id].cached \/ id \in s.timers \/ s.pvs[id].requested THEN s
  ELSE IF s.pvs[id].in_progress THEN [s EXCEPT !.pvs[id].requested = TRUE]
  ELSE [s EXCEPT !.timers = @ \cup {id}]

\* loader_callback; what was requested is loaded now or has its time yet to come.
Called(s, id) ==
  LET t == [s EXCEPT !.pvs[id].in_progress = FALSE]
  IN IF ~s.pvs[id].requested THEN {t}
     ELSE {LoadScheduled(t, id),
           [t EXCEPT !.timers = @ \cup {id}, !.pvs[id].requested = FALSE]}

\* loader_preview_from_path
FromPath(s, f, do_load) ==
  LET id == Cached(f)
      t == [s EXCEPT !.pvs = WithCreated(@, id)]
  IN IF id \notin DOMAIN s.pvs THEN IF do_load THEN Load(t, id) ELSE t
     ELSE IF ~do_load THEN s
     ELSE IF s.pvs[id].status = "delayed" \/ s.pvs[id].height < s.rows
     THEN Load(s, id)
     ELSE Check(s, id)

\* Mutant: workers that wait for the exit status are not woken.
CancelAsleep(w) == {[l EXCEPT !.cancelled = TRUE] : l \in w}

\* async_preview_cancel: what comes back is dropped, previewers are killed, and workers
\* need not wait for their exit status.
Cancel(w) == {[l EXCEPT !.cancelled = TRUE, !.sem = TRUE] : l \in w}

\* The cache gives back its references.
Uncached(p) == [id \in {i \in DOMAIN p : ~(p[i].cached /\ p[i].ref = 1)} |->
                  IF p[id].cached THEN [p[id] EXCEPT !.cached = FALSE, !.ref = @ - 1]
                  ELSE p[id]]

\* Mutant: timers stay.
DroppedTicking(s) ==
  [s EXCEPT !.loads = Cancel(@), !.pvs = Uncached(@)]

\* loader_drop_preview_cache after async_preview_cancel
Dropped(s) ==
  [s EXCEPT !.timers = {}, !.loads = Cancel(@), !.pvs = Uncached(@)]

-----------------------------------------------------------------------------
Init ==
  /\ disk = [f \in Files |-> 1] /\ lua \in BOOLEAN
  /\ pvs = <<>> /\ drops = 0 /\ timers = {} /\ loads = {} /\ checks = {}
  /\ ui = [preview |-> None, hidden |-> FALSE, cursor |-> None, resting |-> FALSE]
  /\ rows = 1
  /\ phase = "running" /\ moves = 0
  /\ raced = {} /\ looked = {} /\ hurried = {}

Running == phase = "running"
Room == Running /\ Cardinality(loads \cup checks) < MaxWork
Move == Room /\ moves < MaxMoves /\ moves' = moves + 1

\* ui_on_cursor_moved, and on_cursor_resting if it is called at once: the cursor is on
\* f, or on no file but a directory.
OnCursorMoved(s, f, immediate) ==
  LET id == Cached(f)
      same == ui.preview = id /\ InCache(id)
      t == IF same /\ ~s.pvs[id].loading /\ s.pvs[id].height < s.rows
           THEN [s EXCEPT !.pvs[id].status = "delayed"] ELSE s
  IN /\ Becomes(IF f = None THEN s ELSE FromPath(t, f, immediate))
     /\ hurried' = IF immediate THEN hurried \ {f} ELSE hurried \cup ({f} \ {None})
     /\ ui' = [preview |-> IF f = None THEN None ELSE id, cursor |-> f,
               hidden |-> ~immediate, resting |-> ~immediate]

\* Moves of the cursor and changes of directory, and new listings
MoveCursor(f, immediate) ==
  /\ Move /\ OnCursorMoved(State, f, immediate)
  /\ UNCHANGED <<disk, lua, drops, phase>>

\* ui_on_resize
Resize(n) ==
  /\ Move /\ n # rows
  /\ OnCursorMoved([State EXCEPT !.rows = n,
                                 !.raced = @ \cup {f \in Files : Underway(f) # {}}],
                   ui.cursor, TRUE)
  /\ UNCHANGED <<disk, lua, drops, phase>>

\* on_cursor_resting, called by its timer
CursorRests ==
  /\ Room /\ ui.resting
  /\ ui' = [ui EXCEPT !.hidden = FALSE, !.resting = FALSE]
  /\ LET id == ui.preview
     IN Becomes(IF id = None THEN State
                ELSE IF pvs[id].status = "delayed" THEN Load(State, id)
                ELSE Check(State, id))
  /\ UNCHANGED <<disk, lua, drops, phase, moves, hurried>>

\* ui_drop_cache, also when an option is set; the previewer may be another one then.
DropCache(l) ==
  /\ Move /\ drops < MaxDrops /\ drops' = drops + 1 /\ lua' = l
  /\ LET s == Dropped(State)
         id == <<ui.cursor, drops'>>
         t == [s EXCEPT !.pvs = WithCreated(@, id)]
     IN /\ Becomes(IF ui.cursor = None THEN s ELSE LoadWith(t, id, l))
        /\ ui' = [ui EXCEPT !.preview = IF ui.cursor = None THEN None ELSE id,
                            !.hidden = FALSE, !.resting = FALSE]
        /\ hurried' = {}
  /\ UNCHANGED <<disk, phase>>

\* load_timer_cb
TimerFires(id) ==
  /\ Room /\ id \in timers
  /\ Becomes([LoadScheduled(State, id) EXCEPT !.timers = @ \ {id}])
  /\ UNCHANGED <<disk, lua, drops, ui, phase, moves, hurried>>

\* Someone writes to f.
Change(f) ==
  /\ Running /\ disk[f] < MaxChanges
  /\ disk' = [disk EXCEPT ![f] = @ + 1]
  /\ raced' = IF Underway(f) # {} THEN raced \cup {f} ELSE raced
  /\ looked' = looked \ {f}
  /\ UNCHANGED <<lua, pvs, drops, timers, loads, checks, ui, rows, phase, moves,
                 hurried>>

-----------------------------------------------------------------------------
(* Previewers, workers and their results *)

Replace(w, v) == /\ loads' = (loads \ {w}) \cup {v}
                 /\ UNCHANGED <<disk, lua, pvs, drops, timers, checks, ui, rows,
                                phase, moves, raced, looked, hurried>>

\* The previewer read the file, at some time since it was forked, and ends; one that is
\* killed does so for sure.
ChildExits(w, seen) ==
  /\ w \in loads /\ w.child = "runs" /\ seen \in w.from..disk[w.pv[1]]
  /\ Replace(w, [w EXCEPT !.child = "gone", !.content = seen])

\* child_exit_cb
ChildExitCb(w) == /\ w \in loads /\ Running /\ w.child = "gone" /\ ~w.done /\ ~w.sem
                  /\ Replace(w, [w EXCEPT !.sem = TRUE])

\* preview_read_output, preview_create_and_stat: the time stamp is read first; a Lua
\* previewer reads the file itself afterwards.
WorkerStats(w) == /\ w \in loads /\ w.mtime = None
                  /\ Replace(w, [w EXCEPT !.mtime = disk[w.pv[1]]])

\* The end of the output, sem_wait, preview_handle_exit_status, submit_async_result
WorkerDone(w) ==
  /\ w \in loads /\ w.mtime # None /\ ~w.done
  /\ w.child = "none" \/ (w.child = "gone" /\ w.sem)
  /\ Replace(w, [w EXCEPT !.done = TRUE,
                          !.content = IF w.child = "none" THEN disk[w.pv[1]] ELSE @,
                          !.kind = IF w.child = "gone" /\ w.pv[1] \in Images
                                   THEN "image" ELSE "text"])

\* callback and destroy of preview_load_work, callback and destroy of
\* lua_preview_work; the latter does not tell the loader.
Apply(w) ==
  /\ Running /\ w \in loads /\ w.done
  /\ LET rest == [State EXCEPT !.loads = @ \ {w}]
     IN \E s \in IF w.cancelled \/ w.child = "none" THEN {rest} ELSE Called(rest, w.pv) :
          LET t == IF w.cancelled THEN s
                   ELSE [s EXCEPT !.pvs[w.pv] = Update(@, w)]
          IN Becomes([t EXCEPT !.pvs = DecRef(@, w.pv)])
  /\ UNCHANGED <<disk, lua, drops, ui, phase, moves, hurried>>

\* worker of preview_check_work: it is destroyed right there if there is nothing new.
WorkerChecks(c) ==
  /\ c \in checks /\ ~c.done
  /\ IF disk[c.pv[1]] <= c.mtime
     THEN checks' = checks \ {c} /\ pvs' = DecRef(pvs, c.pv)
     ELSE checks' = (checks \ {c}) \cup {[c EXCEPT !.done = TRUE]} /\ UNCHANGED pvs
  /\ UNCHANGED <<disk, lua, drops, timers, loads, ui, rows, phase, moves, raced,
                 looked, hurried>>

\* callback and destroy of preview_check_work
ApplyCheck(c) ==
  /\ Running /\ c \in checks /\ c.done
  /\ LET s == Reload([State EXCEPT !.checks = @ \ {c}], c.pv)
     IN Becomes([s EXCEPT !.pvs = DecRef(@, c.pv)])
  /\ UNCHANGED <<disk, lua, drops, ui, phase, moves, hurried>>

\* lfm_deinit: the caches are dropped, previewers are killed, workers are awaited;
\* then their results are destroyed.
Quit ==
  /\ Running /\ phase' = "stopping"
  /\ Becomes(Dropped(State)) /\ ui' = [ui EXCEPT !.preview = None]
  /\ UNCHANGED <<disk, lua, drops, moves, hurried>>
Drain ==
  /\ phase = "stopping" /\ phase' = "stopped"
  /\ \A w \in loads \cup checks : w.done
  /\ loads' = {} /\ checks' = {}
  /\ pvs' = [id \in {i \in DOMAIN pvs : pvs[i].ref > Holders(State, i)} |->
                [pvs[id] EXCEPT !.ref = @ - Holders(State, id)]]
  /\ UNCHANGED <<disk, lua, drops, timers, ui, rows, moves, raced, looked, hurried>>

Next ==
  \/ \E f \in Files \cup {None}, immediate \in BOOLEAN : MoveCursor(f, immediate)
  \/ \E n \in 1..(Tall - 1) : Resize(n)
  \/ CursorRests
  \/ \E l \in BOOLEAN : DropCache(l)
  \/ \E id \in timers : TimerFires(id)
  \/ \E f \in Changing : Change(f)
  \/ \E w \in loads : \/ \E seen \in 1..MaxChanges : ChildExits(w, seen)
                      \/ ChildExitCb(w) \/ WorkerStats(w) \/ WorkerDone(w) \/ Apply(w)
  \/ \E c \in checks : WorkerChecks(c) \/ ApplyCheck(c)
  \/ Quit \/ Drain

\* A previewer may take forever, unless it is killed; workers do their work.
Killed == \E w \in loads, seen \in 1..MaxChanges : w.cancelled /\ ChildExits(w, seen)
Work == \/ \E w \in loads : WorkerStats(w) \/ WorkerDone(w)
        \/ \E c \in checks : WorkerChecks(c)
Fairness == WF_vars(Killed) /\ WF_vars(Work) /\ WF_vars(Drain)

Spec == Init /\ [][Next]_vars
FairSpec == Spec /\ Fairness

-----------------------------------------------------------------------------
(* Properties *)

TypeOK ==
  /\ disk \in [Files -> 1..MaxChanges] /\ lua \in BOOLEAN /\ rows \in 1..Tall
  /\ DOMAIN pvs \subseteq Files \X (0..MaxDrops)
  /\ \A id \in DOMAIN pvs : /\ pvs[id].status \in {"delayed", "loaded"}
                            /\ pvs[id].ref \in Nat \ {0}
  /\ ui.cursor \in Files \cup {None} /\ ui.hidden \in BOOLEAN /\ ui.resting \in BOOLEAN
  /\ phase \in {"running", "stopping", "stopped"}

\* No Preview is freed too early or kept too long, whichever thread gives back the last
\* reference: it has one of the cache and one for each load and check, what is shown
\* and what a timer is set for is in the cache, and none outlives the program.
PreviewsAreLive ==
  /\ \A w \in loads \cup checks : w.pv \in DOMAIN pvs
  /\ \A id \in DOMAIN pvs :
       pvs[id].ref = Holders(State, id) + (IF pvs[id].cached THEN 1 ELSE 0)
  /\ \A id \in timers \cup ({ui.preview} \ {None}) : InCache(id)
  /\ phase = "stopped" => DOMAIN pvs = {}

\* A Preview draws what it holds: the functions that draw and free it change together
\* with its contents.
DrawsWhatItHolds == \A id \in DOMAIN pvs : pvs[id].draws = pvs[id].holds

\* Previews are freed in time, and drawn as what they hold (preview_dec_ref,
\* preview_update).
PreviewsAreSound == TypeOK /\ PreviewsAreLive /\ DrawsWhatItHolds

Settled(f) == /\ Underway(f) = {} /\ ~\E c \in checks : c.pv = Cached(f)
              /\ Cached(f) \notin timers /\ ~pvs[Cached(f)].requested

\* Once nothing is underway any more, the preview of a file is of what the file holds
\* now, if it was looked at since the file changed: whatever loads, checks, timers and
\* cursor moves came in between.  Except after a change during a load, and with a Lua
\* previewer: see the README.
ShownIsFresh ==
  (Running /\ ui.preview # None /\ ~ui.hidden /\ ~lua) =>
    LET f == ui.cursor
    IN /\ ui.preview = Cached(f)
       /\ Settled(f) => pvs[ui.preview].status = "loaded" /\ ~pvs[ui.preview].loading
       /\ Settled(f) /\ f \in looked \ raced => pvs[ui.preview].content = disk[f]

\* A preview that was loaded for a lower pane is loaded again when the cursor comes to
\* its file, or the pane grows.  Except when the cursor came there too
\* quickly, or the pane changed during a load.
ShownFillsPane ==
  (Running /\ ui.preview # None /\ ~ui.hidden /\ ui.cursor \notin hurried \cup raced
     /\ Settled(ui.cursor)) => pvs[ui.preview].height >= rows

\* The preview under the cursor is of the file as it is, and as high as the pane
\* (ui_on_cursor_moved, loader_preview_from_path).
ShownIsRight == ShownIsFresh /\ ShownFillsPane

\* When the program ends, every worker comes back, also from a previewer that would
\* never have ended.
QuitCompletes == phase = "stopping" ~> phase = "stopped"
=============================================================================
