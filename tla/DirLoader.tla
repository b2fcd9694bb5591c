------------------------------ MODULE DirLoader ------------------------------
(***************************************************************************)
(* Loading of directories: the cache and the reload timers of loader.c, the *)
(* load and check works of async/dir_load.c and async/dir_check.c, the      *)
(* result queue of async/async.c and the reference counts of dir.c.         *)
(*                                                                          *)
(* The event loop thread starts works and applies their results; workers    *)
(* run them concurrently.  The thread pool is used through its promise      *)
(* (WorkPool): a submitted work is started some time later, once, in any    *)
(* order.  Time is abstract: a timer that is set fires some time later, and *)
(* whether next_requested has passed is a free choice.                      *)
(***************************************************************************)
EXTENDS Integers, Sequences, FiniteSets, SequencesExt

CONSTANTS Dirs,        \* Dir structs that xcalloc may hand out
          Paths,       \* absolute paths of directories
          Shown,       \* the paths fm_populate loads again after a cache drop
          Checks,      \* dir_check_work structs
          MaxVersion,  \* bound: how often a directory changes on disk
          MaxOps,      \* bound: calls of the file manager or of Lua
          MaxBatches,  \* bound: fileinfo batches before the last one
          MayExit,     \* TRUE: lfm_deinit may run
          Prompt,      \* TRUE: handing in the update of a load and the last
                       \* look at its work struct are one step
          None         \* "no Dir in the cache"

ASSUME DirsAssumption == /\ IsFiniteSet(Paths) /\ Shown \subseteq Paths
                         /\ None \notin Dirs
ASSUME BoundsAssumption == /\ MaxVersion \in Nat /\ MaxOps \in Nat
                           /\ MaxBatches \in Nat
                           /\ Prompt \in BOOLEAN /\ MayExit \in BOOLEAN

VARIABLES dir,         \* the Dir structs
          cache,       \* loader_ctx.dir_cache
          timers,      \* the keys of loader_ctx.timers
          loads,       \* dir_update_works a worker may still act upon
          check,       \* dir_check_works
          checking,    \* async_ctx.in_progress.dirs
          queue,       \* async_ctx.queue
          lua,         \* Dirs referenced from Lua
          disk,        \* version of each directory on disk
          event,       \* paths with an undelivered inotify event
          main,        \* "loop", "deinit", "torn" (pool gone) or
                       \* "undefined" (after undefined behaviour)
          ops          \* calls so far, for the bound only

vars == <<dir, cache, timers, loads, check, checking, queue, lua, disk, event,
          main, ops>>

\* A Dir.  files is the cookie of the load whose files it holds, version what
\* those files show of the disk, fileinfo the load whose fileinfo they got.
\* The cache holds the first reference.
NewDir(p) == [alloc |-> "live", path |-> p, refs |-> 1, status |-> "delayed", cookie |-> 0,
           files |-> 0, version |-> 0, fileinfo |-> 0, is_scheduled |-> FALSE,
           next_requested |-> FALSE, in_progress |-> FALSE, is_disowned |-> FALSE]

IdleCheck == [stage |-> "idle", dir |-> None, seen |-> 0, reload |-> FALSE,
              cancelled |-> FALSE]

Live == {o \in Dirs : dir[o].alloc = "live"}
Fresh == {o \in Dirs : dir[o].alloc = "unused"}
stop == main # "loop"

CacheRefs(o) == Cardinality({p \in Paths : cache[p] = o})
LuaRefs(o) == Cardinality(lua \cap {o})

\* dir_inc_ref, dir_dec_ref: the last reference frees the Dir
IncRef(d, n) == [d EXCEPT !.refs = @ + n]
DecRef(d, n) == [d EXCEPT !.refs = @ - n,
                          !.alloc = IF d.refs = n THEN "freed" ELSE @]

-----------------------------------------------------------------------------
(* Starting a load *)

\* mutant: the load counts one reference only
AsyncDirLoadOneRef(d, load_fileinfo) ==
  [IncRef(d, 1) EXCEPT
     !.cookie = @ + 1,
     !.status = IF @ = "delayed" THEN "scheduled" ELSE @]

\* mutant: the extra reference is counted although fileinfo comes along
AsyncDirLoadTwoRefs(d, load_fileinfo) ==
  [IncRef(d, 2) EXCEPT
     !.cookie = @ + 1,
     !.status = IF @ = "delayed" THEN "scheduled" ELSE @]

\* async_dir_load: what it does to the Dir ...
AsyncDirLoad(d, load_fileinfo) ==
  [IncRef(d, IF load_fileinfo THEN 1 ELSE 2) EXCEPT
     !.cookie = @ + 1,
     !.status = IF @ = "delayed" THEN "scheduled" ELSE @]

\* ... and the work it submits
LoadWork(o, d, load_fileinfo) ==
  [dir |-> o, cookie |-> AsyncDirLoad(d, load_fileinfo).cookie,
   load_fileinfo |-> load_fileinfo, stage |-> "queued", version |-> 0,
   empty |-> FALSE, batches |-> 0, seen |-> 0]

\* load_dir decides from the status whether fileinfo is loaded right away
WithFileinfo(d) == d.status # "delayed"

\* load
Load(d) == [AsyncDirLoad(d, WithFileinfo(d)) EXCEPT !.next_requested = FALSE,
                                                    !.in_progress = TRUE]

\* schedule, for a Dir that has no timer yet
Schedule(d) == [d EXCEPT !.is_scheduled = TRUE, !.next_requested = FALSE]

Blocked(d) == d.is_disowned \/ d.is_scheduled \/ d.next_requested

\* mutant: a reload requested during a load is forgotten
LoaderDirReloadForgetting(d) ==
  IF Blocked(d) \/ d.in_progress THEN d ELSE Schedule(d)

\* mutant: the timer is set although a load is in progress
LoaderDirReloadEager(d) ==
  IF d.is_disowned \/ d.is_scheduled THEN d
  ELSE [Schedule(d) EXCEPT !.next_requested = d.in_progress]

\* loader_dir_reload and loader_reload
LoaderDirReload(d) == IF Blocked(d) THEN d
                      ELSE IF d.in_progress
                      THEN [d EXCEPT !.next_requested = TRUE]
                      ELSE Schedule(d)

\* the timers after a Dir o has become d
TimersWith(o, d) == IF d.is_scheduled THEN timers \cup {o} ELSE timers

\* async_dir_check
AsyncDirCheck(k, o) ==
  /\ check[k].stage = "idle"
  /\ check' = [check EXCEPT ![k] = [IdleCheck EXCEPT !.stage = "queued",
                                      !.dir = o, !.seen = dir[o].version]]
  /\ dir' = [dir EXCEPT ![o] = IncRef(@, 1)]
  /\ checking' = checking \cup {k}

-----------------------------------------------------------------------------
(* The event loop thread: calls of the file manager and of Lua *)

Op == main = "loop" /\ ops < MaxOps /\ ops' = ops + 1

StartLoad(o, load_fileinfo) ==
  /\ dir' = [dir EXCEPT ![o] = AsyncDirLoad(@, load_fileinfo)]
  /\ loads' = loads \cup {LoadWork(o, dir[o], load_fileinfo)}

\* loader_dir_from_path for a path that is not in the cache
FromPathNew(p, do_load) ==
  /\ Op
  /\ cache[p] = None
  /\ \E o \in Fresh :
       /\ cache' = [cache EXCEPT ![p] = o]
       /\ dir' = [dir EXCEPT ![o] = IF do_load
                    THEN AsyncDirLoad(NewDir(p), FALSE)
                    ELSE NewDir(p)]
       /\ loads' = IF do_load THEN loads \cup {LoadWork(o, NewDir(p), FALSE)}
                              ELSE loads
  /\ UNCHANGED <<timers, check, checking, queue, lua, disk, event, main>>

\* loader_dir_from_path with do_load for a cached path; fm_update_preview does
\* the same to a Dir it is going to preview, but checks a scheduled one too
FromPathCached(p, preview) ==
  /\ Op
  /\ cache[p] # None
  /\ LET o == cache[p]
     IN  \/ /\ dir[o].status = "delayed"
            /\ StartLoad(o, FALSE)
            /\ UNCHANGED <<check, checking>>
         \/ /\ dir[o].status = "loaded" \/ (preview /\ dir[o].status = "scheduled")
            /\ \E k \in Checks : AsyncDirCheck(k, o)
            /\ UNCHANGED loads
  /\ UNCHANGED <<cache, timers, queue, lua, disk, event, main>>

\* fm_reload (with fileinfo), l_set_flatten_level (without when flattening)
Reload(p, load_fileinfo) ==
  /\ Op
  /\ cache[p] # None
  /\ StartLoad(cache[p], load_fileinfo)
  /\ UNCHANGED <<cache, timers, check, checking, queue, lua, disk, event, main>>

\* fm_drop_cache: async_dir_cancel, loader_drop_dir_cache, fm_populate
DropCache ==
  /\ Op
  /\ \E new \in [Shown -> Fresh] :
       /\ \A p, q \in Shown : new[p] = new[q] => p = q
       /\ cache' = [p \in Paths |-> IF p \in Shown THEN new[p] ELSE None]
       /\ dir' = [o \in Dirs |->
            IF \E p \in Shown : new[p] = o
            THEN AsyncDirLoad(NewDir(CHOOSE p \in Shown : new[p] = o), FALSE)
            ELSE IF \E p \in Paths : cache[p] = o
            THEN DecRef([dir[o] EXCEPT !.is_disowned = TRUE], 1)
            ELSE dir[o]]
       /\ loads' = loads \cup {LoadWork(new[p], NewDir(p), FALSE) : p \in Shown}
  /\ timers' = {o \in timers : \A p \in Paths : cache[p] # o}
  /\ check' = [k \in Checks |-> [check[k] EXCEPT !.cancelled = @ \/ k \in checking]]
  /\ checking' = {}
  /\ UNCHANGED <<queue, lua, disk, event, main>>

\* pushdir; a Dir that Lua already refers to may be pushed again, which adds
\* nothing new
LuaPush(p) ==
  /\ Op
  /\ cache[p] # None /\ cache[p] \notin lua
  /\ lua' = lua \cup {cache[p]}
  /\ dir' = [dir EXCEPT ![cache[p]] = IncRef(@, 1)]
  /\ UNCHANGED <<cache, timers, loads, check, checking, queue, disk, event, main>>

\* l_dir__gc
LuaGc(o) ==
  /\ main = "loop"
  /\ o \in lua
  /\ lua' = lua \ {o}
  /\ dir' = [dir EXCEPT ![o] = DecRef(@, 1)]
  /\ UNCHANGED <<cache, timers, loads, check, checking, queue, disk, event, main,
                 ops>>

-----------------------------------------------------------------------------
(* The event loop thread: watchers of libev *)

\* inotify_cb calls loader_dir_reload for the watched Dir of the path
InotifyEvent(p) ==
  /\ main = "loop"
  /\ p \in event
  /\ event' = event \ {p}
  /\ LET o == cache[p]
     IN  IF o = None THEN UNCHANGED <<dir, timers>>
         ELSE /\ dir' = [dir EXCEPT ![o] = LoaderDirReload(@)]
              /\ timers' = TimersWith(o, LoaderDirReload(dir[o]))
  /\ UNCHANGED <<cache, loads, check, checking, queue, lua, disk, main, ops>>

\* load_timer_cb; a timer whose Dir is gone makes it write to freed memory
TimerFires(o) ==
  /\ main = "loop"
  /\ o \in timers
  /\ timers' = timers \ {o}
  /\ IF o \in Live
     THEN /\ dir' = [dir EXCEPT ![o] = Load([@ EXCEPT !.is_scheduled = FALSE])]
          /\ loads' = loads \cup {LoadWork(o, dir[o], WithFileinfo(dir[o]))}
          /\ UNCHANGED main
     ELSE main' = "undefined" /\ UNCHANGED <<dir, loads>>
  /\ UNCHANGED <<cache, check, checking, queue, lua, disk, event, ops>>

\* dir_update_with
UpdateWith(d, r) ==
  [d EXCEPT !.files = r.cookie, !.version = r.version, !.status = "loaded",
            !.fileinfo = IF r.load_fileinfo THEN r.cookie ELSE 0]

\* mutant: every update is applied
UpdateCallbackAlways(r) ==
  /\ dir' = [dir EXCEPT ![r.dir] = DecRef(UpdateWith(
                 [@ EXCEPT !.in_progress = FALSE], r), 1)]
  /\ UNCHANGED <<timers, loads>>

\* mutant: loader_callback only clears in_progress
UpdateCallbackNoReload(r) ==
  LET d == dir[r.dir]
  IN  /\ dir' = [dir EXCEPT ![r.dir] =
                   DecRef(IF d.cookie = r.cookie
                          THEN UpdateWith([d EXCEPT !.in_progress = FALSE,
                                                    !.next_requested = FALSE], r)
                          ELSE d, 1)]
      /\ UNCHANGED <<timers, loads>>

\* dir_update_callback with loader_callback, then dir_update_destroy
UpdateCallback(r) ==
  LET o == r.dir
      d == [dir[o] EXCEPT !.in_progress = FALSE]
  IN  \/ /\ dir[o].cookie # r.cookie
         /\ dir' = [dir EXCEPT ![o] = DecRef(@, 1)]
         /\ UNCHANGED <<timers, loads>>
      \/ /\ d.cookie = r.cookie /\ ~d.next_requested
         /\ dir' = [dir EXCEPT ![o] = DecRef(UpdateWith(d, r), 1)]
         /\ UNCHANGED <<timers, loads>>
      \* next_requested has passed: load immediately
      \/ /\ d.cookie = r.cookie /\ d.next_requested
         /\ dir' = [dir EXCEPT ![o] = DecRef(UpdateWith(Load(d), r), 1)]
         /\ loads' = loads \cup {LoadWork(o, d, WithFileinfo(d))}
         /\ UNCHANGED timers
      \* it has not: set a timer
      \/ /\ d.cookie = r.cookie /\ d.next_requested
         /\ dir' = [dir EXCEPT ![o] = DecRef(UpdateWith(Schedule(d), r), 1)]
         /\ timers' = timers \cup {o}
         /\ UNCHANGED loads

\* mutant: late fileinfo is always applied
FileinfoCallbackAlways(r) ==
  LET updated == [dir[r.dir] EXCEPT !.fileinfo = r.files]
  IN  /\ dir' = [dir EXCEPT ![r.dir] = IF r.is_last_batch THEN DecRef(updated, 1)
                                                         ELSE updated]
      /\ UNCHANGED <<timers, loads>>

\* fileinfo_callback, then fileinfo_result_destroy.  r.files names the load
\* whose File structs the batch points into.
FileinfoCallback(r) ==
  LET d == dir[r.dir]
      updated == IF d.cookie = r.cookie THEN [d EXCEPT !.fileinfo = r.files] ELSE d
  IN  /\ dir' = [dir EXCEPT ![r.dir] = IF r.is_last_batch THEN DecRef(updated, 1)
                                                         ELSE updated]
      /\ UNCHANGED <<timers, loads>>

\* callback of dir_check.c unless the check is cancelled, then destroy
CheckCallback(r) ==
  LET c == check[r.check]
      d == IF c.reload /\ ~c.cancelled THEN LoaderDirReload(dir[c.dir])
                                       ELSE dir[c.dir]
  IN  /\ dir' = [dir EXCEPT ![c.dir] = DecRef(d, 1)]
      /\ timers' = TimersWith(c.dir, d)
      /\ check' = [check EXCEPT ![r.check] = IdleCheck]
      /\ checking' = checking \ {r.check}

\* one turn of async_result_cb, on a result of this kind
Dispatch(kind) ==
  /\ main = "loop" /\ queue # <<>>
  /\ Head(queue).kind = kind
  /\ queue' = Tail(queue)
  /\ UNCHANGED <<cache, lua, disk, event, main, ops>>

HandleUpdate == /\ Dispatch("update") /\ UpdateCallback(Head(queue))
                /\ UNCHANGED <<check, checking>>
HandleFileinfo == /\ Dispatch("fileinfo") /\ FileinfoCallback(Head(queue))
                  /\ UNCHANGED <<check, checking>>
HandleCheck == Dispatch("check") /\ CheckCallback(Head(queue)) /\ UNCHANGED loads

-----------------------------------------------------------------------------
(* Shutdown: lfm_deinit *)

\* lfm_lua_deinit and loader_ctx_deinit, then async_ctx_deinit sets stop
Deinit ==
  /\ main = "loop" /\ MayExit
  /\ main' = "deinit"
  /\ dir' = [o \in Dirs |->
       LET held == CacheRefs(o) + LuaRefs(o)
       IN  IF held = 0 THEN dir[o] ELSE DecRef(dir[o], held)]
  /\ cache' = [p \in Paths |-> None]
  /\ lua' = {}
  /\ timers' = {}
  /\ checking' = {}
  /\ UNCHANGED <<loads, check, queue, disk, event, ops>>

\* tpool_wait returned and tpool_destroy dropped what was never started
PoolTeardown ==
  /\ main = "deinit"
  /\ \A l \in loads : l.stage = "queued"
  /\ main' = "torn"
  /\ loads' = {[l EXCEPT !.stage = "dropped"] : l \in loads}
  /\ check' = [k \in Checks |-> IF check[k].stage = "queued"
                                THEN [check[k] EXCEPT !.stage = "dropped"]
                                ELSE check[k]]
  /\ UNCHANGED <<dir, cache, timers, checking, queue, lua, disk, event, ops>>

\* the destructor of each result left in the queue
DrainResult ==
  /\ main = "torn" /\ queue # <<>>
  /\ LET r == Head(queue)
         o == IF r.kind = "check" THEN check[r.check].dir ELSE r.dir
         held == r.kind = "fileinfo" => r.is_last_batch
     IN  /\ dir' = IF held THEN [dir EXCEPT ![o] = DecRef(@, 1)] ELSE dir
         /\ check' = IF r.kind = "check"
                     THEN [check EXCEPT ![r.check] = IdleCheck] ELSE check
  /\ queue' = Tail(queue)
  /\ UNCHANGED <<cache, timers, loads, checking, lua, disk, event, main, ops>>

-----------------------------------------------------------------------------
(* Workers *)

WorkersOnly == /\ main \in {"loop", "deinit"}
               /\ UNCHANGED <<cache, timers, checking, lua, disk, event, ops>>

\* dir_load: read the directory; empty if it has no files
LoadRead(l) ==
  /\ l.stage = "queued"
  /\ \E empty \in BOOLEAN :
       loads' = (loads \ {l}) \cup {[l EXCEPT !.stage = "read", !.empty = empty,
                                       !.version = disk[dir[l.dir].path]]}
  /\ UNCHANGED <<dir, check, queue, main>> /\ WorkersOnly

\* The rest of async_dir_load_worker, which reads load_fileinfo, dir and cookie
\* from the work struct: s is what load l has become, cookie what it reads.
LastLook(l, s, cookie) ==
  /\ loads' = (loads \ {l}) \cup
       IF s.load_fileinfo \/ s.empty THEN {}
       ELSE {[s EXCEPT !.stage = "info", !.seen = cookie]}
  /\ dir' = IF ~s.load_fileinfo /\ s.empty
            THEN [dir EXCEPT ![s.dir] = DecRef(@, 1)] ELSE dir

\* submit_async_result, with the test of the stop flag that comes before it
LoadSubmit(l) ==
  /\ l.stage = "read"
  /\ LET s == [l EXCEPT !.stage = "submitted", !.empty = @ \/ stop]
     IN  IF Prompt THEN LastLook(l, s, s.cookie)
         ELSE loads' = (loads \ {l}) \cup {s} /\ UNCHANGED dir
  /\ queue' = Append(queue, [kind |-> "update", dir |-> l.dir,
                cookie |-> l.cookie, version |-> l.version,
                load_fileinfo |-> l.load_fileinfo])
  /\ UNCHANGED <<check, main>> /\ WorkersOnly

\* the update of this load was handled, and its work struct freed
WorkFreed(l) ==
  \A i \in DOMAIN queue : queue[i].kind = "update" =>
    queue[i].dir # l.dir \/ queue[i].cookie # l.cookie

LoadAfterSubmit(l) ==
  /\ l.stage = "submitted"
  \* a freed struct holds the cookie still, or that of a newer load ...
  /\ \/ /\ \E c \in {l.cookie} \cup (IF WorkFreed(l) THEN {dir[l.dir].cookie}
                                                     ELSE {}) : LastLook(l, l, c)
        /\ UNCHANGED main
     \* ... or a garbage load_fileinfo or dir
     \/ /\ WorkFreed(l)
        /\ main' = "undefined"
        /\ UNCHANGED <<dir, loads>>
  /\ UNCHANGED <<check, queue>> /\ WorkersOnly

FileinfoResult(l, last) ==
  [kind |-> "fileinfo", dir |-> l.dir, cookie |-> l.seen, files |-> l.cookie,
   is_last_batch |-> last]

\* async_load_fileinfo: a batch every 100ms unless stop is set, and a last one
LoadFileinfo(l) ==
  /\ l.stage = "info" /\ l.batches < MaxBatches /\ ~stop
  /\ loads' = (loads \ {l}) \cup {[l EXCEPT !.batches = @ + 1]}
  /\ queue' = Append(queue, FileinfoResult(l, FALSE))
  /\ UNCHANGED <<dir, check, main>> /\ WorkersOnly

LoadLastFileinfo(l) ==
  /\ l.stage = "info"
  /\ loads' = loads \ {l}
  /\ queue' = Append(queue, FileinfoResult(l, TRUE))
  /\ UNCHANGED <<dir, check, main>> /\ WorkersOnly

\* worker of dir_check.c: reload if stat shows a later mtime; an mtime counts
\* seconds and stat may fail, so a change may go unnoticed
CheckRun(k) ==
  /\ check[k].stage = "queued"
  /\ \E reload \in BOOLEAN :
       /\ reload => disk[dir[check[k].dir].path] # check[k].seen
       /\ check' = [check EXCEPT ![k].stage = "done", ![k].reload = reload]
  /\ queue' = Append(queue, [kind |-> "check", check |-> k])
  /\ UNCHANGED <<dir, loads, main>> /\ WorkersOnly

-----------------------------------------------------------------------------
\* another process changes a directory; its inotify event is underway
DiskChanges(p) ==
  /\ main = "loop" /\ disk[p] < MaxVersion
  /\ disk' = [disk EXCEPT ![p] = @ + 1]
  /\ event' = event \cup {p}
  /\ UNCHANGED <<dir, cache, timers, loads, check, checking, queue, lua, main, ops>>

Init == /\ dir = [o \in Dirs |-> [NewDir(None) EXCEPT !.alloc = "unused", !.refs = 0]]
        /\ cache = [p \in Paths |-> None]
        /\ timers = {}
        /\ loads = {}
        /\ check = [k \in Checks |-> IdleCheck]
        /\ checking = {}
        /\ queue = <<>>
        /\ lua = {}
        /\ disk = [p \in Paths |-> 1]
        /\ event = {}
        /\ main = "loop"
        /\ ops = 0

Calls == \/ \E p \in Paths, b \in BOOLEAN :
              FromPathNew(p, b) \/ FromPathCached(p, b) \/ Reload(p, b)
         \/ \E p \in Paths : LuaPush(p)
         \/ DropCache
LuaCollects == \E o \in Dirs : LuaGc(o)
LooksAtWork == \E l \in loads : LoadAfterSubmit(l)
Worker == \/ \E l \in loads : \/ LoadRead(l) \/ LoadSubmit(l)
                              \/ LoadFileinfo(l) \/ LoadLastFileinfo(l)
          \/ \E k \in Checks : CheckRun(k)
HandleResult == HandleUpdate \/ HandleFileinfo \/ HandleCheck
Timers == \E o \in Dirs : TimerFires(o)
Events == \E p \in Paths : InotifyEvent(p)

\* nothing is left to do but to wait for the user, or the process is gone
Settled == /\ \/ /\ main = "loop"
                 /\ loads = {} /\ queue = <<>> /\ timers = {} /\ event = {}
              \/ main = "torn" /\ queue = <<>>
              \/ main = "undefined"
           /\ UNCHANGED vars

Next == \/ Calls \/ LuaCollects \/ Worker \/ LooksAtWork \/ Timers \/ Events
        \/ HandleResult \/ Deinit \/ PoolTeardown \/ DrainResult
        \/ \E p \in Paths : DiskChanges(p)
        \/ Settled

Spec == Init /\ [][Next]_vars

\* Workers run, timers fire, and the loop handles events and results; calls,
\* disk changes and the shutdown are nobody's duty.
FairSpec == /\ Spec
            /\ WF_vars(LooksAtWork)
            /\ WF_vars(Worker)
            /\ WF_vars(Timers)
            /\ WF_vars(Events)
            /\ WF_vars(HandleResult)

-----------------------------------------------------------------------------
Status == {"delayed", "scheduled", "loaded"}
DirRec == [alloc : {"unused", "live", "freed"}, path : Paths \cup {None},
           refs : Nat, status : Status, cookie : Nat, files : Nat, version : Nat,
           fileinfo : Nat, is_scheduled : BOOLEAN, next_requested : BOOLEAN,
           in_progress : BOOLEAN, is_disowned : BOOLEAN]
LoadRec == [dir : Dirs, cookie : Nat, load_fileinfo : BOOLEAN, version : Nat,
            empty : BOOLEAN, batches : Nat, seen : Nat,
            stage : {"queued", "read", "submitted", "info", "dropped"}]
CheckRec == [stage : {"idle", "queued", "done", "dropped"},
             dir : Dirs \cup {None}, seen : Nat, reload : BOOLEAN,
             cancelled : BOOLEAN]
Result == [kind : {"update"}, dir : Dirs, cookie : Nat, version : Nat,
           load_fileinfo : BOOLEAN]
          \cup [kind : {"fileinfo"}, dir : Dirs, cookie : Nat, files : Nat,
                is_last_batch : BOOLEAN]
          \cup [kind : {"check"}, check : Checks]

TypeOK == /\ dir \in [Dirs -> DirRec]
          /\ cache \in [Paths -> Dirs \cup {None}]
          /\ timers \subseteq Dirs
          /\ loads \subseteq LoadRec
          /\ check \in [Checks -> CheckRec]
          /\ checking \subseteq Checks
          /\ queue \in Seq(Result)
          /\ lua \subseteq Dirs
          /\ disk \in [Paths -> Nat]
          /\ event \subseteq Paths
          /\ main \in {"loop", "deinit", "torn", "undefined"}
          /\ ops \in Nat

\* who is counted by dir_inc_ref: the cache, Lua, each load until its update is
\* destroyed, each delayed-fileinfo load until its last batch is, each check
Holders(o) ==
  CacheRefs(o) + LuaRefs(o)
  + Cardinality({l \in loads : l.dir = o /\ l.stage \in {"queued", "read", "dropped"}})
  + Cardinality({i \in DOMAIN queue : queue[i].kind = "update" /\ queue[i].dir = o})
  + Cardinality({l \in loads : l.dir = o /\ ~l.load_fileinfo})
  + Cardinality({i \in DOMAIN queue : /\ queue[i].kind = "fileinfo"
                                      /\ queue[i].dir = o /\ queue[i].is_last_batch})
  + Cardinality({k \in Checks : check[k].dir = o})

\* Every Dir lives exactly as long as somebody holds it, and its count is the
\* number of its holders: nothing is freed under a worker, a queued result, the
\* cache or Lua, and nothing leaks, across cache drops and the shutdown.
RefcountExact ==
  main # "undefined" =>
    \A o \in Dirs : /\ dir[o].refs = Holders(o)
                    /\ o \in Live <=> dir[o].refs > 0

\* Late fileinfo is only ever written into the File structs it was computed
\* for, which are freed when the next update is applied.
FileinfoMatchesFiles == \A o \in Dirs : dir[o].fileinfo \in {0, dir[o].files}

\* in_progress is set only while a load is on its way whose callback will clear
\* it; otherwise no reload of the Dir could ever be scheduled again.
InProgressBacked ==
  main = "loop" =>
    \A o \in Live : dir[o].in_progress =>
      \/ \E l \in loads : /\ l.dir = o /\ l.cookie = dir[o].cookie
                          /\ l.stage \in {"queued", "read"}
      \/ \E i \in DOMAIN queue : /\ queue[i].kind = "update" /\ queue[i].dir = o
                                 /\ queue[i].cookie = dir[o].cookie

\* A Dir has at most one reload ahead of it: a timer (the key loader.c asserts
\* to be absent), or a request that waits for the load in progress, not both.
OneReloadAhead ==
  main = "loop" =>
    \A o \in Live : /\ o \in timers => dir[o].is_scheduled
                    /\ dir[o].is_scheduled => o \in timers \/ dir[o].is_disowned
                    /\ dir[o].next_requested => dir[o].in_progress
                    /\ ~(dir[o].is_scheduled /\ dir[o].in_progress)

\* The listing shown for a directory never goes back in time, although loads
\* overlap and finish in any order.
NeverOlder == [][\A o \in Dirs : dir'[o].version >= dir[o].version]_vars

\* Once the inotify event of a change was delivered, the listing cached for the
\* directory eventually shows that change, whatever loads were in progress,
\* superseded or dropped meanwhile.
ChangeIsShown ==
  \A p \in Paths : \A v \in 2 .. MaxVersion :
    (/\ main = "loop" /\ cache[p] # None /\ dir[cache[p]].status # "delayed"
     /\ disk[p] = v /\ p \notin event)
      ~> \/ main # "loop" \/ cache[p] = None
         \/ dir[cache[p]].status = "delayed" \/ dir[cache[p]].version >= v

\* A Dir that was dropped from the cache is eventually freed unless Lua keeps it.
DroppedIsFreed ==
  \A o \in Dirs : dir[o].is_disowned
                    ~> (dir[o].alloc = "freed" \/ o \in lua \/ main # "loop")

\* dir.h:39-42: whoever may still use a Dir is counted.  Timers are not.
TimersAreLive == main = "loop" => timers \subseteq Live

\* dir_load.c:297 copies what the worker needs after handing in the update,
\* "because the main thread can invalidate the work struct".
WorkNotReadAfterFree ==
  main = "loop" => \A l \in loads : l.stage = "submitted" => ~WorkFreed(l)

\* What the loader holds of a Dir agrees with what is underway for it: its references,
\* and in_progress, which keeps it from being loaded again.
LoadsAccountedFor == TypeOK /\ RefcountExact /\ InProgressBacked
=============================================================================
