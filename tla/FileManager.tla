----------------------------- MODULE FileManager -----------------------------
(***************************************************************************)
(* The file manager (fm.c) with asynchronous changes of directory          *)
(* (async/chdir.c) and the inotify watchers (inotify.c, async/inotify.c),  *)
(* as Lua drives them (lua/fmlib.c, lua/dir.c).                            *)
(*                                                                         *)
(* pwd is where the file manager says it is; cwd is where the process is.  *)
(* They differ while a thread opens the directory to change to.  A result  *)
(* that was cancelled does nothing, so that cancelled work is simply       *)
(* removed here.  Loading is only the moment at which it is done: what it  *)
(* does to a directory is in DirLoader and DirView.                        *)
(***************************************************************************)
EXTENDS Integers, Sequences, FiniteSets, SequencesExt, Functions

CONSTANTS Dirs,       \* absolute paths of directories
          Root,
          Up,         \* path_parent of each but Root
          File,       \* stands for any file of a directory that is not one itself
          Inode,      \* of each directory; two paths may lead to one
          Unwatched,  \* paths under inotify_blacklist
          NoEntry,    \* directories that may be read but not entered
          Columns,    \* length of the option ratios
          MaxCalls,   \* bound: calls from Lua
          None

ChdirWork == [dest : Dirs, origin : Dirs, opened : {"no", "yes", "failed"}]

\* Every way up ends at Root.
TreeAssumption ==
  /\ Root \in Dirs /\ Up \in [Dirs \ {Root} -> Dirs]
  /\ \A D \in SUBSET (Dirs \ {Root}) : D # {} => \E d \in D : Up[d] \notin D
  /\ None \notin Dirs \cup {File} \cup ChdirWork /\ File \notin Dirs
ColumnsAssumption == Columns \in Nat \ {0}

VARIABLES
  exists,     \* directories on disk
  fm,         \* pwd, automark, visible, preview; and cfg.preview
  cwd,        \* where the process is
  loaded,     \* cached directories that were loaded
  loading,    \* directories for which a load or a check is underway
  cursor,     \* entry that each directory has, or will have, its cursor on
  shown,      \* directories with ui.visible
  wds,        \* inotify_ctx.wds: watch of a directory
  byWd,       \* inotify_ctx.dirs: directory of a watch
  kernel,     \* watches of the kernel; those of an inode go by its name
  chdir,      \* work of async_chdir that was not cancelled, or None
  adds,       \* work of async_inotify_add, by directory
  addPreview, \* that of async_inotify_add_previewed, or None
  resting,    \* cursor_resting_timer is active
  calls,
  \* Ghosts
  overtaken,  \* a synchronous change passed the asynchronous one underway
  returned    \* a change failed and nothing was moved since

vars == <<exists, fm, cwd, loaded, loading, cursor, shown, wds, byWd, kernel,
          chdir, adds, addPreview, resting, calls, overtaken, returned>>

Current == fm.visible[1]
Content(d) == {e \in exists \ {Root} : Up[e] = d} \cup {File}
\* dir_current_file
CurrentFile(d) == IF d \in loaded THEN cursor[d] ELSE None

-----------------------------------------------------------------------------
(* Watchers *)

\* inotify_ctx, and what the kernel has of it
Watches == [wds |-> wds, byWd |-> byWd, kernel |-> kernel]

\* The watchers of w without that of d: inotify_remove_watcher
Removed(w, d) ==
  IF d \notin DOMAIN w.wds THEN w
  ELSE LET wd == w.wds[d]
       IN [wds |-> Restrict(w.wds, DOMAIN w.wds \ {d}),
           byWd |-> Restrict(w.byWd, DOMAIN w.byWd \ {wd}),
           kernel |-> w.kernel \ {wd}]

\* inotify_add_watcher; an insertion into byWd does not replace what is there.
Added(w, d) ==
  IF d \in Unwatched \cup DOMAIN w.wds \/ d \notin exists THEN w
  ELSE LET wd == Inode[d]
       IN [wds |-> [x \in DOMAIN w.wds \cup {d} |-> IF x = d THEN wd ELSE w.wds[x]],
           byWd |-> [x \in DOMAIN w.byWd \cup {wd} |->
                       IF x \in DOMAIN w.byWd THEN w.byWd[x] ELSE d],
           kernel |-> w.kernel \cup {wd}]

SetWatches(w) == wds' = w.wds /\ byWd' = w.byWd /\ kernel' = w.kernel

\* inotify_cb: the directories that are reloaded upon an event of an inode
Reloaded(i) == IF i \in kernel /\ i \in DOMAIN byWd THEN {byWd[i]} ELSE {}

-----------------------------------------------------------------------------
(* Previews of directories *)

\* The state of the file manager that a preview changes
View == [preview |-> fm.preview, shown |-> shown, watches |-> Watches,
         add |-> addPreview, loading |-> loading]

\* fm_remove_preview
RemovePreview(v) ==
  IF v.preview = None THEN v
  ELSE [v EXCEPT !.preview = None, !.shown = @ \ {v.preview},
                 !.watches = Removed(@, v.preview)]

\* Mutant: a preview that is there is kept.
UpdatePreviewOnce(v, file) ==
  IF ~fm.on \/ file \notin Dirs THEN RemovePreview(v)
  ELSE IF v.preview # None THEN v
  ELSE [v EXCEPT !.preview = file, !.shown = @ \cup {file},
                 !.add = file,
                 !.loading = @ \cup {file}]

\* fm_update_preview, when the cursor is on file
UpdatePreview(v, file) ==
  IF ~fm.on \/ file \notin Dirs THEN RemovePreview(v)
  ELSE [v EXCEPT !.preview = file, !.shown = @ \cup {file},
                 !.add = IF v.preview = file THEN @ ELSE file,
                 !.loading = IF v.preview = file /\ file \in loaded THEN @ ELSE @ \cup {file}]

\* Of v, what is not in fm is assigned.
SetView(v) == /\ shown' = v.shown /\ SetWatches(v.watches)
              /\ addPreview' = v.add /\ loading' = v.loading

\* ui_on_cursor_moved, as far as it is about directories: on_cursor_resting runs at
\* once, or after a delay.  file is what the cursor is on after the call.
CursorMoved(immediate, v, f, file) ==
  IF ~fm.on THEN SetView(v) /\ fm' = f /\ UNCHANGED <<resting, returned>>
  ELSE \/ /\ LET u == UpdatePreview(v, file)
             IN SetView(u) /\ fm' = [f EXCEPT !.preview = u.preview]
          /\ resting' = FALSE /\ returned' = FALSE
       \/ ~immediate /\ resting' = TRUE /\ returned' = FALSE /\ SetView(v) /\ fm' = f

-----------------------------------------------------------------------------
(* Visible directories *)

MaxVisible(on) == IF Columns > 1 /\ on THEN Columns - 1 ELSE Columns

\* fm_populate: of each path, it and its ancestors, as many as there are columns
Further(above) == [d \in Dirs |-> IF d = Root THEN <<d>> ELSE <<d>> \o above[Up[d]]]
Ancestors[n \in Nat] == IF n = 0 THEN [d \in Dirs |-> <<>>] ELSE Further(Ancestors[n - 1])
Columned(d, on) == Ancestors[MaxVisible(on)][d]

\* An ancestor that is not loaded gets its cursor on the directory below it.
Pointed(visible, c) ==
  [d \in Dirs |-> IF d \in loaded \/ ~\E i \in 2..Len(visible) : visible[i] = d THEN c[d]
                  ELSE visible[(CHOOSE i \in 2..Len(visible) : visible[i] = d) - 1]]

\* fm_populate and fm_update_watchers: the visible directories are those of path; all
\* are loaded or checked; the watchers are replaced.
Populated(path, on, v) ==
  LET visible == Columned(path, on)
  IN [v EXCEPT !.preview = None, !.shown = (@ \ Range(fm.visible)) \cup Range(visible),
               !.watches = [wds |-> <<>>, byWd |-> <<>>, kernel |-> {}],
               !.add = None, !.loading = @ \cup Range(visible)]
\* Mutant: only those are watched again that were not.
AddVisibleNew(path, on) == adds' = Range(Columned(path, on)) \ DOMAIN wds

AddVisible(path, on) == adds' = Range(Columned(path, on))

\* fm_chdir_impl behind the change itself: what becomes of fm and the rest
Moved(path, save) ==
  [fm EXCEPT !.pwd = path, !.visible = Columned(path, fm.on), !.preview = None,
             !.automark = IF save THEN (IF Current \in exists THEN Current ELSE None) ELSE @]

-----------------------------------------------------------------------------
Init ==
  /\ exists = Dirs
  /\ \E d \in Dirs \ NoEntry :
       /\ fm = [pwd |-> d, automark |-> None, visible |-> Columned(d, TRUE),
                preview |-> None, on |-> TRUE]
       /\ cwd = d
  /\ loaded = {} /\ loading = Range(fm.visible)
  /\ cursor = Pointed(fm.visible, [d \in Dirs |-> None])
  /\ shown = Range(fm.visible)
  /\ wds = <<>> /\ byWd = <<>> /\ kernel = {}
  /\ chdir = None /\ adds = Range(fm.visible) /\ addPreview = None
  /\ resting = FALSE /\ calls = 0
  /\ overtaken = FALSE /\ returned = FALSE

Call == calls < MaxCalls /\ calls' = calls + 1

\* Going to path, where the entry of its cursor becomes that of c: the preview
\* follows, as ui_on_cursor_moved is called
Go(path, save, c) ==
  /\ LET v == Populated(path, fm.on, RemovePreview(View))
     IN CursorMoved(TRUE, v, Moved(path, save),
                    IF path \in loaded THEN c[path] ELSE None)
  /\ AddVisible(path, fm.on)
  /\ cursor' = Pointed(Columned(path, fm.on), c)

\* Mutant: work underway is not cancelled, and the first to come wins.
BeginBehind(path) ==
  /\ chdir' = IF chdir # None THEN chdir
              ELSE [dest |-> path, origin |-> fm.pwd, opened |-> "no"]
  /\ overtaken' = FALSE /\ UNCHANGED cwd

\* async_chdir: work underway is cancelled
Begin(path) == /\ chdir' = [dest |-> path, origin |-> fm.pwd, opened |-> "no"]
               /\ overtaken' = FALSE /\ UNCHANGED cwd

\* l_chdir, without force_sync
AsyncChdir(path, save) == /\ Call /\ Begin(path) /\ Go(path, save, cursor)
                          /\ UNCHANGED <<exists, loaded>>

\* l_chdir with force_sync, or while a macro is played; what fails is only reported.
SyncChdir(path, save) ==
  /\ Call
  /\ path \in exists \ NoEntry
  /\ cwd' = path /\ overtaken' = (chdir # None)
  /\ Go(path, save, cursor)
  /\ UNCHANGED <<exists, loaded, chdir>>

\* l_jump_automark
JumpAutomark == fm.automark # None /\ AsyncChdir(fm.automark, TRUE)

\* l_open, on a directory
Open == CurrentFile(Current) \in Dirs /\ AsyncChdir(CurrentFile(Current), FALSE)

\* l_updir
Updir == /\ Current # Root /\ Call /\ Begin(Up[Current])
         /\ Go(Up[Current], FALSE, [cursor EXCEPT ![Up[Current]] = Current])
         /\ UNCHANGED <<exists, loaded>>

Unmoved == UNCHANGED <<exists, cwd, chdir, adds, overtaken>>

\* l_up, l_down, l_top, l_bot, l_select, l_scroll_up, move_cursor of lua/dir.c: those
\* of the current directory update the preview, at once or when the cursor rests.
MoveCursor(d, e, immediate) ==
  /\ Call /\ d \in loaded /\ e \in Content(d) \ {cursor[d]}
  /\ cursor' = [cursor EXCEPT ![d] = e]
  /\ IF d = Current THEN CursorMoved(immediate, View, fm, e)
     ELSE UNCHANGED <<fm, loading, shown, wds, byWd, kernel, addPreview, resting, returned>>
  /\ Unmoved /\ UNCHANGED loaded

\* on_cursor_resting, called by its timer
CursorRests ==
  /\ resting /\ resting' = FALSE
  /\ LET v == UpdatePreview(View, CurrentFile(Current))
     IN SetView(v) /\ fm' = [fm EXCEPT !.preview = v.preview]
  /\ returned' = FALSE
  /\ Unmoved /\ UNCHANGED <<loaded, cursor, calls>>

\* Option preview: fm_recol
SetPreview(on) ==
  /\ Call /\ on # fm.on
  /\ LET v == Populated(fm.pwd, on, RemovePreview(View))
         u == IF on /\ CurrentFile(fm.pwd) \in Dirs
              THEN [v EXCEPT !.preview = CurrentFile(fm.pwd),
                             !.shown = @ \cup {CurrentFile(fm.pwd)},
                             !.add = CurrentFile(fm.pwd),
                             !.loading = @ \cup {CurrentFile(fm.pwd)}]
              ELSE v
     IN /\ SetView(u)
        /\ fm' = [fm EXCEPT !.on = on, !.visible = Columned(fm.pwd, on), !.preview = u.preview]
  /\ AddVisible(fm.pwd, on) /\ cursor' = Pointed(Columned(fm.pwd, on), cursor)
  /\ returned' = FALSE
  /\ UNCHANGED <<exists, cwd, loaded, chdir, resting, overtaken>>

\* l_drop_cache: every directory is loaded anew, with a new cursor
DropCache ==
  /\ Call
  /\ LET v == Populated(fm.pwd, fm.on, [RemovePreview(View) EXCEPT !.shown = {},
                                                                 !.loading = {}])
     IN SetView([v EXCEPT !.shown = Range(fm.visible)])
  /\ fm' = [fm EXCEPT !.preview = None]
  /\ loaded' = {}
  /\ cursor' = [d \in Dirs |-> IF \E i \in 2..Len(fm.visible) : fm.visible[i] = d
                              THEN fm.visible[(CHOOSE i \in 2..Len(fm.visible) :
                                                 fm.visible[i] = d) - 1]
                              ELSE None]
  /\ AddVisible(fm.pwd, fm.on) /\ resting' = FALSE /\ returned' = FALSE
  /\ UNCHANGED <<exists, cwd, chdir, overtaken>>

\* fm_reload
Reload == /\ Call /\ loading' = loading \cup Range(fm.visible)
                                 \cup ({fm.preview} \ {None})
          /\ Unmoved
          /\ UNCHANGED <<fm, loaded, cursor, shown, wds, byWd, kernel, addPreview, resting,
                         returned>>

-----------------------------------------------------------------------------
(* Threads and their results *)

\* worker of async/chdir.c
OpenDest == /\ chdir # None /\ chdir.opened = "no"
            /\ chdir' = [chdir EXCEPT !.opened = IF chdir.dest \in exists THEN "yes"
                                                 ELSE "failed"]
            /\ UNCHANGED <<exists, fm, cwd, loaded, loading, cursor, shown, wds, byWd,
                           kernel, adds, addPreview, resting, calls, overtaken, returned>>

\* callback of async/chdir.c: the process follows, or the file manager goes back to
\* where the change began, unless that is not possible either.
ChdirDone ==
  /\ chdir # None /\ chdir.opened # "no"
  /\ chdir' = None
  /\ IF chdir.opened = "yes" /\ chdir.dest \notin NoEntry
     THEN /\ cwd' = chdir.dest
          /\ UNCHANGED <<fm, loading, cursor, shown, wds, byWd, kernel, adds, addPreview,
                         returned>>
     ELSE IF chdir.origin \in exists \ NoEntry
     THEN LET path == chdir.origin
              v == Populated(path, fm.on, RemovePreview(View))
          IN /\ SetView(v) /\ fm' = Moved(path, FALSE)
             /\ AddVisible(path, fm.on)
             /\ cursor' = Pointed(Columned(path, fm.on), cursor)
             /\ cwd' = path /\ returned' = TRUE
     ELSE UNCHANGED <<fm, cwd, loading, cursor, shown, wds, byWd, kernel, adds,
                      addPreview, returned>>
  /\ UNCHANGED <<exists, loaded, resting, calls, overtaken>>

\* worker and callback of async/inotify.c: a directory that is gone for the worker is
\* still gone for its callback.
AddDone(d) ==
  /\ d \in adds /\ adds' = adds \ {d} /\ SetWatches(Added(Watches, d))
  /\ UNCHANGED <<exists, fm, cwd, loaded, loading, cursor, shown, chdir, addPreview,
                 resting, calls, overtaken, returned>>
AddPreviewDone ==
  /\ addPreview # None /\ addPreview' = None /\ SetWatches(Added(Watches, addPreview))
  /\ UNCHANGED <<exists, fm, cwd, loaded, loading, cursor, shown, chdir, adds,
                 resting, calls, overtaken, returned>>

\* dir_update_callback: the entry of the cursor is kept if it is still there.
LoadDone(d) ==
  /\ d \in loading
  /\ loaded' = loaded \cup {d}
  /\ \E e \in IF d \notin exists THEN {None}
              ELSE IF cursor[d] \in Content(d) THEN {cursor[d]} ELSE Content(d) :
       /\ cursor' = [cursor EXCEPT ![d] = e]
       /\ LET v == [View EXCEPT !.loading = @ \ {d}]
          IN IF d \in shown /\ d = Current THEN CursorMoved(TRUE, v, fm, e)
             ELSE SetView(v) /\ UNCHANGED <<fm, resting, returned>>
  /\ UNCHANGED <<exists, cwd, chdir, adds, calls, overtaken>>

\* Someone removes a directory; its watch goes with it.
Delete(d) ==
  /\ d \in exists \ {Root} /\ \A e \in exists \ {Root} : Up[e] # d
  /\ \A e \in Dirs \ {d} : Inode[e] # Inode[d]
  /\ exists' = exists \ {d} /\ kernel' = kernel \ {Inode[d]}
  /\ UNCHANGED <<fm, cwd, loaded, loading, cursor, shown, wds, byWd, chdir, adds,
                 addPreview, resting, calls, overtaken, returned>>

Threads == \/ OpenDest \/ ChdirDone
           \/ \E d \in adds : AddDone(d)
           \/ AddPreviewDone
           \/ \E d \in loading : LoadDone(d)

Next == \/ Threads \/ CursorRests
        \/ \E d \in Dirs, save \in BOOLEAN : AsyncChdir(d, save) \/ SyncChdir(d, save)
        \/ JumpAutomark \/ Open \/ Updir \/ DropCache \/ Reload
        \/ \E d \in loaded, immediate \in BOOLEAN : \E e \in Content(d) :
             MoveCursor(d, e, immediate)
        \/ \E on \in BOOLEAN : SetPreview(on)
        \/ \E d \in exists : Delete(d)

Spec == Init /\ [][Next]_vars

-----------------------------------------------------------------------------
(* Properties *)

TypeOK ==
  /\ exists \subseteq Dirs /\ cwd \in Dirs /\ fm.pwd \in Dirs /\ fm.on \in BOOLEAN
  /\ fm.automark \in Dirs \cup {None} /\ fm.preview \in Dirs \cup {None}
  /\ fm.visible = Columned(fm.pwd, fm.on) /\ chdir \in ChdirWork \cup {None}
  /\ loaded \subseteq Dirs /\ loading \subseteq Dirs /\ shown \subseteq Dirs
  /\ cursor \in [Dirs -> Dirs \cup {File, None}]
  /\ DOMAIN wds \subseteq Dirs /\ Range(byWd) \subseteq Dirs
  /\ adds \subseteq Range(fm.visible)

\* When no change of directory is underway the process is where the file manager says
\* it is, whatever failed on the way: unless a synchronous change passed an
\* asynchronous one, or the directory cannot be entered and neither can the one before.
ProcessFollows ==
  chdir = None /\ ~overtaken /\ fm.pwd \in exists \ NoEntry => cwd = fm.pwd

Alone(d) == \A e \in Dirs \ {d} : Inode[e] # Inode[d]
Awaited(d) == d \in adds \/ addPreview = d

\* A directory on the screen is watched, and an event of its inode reloads it, as soon
\* as no work to that end is left: also when watchers were removed and added again
\* meanwhile, and directories were previewed and entered.  Paths that share their
\* inode with another are left out: see the README.
ShownAreWatched ==
  \A d \in (Range(fm.visible) \cup {fm.preview}) \cap (exists \ Unwatched) :
    Alone(d) /\ ~Awaited(d) => Reloaded(Inode[d]) = {d}

\* No watch is forgotten: what the kernel watches is in the tables, so that it can be
\* removed again; and the two tables agree.
WatchesAreKnown ==
  /\ kernel \subseteq DOMAIN byWd
  /\ \A i \in DOMAIN byWd : byWd[i] \in DOMAIN wds /\ wds[byWd[i]] = i

\* The preview is that of the directory under the cursor, unless the cursor moves or
\* a change of directory just failed: however loads and moves mixed.
PreviewFollowsCursor ==
  fm.on /\ ~resting /\ ~returned =>
    fm.preview = IF CurrentFile(Current) \in Dirs THEN CurrentFile(Current) ELSE None

\* What is on the screen is marked so: otherwise its updates were not drawn.
ShownAreMarked == Range(fm.visible) \cup ({fm.preview} \ {None}) \subseteq shown

\* What is on the screen is watched, and every watch is known.
WatchesFollowPanes == ShownAreWatched /\ WatchesAreKnown

\* The preview and the marks are those of what the cursor is on.
PanesFollowCursor == PreviewFollowsCursor /\ ShownAreMarked
=============================================================================
