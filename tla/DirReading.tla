------------------------------ MODULE DirReading ------------------------------
(***************************************************************************)
(* Reading a directory, flattened or not (dir_load, dir_load_flat of dir.c *)
(* and the worker of async/dir_load.c), while the disk changes: one entry  *)
(* after the other, the numbers of entries of directories from a cache or  *)
(* afterwards.  A path is the sequence of entries below the directory;     *)
(* how updates and fileinfo are queued and overtake each other is in       *)
(* DirLoader, so here they are applied when they are made.                 *)
(***************************************************************************)
EXTENDS Integers, Sequences, FiniteSets, SequencesExt, TLC

CONSTANTS Entries,     \* files, directories and links that may be on disk
          Folders,     \* the directories among them
          Links,       \* the links among them
          In, Target,  \* directory of each entry, directory each link leads to
          Root,        \* the directory that is read
          Hidden,      \* entries whose name begins with a dot
          Unreadable,  \* directories that cannot be opened
          Changing,    \* files that come and go
          Levels,      \* values of view.flatten_level
          TrimAbove,   \* entries the cache of counts may have without being trimmed
          MaxChanges, MaxTime, MaxLoads  \* bounds of changes, seconds and loads

TreeAssumption ==
  /\ Folders \cap Links = {} /\ Changing \subseteq Entries \ (Folders \cup Links)
  /\ \A e \in Entries : In[e] \in Folders \cup {Root}
  /\ \A l \in Links : Target[l] \in Folders

VARIABLES exists,     \* entries on disk
          mtime,      \* per directory, when it was changed, in seconds
          clock, changes,
          reader,     \* the worker: its load and what it has read
          listing,    \* the Dir: its files and load.dircounts
          stop,       \* async->stop
          disturbed,  \* ghost: the disk was changed since the load began
          sloppy      \* ghost: directories changed twice within a second
vars == <<exists, mtime, clock, changes, reader, listing, stop, disturbed, sloppy>>

Content(d) == {e \in exists : In[e] = d}
\* path_dircount
DirCount(d) == IF d \in Unreadable THEN 0 ELSE Cardinality(Content(d))
\* The directory a path leads to, itself or by a link
Node(path) == IF path = <<>> THEN Root
              ELSE IF Last(path) \in Links THEN Target[Last(path)] ELSE Last(path)
Leads(path) == Node(path) \in (exists \cap Folders) \cup {Root}

NoCounts == <<>>
Idle == [pc |-> "idle", level |-> 0, info |-> FALSE, queue |-> <<>>,
         head |-> [path |-> <<>>, level |-> 0, hidden |-> FALSE], pending |-> {},
         file |-> <<>>, files |-> {}, pushed |-> 0, cache |-> NoCounts,
         links |-> {}, dirs |-> {}, stats |-> <<>>, counts |-> <<>>, late |-> NoCounts]

Init == /\ exists = Entries /\ mtime = [d \in Folders \cup {Root} |-> 1]
        /\ clock = 2 /\ changes = 0 /\ stop = FALSE /\ disturbed = FALSE /\ sloppy = {}
        /\ reader = Idle
        /\ listing = [files |-> {}, pushed |-> 0, cache |-> NoCounts, level |-> 0,
                      followed |-> FALSE, loads |-> 0]
disk == <<exists, mtime, clock, changes, sloppy>>

-----------------------------------------------------------------------------
(* The load *)

\* async_dir_load, async_dir_load_worker: the cache of counts moves along, with a
\* flattened load without fileinfo to what is done afterwards
Begin(level, info) ==
  /\ reader.pc \in {"idle", "late"} /\ ~stop /\ listing.loads < MaxLoads
  /\ LET flat == level > 0 /\ ~info
     IN reader' = [Idle EXCEPT !.pc = "read", !.level = level, !.info = info,
                     !.queue = <<[path |-> <<>>, level |-> 0, hidden |-> FALSE]>>,
                     !.cache = IF flat THEN NoCounts ELSE listing.cache,
                     !.late = IF flat THEN listing.cache ELSE NoCounts]
  /\ listing' = [listing EXCEPT !.cache = NoCounts, !.loads = @ + 1]
  /\ disturbed' = FALSE
  /\ UNCHANGED <<disk, stop>>

\* opendir of the next directory, which may fail; those below are read level by level
Open ==
  /\ reader.pc = "read" /\ reader.pending = {} /\ reader.queue # <<>>
  /\ reader.level > 0 => ~stop
  /\ LET head == Head(reader.queue)
         opens == Leads(head.path) /\ Node(head.path) \notin Unreadable
     IN reader' = [reader EXCEPT !.queue = Tail(@), !.head = head,
                     !.pending = IF opens THEN Content(Node(head.path)) ELSE {}]
  /\ UNCHANGED <<disk, listing, stop, disturbed>>

\* file_create of an entry: links are followed at once only with fileinfo; the name is
\* the path from the directory that is read
FileCreate(head, e, info) ==
  LET path == Append(head.path, e)
      isdir == e \in Folders \/ (e \in Links /\ info /\ Leads(path))
  IN [path |-> path, name |-> SubSeq(path, Len(path) - head.level, Len(path)),
      hidden |-> e \in Hidden \/ head.hidden,
      isdir |-> isdir, mtime |-> IF isdir THEN mtime[Node(path)] ELSE 0, count |-> -1]

\* After each entry a load that is not flattened looks whether lfm ends; one without
\* fileinfo is not asked to
Continue(r) == IF stop /\ r.info /\ r.level = 0 THEN [r EXCEPT !.pending = {}] ELSE r
Push(r, file) ==
  Continue([r EXCEPT !.files = @ \cup {file}, !.pushed = @ + 1, !.pc = "read"])

\* Directories are queued for the next level
Queued(r, file) ==
  IF file.isdir /\ r.head.level < r.level
  THEN Append(r.queue, [path |-> file.path, level |-> r.head.level + 1,
                        hidden |-> file.hidden])
  ELSE r.queue

Read(e) ==
  /\ reader.pc = "read" /\ e \in reader.pending
  /\ LET r == [reader EXCEPT !.pending = @ \ {e}]
         file == FileCreate(r.head, e, r.info)
         next == [r EXCEPT !.queue = Queued(r, file)]
     IN reader' = IF e \notin exists THEN Continue(r)
                  ELSE IF r.info /\ file.isdir THEN [next EXCEPT !.pc = "count", !.file = file]
                  ELSE Push(next, file)
  /\ UNCHANGED <<disk, listing, stop, disturbed>>

\* load_dircount_cached: by the time, in seconds, of the stat before
IsCachedAnyTime(cache, file) == file.name \in DOMAIN cache
IsCached(cache, file) == /\ file.name \in DOMAIN cache
                         /\ cache[file.name].mtime = file.mtime
Count ==
  /\ reader.pc = "count"
  /\ LET f == reader.file
         cached == IsCached(reader.cache, f)
         n == IF cached THEN reader.cache[f.name].count ELSE DirCount(Node(f.path))
     IN reader' = Push([reader EXCEPT !.file = <<>>,
                          !.cache = (f.name :> [mtime |-> f.mtime, count |-> n]) @@ @],
                       [f EXCEPT !.count = n])
  /\ UNCHANGED <<disk, listing, stop, disturbed>>

\* trim_dircount_cache: what is listed stays
Trimmed(cache, files) ==
  LET dirs == {f \in files : f.isdir}
      size == Cardinality(DOMAIN cache)
      of(name) == CHOOSE f \in dirs : f.name = name
  IN IF size > TrimAbove /\ size > 2 * Cardinality(dirs)
     THEN [name \in {f.name : f \in dirs} |-> [mtime |-> of(name).mtime, count |-> of(name).count]]
     ELSE cache

\* The end of the load, dir_update_with; links and directories are left for later
Finish ==
  /\ reader.pc = "read" /\ reader.pending = {}
  /\ reader.queue = <<>> \/ (reader.level > 0 /\ stop)
  /\ LET r == reader
         later == ~r.info /\ ~stop /\ r.files # {}
     IN /\ listing' = [listing EXCEPT !.files = r.files, !.pushed = r.pushed, !.level = r.level,
                         !.followed = r.info,
                         !.cache = IF r.info THEN Trimmed(r.cache, r.files) ELSE r.cache]
        /\ reader' = IF later
                     THEN [Idle EXCEPT !.pc = "late", !.late = r.late,
                             !.links = {f \in r.files : Last(f.path) \in Links},
                             !.dirs = {f \in r.files : f.isdir}]
                     ELSE Idle
  /\ UNCHANGED <<disk, stop, disturbed>>

-----------------------------------------------------------------------------
(* Late fileinfo: async_load_fileinfo, fileinfo_callback *)

\* stat of a link
LateLink ==
  /\ reader.pc = "late" /\ ~stop
  /\ \E f \in reader.links :
       reader' = [reader EXCEPT !.links = @ \ {f},
                    !.dirs = IF Leads(f.path) THEN @ \cup {f} ELSE @,
                    !.stats = IF Leads(f.path)
                              THEN (f.name :> mtime[Node(f.path)]) @@ @ ELSE @]
  /\ UNCHANGED <<disk, listing, stop, disturbed>>

\* The count of a directory, of the cache if that is as old
LateCount ==
  /\ reader.pc = "late" /\ ~stop /\ reader.links = {}
  /\ \E f \in reader.dirs :
       LET n == IF IsCached(reader.late, f) THEN reader.late[f.name].count
                ELSE DirCount(Node(f.path))
       IN reader' = [reader EXCEPT !.dirs = @ \ {f}, !.counts = (f.name :> n) @@ @]
  /\ UNCHANGED <<disk, listing, stop, disturbed>>

\* The last batch; what is in the cache is not replaced (set_dircount emplaces)
WithInfo(f) ==
  LET known == f.name \in DOMAIN reader.stats
  IN [f EXCEPT !.isdir = @ \/ known,
               !.mtime = IF known THEN reader.stats[f.name] ELSE @,
               !.count = IF f.name \in DOMAIN reader.counts THEN reader.counts[f.name] ELSE @]
LateDone ==
  /\ reader.pc = "late"
  /\ stop \/ (reader.links = {} /\ reader.dirs = {})
  /\ LET files == {WithInfo(f) : f \in listing.files}
         of(name) == CHOOSE f \in files : f.name = name
     IN listing' = [listing EXCEPT !.files = files,
                      !.cache = @ @@ [name \in DOMAIN reader.counts |->
                                        [mtime |-> of(name).mtime, count |-> of(name).count]]]
  /\ reader' = Idle
  /\ UNCHANGED <<disk, stop, disturbed>>

-----------------------------------------------------------------------------
(* The disk and the end *)

\* Some program makes or removes a file, which changes its directory
Change(e) ==
  /\ changes < MaxChanges /\ changes' = changes + 1
  /\ exists' = IF e \in exists THEN exists \ {e} ELSE exists \cup {e}
  /\ mtime' = [mtime EXCEPT ![In[e]] = clock]
  /\ sloppy' = IF mtime[In[e]] = clock THEN sloppy \cup {In[e]} ELSE sloppy \ {In[e]}
  /\ disturbed' = TRUE
  /\ UNCHANGED <<clock, reader, listing, stop>>

Tick == /\ clock < MaxTime /\ clock' = clock + 1
        /\ UNCHANGED <<exists, mtime, changes, sloppy, reader, listing, stop, disturbed>>

\* lfm_deinit
Stop == /\ ~stop /\ stop' = TRUE
        /\ UNCHANGED <<disk, reader, listing, disturbed>>

Next == \/ \E level \in Levels, info \in BOOLEAN : Begin(level, info)
        \/ \E e \in Entries : Read(e)
        \/ Open \/ Count \/ Finish
        \/ LateLink \/ LateCount \/ LateDone
        \/ \E e \in Changing : Change(e)
        \/ Tick \/ Stop
Spec == Init /\ [][Next]_vars

-----------------------------------------------------------------------------
(* Properties *)

TypeOK ==
  /\ exists \subseteq Entries /\ clock \in 2..MaxTime /\ sloppy \subseteq Folders \cup {Root}
  /\ reader.pc \in {"idle", "read", "count", "late"} /\ reader.pending \subseteq Entries
  /\ \A f \in listing.files \cup reader.files :
       /\ f.path \in Seq(Entries) /\ f.count >= -1 /\ f.isdir \in BOOLEAN
       /\ f.count >= 0 => f.isdir

\* The paths of up to that many directories below; links are directories to follow or not
Below(level, follow) ==
  LET Enters(p) == /\ Node(p) \notin Unreadable
                   /\ p = <<>> \/ Last(p) \in Folders \/ (follow /\ Last(p) \in Links)
      at[n \in 0..level + 1] ==
        IF n = 0 THEN {<<>>}
        ELSE {Append(p, e) : <<p, e>> \in
                {q \in at[n - 1] \X exists : Enters(q[1]) /\ In[q[2]] = Node(q[1])}}
  IN UNION {at[n] : n \in 1..level + 1}

\* Read without interruption, a listing has every file down to the level asked for, once,
\* under its path from the directory; a file is hidden if any part of that is.  Links
\* are entered only if fileinfo was loaded along.
FilesAreThoseBelow ==
  ~disturbed /\ ~stop /\ listing.loads > 0 /\ reader.pc \in {"idle", "late"} =>
    /\ {f.path : f \in listing.files} = Below(listing.level, listing.followed)
    /\ listing.pushed = Cardinality(listing.files)
    /\ \A f \in listing.files :
         /\ f.name = f.path
         /\ f.hidden <=> \E i \in DOMAIN f.path : f.path[i] \in Hidden

\* Once the counts are there, from the cache, read along or afterwards, whatever loads
\* and changes came before, they are right; except for directories that were changed
\* twice within a second ("we might have to use the full st_mtime", dir.h:21).
CountsAreRight ==
  ~disturbed /\ ~stop /\ listing.loads > 0 /\ reader.pc = "idle" =>
    \A f \in listing.files :
      /\ f.isdir <=> Node(f.path) \in Folders
      /\ f.isdir /\ Node(f.path) \notin sloppy => f.count = DirCount(Node(f.path))
===============================================================================
