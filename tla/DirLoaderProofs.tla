--------------------------- MODULE DirLoaderProofs ---------------------------
(***************************************************************************)
(* Proofs about DirLoader, for any sets of Dirs, paths and checks and any  *)
(* bounds: listings never go back in time, late fileinfo meets the files   *)
(* it was computed for, no Dir waits for a load that is not underway, a    *)
(* Dir has at most one reload ahead of it, and its references are those of *)
(* its holders.                                                            *)
(***************************************************************************)
EXTENDS DirLoader, FiniteSetTheorems, TLAPS

\* The shape of the state.  That a count is not negative does not follow from
\* it, but from RefcountExact.
DirShape == [alloc : {"unused", "live", "freed"}, path : Paths \cup {None},
             refs : Int, status : Status, cookie : Nat, files : Nat,
             version : Nat, fileinfo : Nat, is_scheduled : BOOLEAN,
             next_requested : BOOLEAN, in_progress : BOOLEAN,
             is_disowned : BOOLEAN]

Shape == /\ dir \in [Dirs -> DirShape]
         /\ cache \in [Paths -> Dirs \cup {None}]
         /\ timers \subseteq Dirs
         /\ loads \subseteq LoadRec
         /\ check \in [Checks -> CheckRec]
         /\ queue \in Seq(Result)
         /\ lua \subseteq Dirs
         /\ disk \in [Paths -> Nat]

Used(o) == o \in Dirs /\ dir[o].alloc # "unused"

\* Only Dirs that dir_create made are referred to.
Known == /\ \A o \in Dirs : IF dir[o].alloc = "unused" THEN dir[o].version = 0
                                                       ELSE dir[o].path \in Paths
         /\ \A p \in Paths : cache[p] # None => Used(cache[p])
         /\ \A o \in timers : Used(o)
         /\ \A o \in lua : Used(o)
         /\ \A l \in loads : Used(l.dir)
         /\ \A i \in 1 .. Len(queue) : queue[i].kind # "check" => Used(queue[i].dir)
         /\ \A k \in Checks : check[k].stage # "idle" => Used(check[k].dir)

\* A check is in the queue at most once, and then it is done.
ChecksOnce ==
  /\ \A i \in 1 .. Len(queue) :
       queue[i].kind = "check" => check[queue[i].check].stage = "done"
  /\ \A i, j \in 1 .. Len(queue) :
       (queue[i].kind = "check" /\ queue[j].kind = "check" /\ i # j)
         => queue[i].check # queue[j].check

\* The cookie of a load is unique for its Dir and at most the Dir's cookie.
CookiesUnique ==
  /\ \A l \in loads : l.cookie <= dir[l.dir].cookie
  /\ \A l, m \in loads : l.dir = m.dir /\ l.cookie = m.cookie => l = m
  /\ \A i \in 1 .. Len(queue) :
       queue[i].kind = "update" => queue[i].cookie <= dir[queue[i].dir].cookie
  /\ \A i, j \in 1 .. Len(queue) :
       (/\ queue[i].kind = "update" /\ queue[j].kind = "update" /\ i # j
        /\ queue[i].dir = queue[j].dir) => queue[i].cookie # queue[j].cookie
  /\ \A l \in loads : \A i \in 1 .. Len(queue) :
       (/\ queue[i].kind = "update" /\ l.stage \in {"queued", "read"}
        /\ queue[i].dir = l.dir) => queue[i].cookie # l.cookie

\* What the latest load of a Dir has read is no older than what the Dir shows.
VersionsGrow ==
  /\ \A o \in Dirs : Used(o) => dir[o].version <= disk[dir[o].path]
  /\ \A l \in loads : l.stage = "read" =>
       /\ l.version <= disk[dir[l.dir].path]
       /\ l.cookie = dir[l.dir].cookie => dir[l.dir].version <= l.version
  /\ \A i \in 1 .. Len(queue) : queue[i].kind = "update" =>
       LET o == queue[i].dir
       IN  /\ queue[i].version <= disk[dir[o].path]
           /\ queue[i].cookie = dir[o].cookie => dir[o].version <= queue[i].version

\* The update of load c of Dir o was applied, or is in the queue before n,
\* or a newer load has begun.
UpdateBefore(o, c, n) ==
  \/ dir[o].cookie # c
  \/ dir[o].files = c
  \/ \E j \in 1 .. Len(queue) : /\ j < n /\ queue[j].kind = "update"
                                /\ queue[j].dir = o /\ queue[j].cookie = c

\* The fileinfo of a load comes after its update, as long as results are handled.
FileinfoFollows ==
  /\ main # "torn" =>
       /\ \A l \in loads : /\ l.stage # "submitted"
                           /\ l.stage = "info" =>
                                /\ l.seen = l.cookie
                                /\ UpdateBefore(l.dir, l.cookie, Len(queue) + 1)
       /\ \A i \in 1 .. Len(queue) : queue[i].kind = "fileinfo" =>
            /\ queue[i].files = queue[i].cookie
            /\ queue[i].cookie <= dir[queue[i].dir].cookie
            /\ UpdateBefore(queue[i].dir, queue[i].cookie, i)
  /\ \A o \in Dirs : dir[o].fileinfo \in {0, dir[o].files}

\* InProgressBacked, of freed Dirs too.
Backed ==
  main = "loop" =>
    \A o \in Dirs : dir[o].in_progress =>
      \/ \E l \in loads : /\ l.dir = o /\ l.cookie = dir[o].cookie
                          /\ l.stage \in {"queued", "read"}
      \/ \E i \in 1 .. Len(queue) : /\ queue[i].kind = "update" /\ queue[i].dir = o
                                    /\ queue[i].cookie = dir[o].cookie

\* OneReloadAhead, of freed Dirs too.
Ahead ==
  main = "loop" =>
    \A o \in Dirs : /\ o \in timers => dir[o].is_scheduled
                    /\ dir[o].is_scheduled => o \in timers \/ dir[o].is_disowned
                    /\ dir[o].next_requested => dir[o].in_progress
                    /\ ~(dir[o].is_scheduled /\ dir[o].in_progress)

IInv == /\ Shape /\ Known /\ ChecksOnce /\ CookiesUnique /\ VersionsGrow
        /\ Backed /\ Ahead
        /\ Prompt => FileinfoFollows

\* What a step of the system has to do
NoOlder == \A o \in Dirs : dir'[o].version >= dir[o].version
Preserves == IInv' /\ NoOlder

LEMMA SameVersions ==
  ASSUME IInv, \A o \in Dirs : dir'[o].version = dir[o].version \/ dir[o].version = 0,
         \A o \in Dirs : dir'[o].version \in Nat
  PROVE  NoOlder
<1>1. \A o \in Dirs : dir[o].version \in Nat
  BY DEF IInv, Shape, DirShape
<1>. QED
  BY <1>1 DEF NoOlder

-----------------------------------------------------------------------------
(* What the operators on a Dir do to its fields *)

\* e is d but for the reference count; a Dir that was created stays so.
SameBut(e, d) ==
  /\ e \in DirShape
  /\ d.alloc # "unused" => e.alloc # "unused"
  /\ e.path = d.path /\ e.cookie = d.cookie /\ e.files = d.files
  /\ e.version = d.version /\ e.fileinfo = d.fileinfo
  /\ e.is_scheduled = d.is_scheduled /\ e.next_requested = d.next_requested
  /\ e.in_progress = d.in_progress /\ e.is_disowned = d.is_disowned

LEMMA RefFields ==
  ASSUME NEW d \in DirShape, NEW n \in Nat
  PROVE  SameBut(IncRef(d, n), d) /\ SameBut(DecRef(d, n), d)
<1>1. SameBut(IncRef(d, n), d)
  BY DEF SameBut, IncRef, DirShape
<1>2. SameBut(DecRef(d, n), d)
  <2>. DEFINE a == IF d.refs = n THEN "freed" ELSE d.alloc
  <2>1. a \in {"unused", "live", "freed"} /\ (d.alloc # "unused" => a # "unused")
    BY DEF DirShape
  <2>. DEFINE e == [d EXCEPT !.refs = d.refs - n]
  <2>2. DecRef(d, n) = [e EXCEPT !.alloc = a]
    BY DEF DecRef, DirShape
  <2>3. SameBut(e, d)
    BY DEF SameBut, DirShape
  <2>. HIDE DEF a, e
  <2>. QED
    BY <2>1, <2>2, <2>3 DEF SameBut, DirShape
<1>. QED
  BY <1>1, <1>2

LEMMA NewDirFields ==
  ASSUME NEW p \in Paths
  PROVE  LET e == NewDir(p)
         IN  /\ e \in DirShape /\ e.alloc = "live" /\ e.path = p
             /\ e.cookie = 0 /\ e.files = 0 /\ e.version = 0 /\ e.fileinfo = 0
             /\ ~e.is_scheduled /\ ~e.next_requested /\ ~e.in_progress
             /\ ~e.is_disowned
BY DEF NewDir, DirShape, Status

\* e is d with a load begun
Begun(e, d) ==
  /\ e \in DirShape
  /\ e.alloc = d.alloc /\ e.path = d.path /\ e.cookie = d.cookie + 1
  /\ e.files = d.files /\ e.version = d.version /\ e.fileinfo = d.fileinfo
  /\ e.is_disowned = d.is_disowned

LEMMA AsyncDirLoadFields ==
  ASSUME NEW d \in DirShape, NEW b \in BOOLEAN
  PROVE  LET e == AsyncDirLoad(d, b)
         IN  /\ Begun(e, d)
             /\ e.is_scheduled = d.is_scheduled
             /\ e.next_requested = d.next_requested
             /\ e.in_progress = d.in_progress
<1>. DEFINE n == IF b THEN 1 ELSE 2
            a == IncRef(d, n)
            c == [a EXCEPT !.cookie = a.cookie + 1]
            s == IF a.status = "delayed" THEN "scheduled" ELSE a.status
            e == [c EXCEPT !.status = s]
<1>1. /\ SameBut(a, d) /\ a.alloc = d.alloc
  BY RefFields DEF IncRef, DirShape
<1>2. s \in Status
  BY <1>1 DEF SameBut, DirShape, Status
<1>3. AsyncDirLoad(d, b) = e
  BY <1>1 DEF AsyncDirLoad, SameBut, DirShape
<1>. HIDE DEF a, s
<1>4. c \in DirShape /\ c.cookie = d.cookie + 1
  BY <1>1 DEF SameBut, DirShape
<1>5. e \in DirShape /\ e.cookie = c.cookie
  BY <1>2, <1>4 DEF DirShape
<1>. QED
  BY <1>1, <1>3, <1>4, <1>5 DEF Begun, SameBut, DirShape

LEMMA LoadFields ==
  ASSUME NEW d \in DirShape
  PROVE  LET e == Load(d)
         IN  /\ Begun(e, d)
             /\ e.is_scheduled = d.is_scheduled
             /\ ~e.next_requested /\ e.in_progress
<1>. DEFINE b == WithFileinfo(d)
            a == AsyncDirLoad(d, b)
<1>1. b \in BOOLEAN
  BY DEF WithFileinfo
<1>2. Begun(a, d) /\ a.is_scheduled = d.is_scheduled
  BY <1>1, AsyncDirLoadFields
<1>3. Load(d) = [a EXCEPT !.next_requested = FALSE, !.in_progress = TRUE]
  BY DEF Load
<1>. QED
  BY <1>2, <1>3 DEF Begun, DirShape

LEMMA LoadWorkFields ==
  ASSUME NEW o \in Dirs, NEW d \in DirShape, NEW b \in BOOLEAN
  PROVE  LET l == LoadWork(o, d, b)
         IN  /\ l \in LoadRec /\ l.dir = o /\ l.stage = "queued"
             /\ l.cookie = d.cookie + 1
<1>1. AsyncDirLoad(d, b).cookie = d.cookie + 1
  BY AsyncDirLoadFields DEF Begun
<1>. QED
  BY <1>1 DEF LoadWork, LoadRec, DirShape

LEMMA ReloadFields ==
  ASSUME NEW d \in DirShape
  PROVE  LET e == LoaderDirReload(d)
         IN  /\ e \in DirShape
             /\ e.alloc = d.alloc /\ e.path = d.path /\ e.cookie = d.cookie
             /\ e.files = d.files /\ e.version = d.version
             /\ e.fileinfo = d.fileinfo /\ e.in_progress = d.in_progress
             /\ e.is_disowned = d.is_disowned
             /\ \/ /\ e.is_scheduled = d.is_scheduled
                   /\ e.next_requested = d.next_requested
                \/ /\ ~d.in_progress /\ ~d.is_disowned
                   /\ e.is_scheduled /\ ~e.next_requested
                \/ /\ d.in_progress /\ ~d.is_scheduled
                   /\ ~e.is_scheduled /\ e.next_requested
BY DEF LoaderDirReload, Blocked, Schedule, DirShape

LEMMA UpdateWithFields ==
  ASSUME NEW d \in DirShape, NEW r \in Result, r.kind = "update"
  PROVE  LET e == UpdateWith(d, r)
         IN  /\ e \in DirShape
             /\ e.alloc = d.alloc /\ e.path = d.path /\ e.cookie = d.cookie
             /\ e.files = r.cookie /\ e.version = r.version
             /\ e.fileinfo \in {0, e.files}
             /\ e.is_scheduled = d.is_scheduled
             /\ e.next_requested = d.next_requested
             /\ e.in_progress = d.in_progress /\ e.is_disowned = d.is_disowned
BY DEF UpdateWith, DirShape, Result, Status

-----------------------------------------------------------------------------
(* The queue *)

LEMMA AppendFacts ==
  ASSUME NEW r \in Result, queue \in Seq(Result), queue' = Append(queue, r)
  PROVE  /\ queue' \in Seq(Result)
         /\ Len(queue') = Len(queue) + 1
         /\ \A i \in 1 .. Len(queue) : queue'[i] = queue[i]
         /\ queue'[Len(queue) + 1] = r
OBVIOUS

LEMMA TailFacts ==
  ASSUME queue \in Seq(Result), queue # <<>>, queue' = Tail(queue)
  PROVE  /\ queue' \in Seq(Result)
         /\ Len(queue) \in Nat /\ Len(queue) > 0
         /\ Len(queue') = Len(queue) - 1
         /\ \A i \in 1 .. Len(queue') : i + 1 \in 1 .. Len(queue) /\ queue'[i] = queue[i + 1]
         /\ Head(queue) = queue[1] /\ Head(queue) \in Result
         /\ 1 \in 1 .. Len(queue)
OBVIOUS

-----------------------------------------------------------------------------
(* The types of the fields, without the records around them *)

LEMMA DirTypes ==
  \A d \in DirShape : /\ d.cookie \in Nat /\ d.version \in Nat /\ d.files \in Nat
                      /\ d.fileinfo \in Nat /\ d.refs \in Int
                      /\ d.is_scheduled \in BOOLEAN /\ d.next_requested \in BOOLEAN
                      /\ d.in_progress \in BOOLEAN /\ d.is_disowned \in BOOLEAN
BY DEF DirShape

LEMMA LoadTypes ==
  \A l \in LoadRec : /\ l.dir \in Dirs /\ l.cookie \in Nat /\ l.version \in Nat
                     /\ l.seen \in Nat /\ l.load_fileinfo \in BOOLEAN
                     /\ l.empty \in BOOLEAN
BY DEF LoadRec

LEMMA ResultTypes ==
  \A r \in Result :
    /\ r.kind \in {"update", "fileinfo", "check"}
    /\ r.kind = "update" => /\ r.dir \in Dirs /\ r.cookie \in Nat
                            /\ r.version \in Nat /\ r.load_fileinfo \in BOOLEAN
    /\ r.kind = "fileinfo" => /\ r.dir \in Dirs /\ r.cookie \in Nat
                              /\ r.files \in Nat /\ r.is_last_batch \in BOOLEAN
    /\ r.kind = "check" => r.check \in Checks
BY DEF Result

-----------------------------------------------------------------------------
(* Steps that change no listing and no load *)

\* What such a step leaves of a Dir: all but the reference count, the status,
\* the reload flags and whether it is disowned.
Kept(o) ==
  /\ dir'[o] \in DirShape
  /\ dir'[o].alloc = "unused" <=> dir[o].alloc = "unused"
  /\ dir'[o].path = dir[o].path /\ dir'[o].cookie = dir[o].cookie
  /\ dir'[o].files = dir[o].files /\ dir'[o].version = dir[o].version
  /\ Prompt => dir'[o].fileinfo \in {dir[o].fileinfo, dir[o].files}
  /\ dir'[o].in_progress = dir[o].in_progress

LEMMA KeptUsed ==
  ASSUME \A o \in Dirs : Kept(o)
  PROVE  \A o : Used(o)' <=> Used(o)
BY DEF Kept, Used

\* Taking or returning a reference keeps a Dir and its flags.
LEMMA SameButKept ==
  ASSUME NEW o \in Dirs, dir[o] \in DirShape,
         dir'[o] = dir[o] \/ (Used(o) /\ SameBut(dir'[o], dir[o]))
  PROVE  /\ Kept(o)
         /\ dir'[o].is_scheduled = dir[o].is_scheduled
         /\ dir'[o].next_requested = dir[o].next_requested
         /\ dir'[o].is_disowned = dir[o].is_disowned
BY DEF SameBut, Used, Kept

LEMMA ShapeTypes ==
  ASSUME Shape
  PROVE  /\ \A o \in Dirs : dir[o] \in DirShape /\ dir[o].cookie \in Nat
         /\ \A l \in loads : l.dir \in Dirs /\ l.cookie \in Nat
         /\ \A i \in 1 .. Len(queue) : queue[i].kind # "check" =>
              queue[i].dir \in Dirs /\ queue[i].cookie \in Nat
<1>1. \A o \in Dirs : dir[o] \in DirShape /\ dir[o].cookie \in Nat
  BY DirTypes DEF Shape
<1>2. \A l \in loads : l.dir \in Dirs /\ l.cookie \in Nat
  BY LoadTypes DEF Shape
<1>3. \A i \in 1 .. Len(queue) : queue[i].kind # "check" =>
        queue[i].dir \in Dirs /\ queue[i].cookie \in Nat
  BY ResultTypes DEF Shape
<1>. QED
  BY <1>1, <1>2, <1>3

LEMMA Static ==
  ASSUME IInv,
         DOMAIN dir' = Dirs, dir' = [o \in Dirs |-> dir'[o]],
         \A o \in Dirs : Kept(o), Ahead',
         cache' \in [Paths -> Dirs \cup {None}],
         \A p \in Paths : cache'[p] # None => Used(cache'[p]),
         \A o \in timers' : Used(o),
         lua' \subseteq Dirs, \A o \in lua' : Used(o),
         check' \in [Checks -> CheckRec], ChecksOnce',
         \A k \in Checks : check'[k].stage # "idle" => Used(check'[k].dir),
         main' = main \/ (main' # "loop" /\ main # "torn"),
         loads' = loads, queue' = queue, disk' = disk
  PROVE  Preserves
<1>0. \A o : Used(o)' <=> Used(o)
  BY KeptUsed
<1>a. /\ \A l \in loads : l.dir \in Dirs
      /\ \A i \in 1 .. Len(queue) : queue[i].kind # "check" => queue[i].dir \in Dirs
  BY ShapeTypes DEF IInv
<1>1. Shape'
  <2>1. dir' \in [Dirs -> DirShape]
    BY DEF Kept
  <2>2. timers' \subseteq Dirs
    BY DEF Used
  <2>. QED
    BY <2>1, <2>2 DEF IInv, Shape
<1>2. Known'
  <2>1. \A o \in Dirs : IF dir'[o].alloc = "unused" THEN dir'[o].version = 0
                                                  ELSE dir'[o].path \in Paths
    BY DEF IInv, Known, Kept
  <2>2. /\ \A p \in Paths : cache'[p] # None => Used(cache[p])'
        /\ \A o \in timers' : Used(o)'
        /\ \A o \in lua' : Used(o)'
    BY <1>0
  <2>3. \A l \in loads' : Used(l.dir)'
    BY <1>0 DEF IInv, Known
  <2>4. \A i \in 1 .. Len(queue') : queue'[i].kind # "check" => Used(queue[i].dir)'
    BY <1>0 DEF IInv, Known
  <2>5. \A k \in Checks : check'[k].stage # "idle" => Used(check[k].dir)'
    BY <1>0
  <2>. QED
    BY <2>1, <2>2, <2>3, <2>4, <2>5 DEF Known
<1>3. CookiesUnique'
  BY <1>a DEF IInv, CookiesUnique, Kept
<1>4. VersionsGrow'
  BY <1>0, <1>a DEF IInv, VersionsGrow, Kept
<1>5. Backed'
  BY DEF IInv, Backed, Kept
<1>6. Prompt => FileinfoFollows'
  BY <1>a DEF IInv, FileinfoFollows, UpdateBefore, Kept
<1>v. NoOlder
  <2>1. \A o \in Dirs : dir'[o].version \in Nat
    BY <1>1, DirTypes DEF IInv, Shape
  <2>. QED
    BY <2>1, SameVersions DEF Kept
<1>. QED
  BY <1>1, <1>2, <1>3, <1>4, <1>5, <1>6, <1>v DEF IInv, Preserves


-----------------------------------------------------------------------------
(* Steps that begin a load *)

LEMMA Begins ==
  ASSUME IInv, NEW o, Used(o), NEW e, NEW l,
         dir' = [dir EXCEPT ![o] = e], Begun(e, dir[o]),
         l \in LoadRec, l.dir = o, l.stage = "queued",
         l.cookie = dir[o].cookie + 1, loads' = loads \cup {l},
         timers' \subseteq timers, Ahead',
         cache' = cache, lua' = lua, check' = check, queue' = queue,
         disk' = disk, main' = main
  PROVE  Preserves
<1>. USE DEF Begun
<1>0. /\ o \in Dirs
      /\ \A d \in Dirs :
        /\ dir'[d] \in DirShape
        /\ dir'[d].alloc = "unused" <=> dir[d].alloc = "unused"
        /\ dir'[d].path = dir[d].path
        /\ dir'[d].cookie = IF d = o THEN dir[o].cookie + 1 ELSE dir[d].cookie
        /\ dir'[d].files = dir[d].files /\ dir'[d].version = dir[d].version
        /\ dir'[d].fileinfo = dir[d].fileinfo
        /\ d # o => dir'[d].in_progress = dir[d].in_progress
  BY DEF Used, IInv, Shape
<1>. HIDE DEF Begun
<1>a. /\ \A m \in loads : m.dir \in Dirs /\ m.cookie \in Nat
      /\ \A i \in 1 .. Len(queue) :
           /\ queue[i].kind # "check" => queue[i].dir \in Dirs /\ queue[i].cookie \in Nat
      /\ \A d \in Dirs : dir[d].cookie \in Nat
  <2>1. \A m \in loads : m.dir \in Dirs /\ m.cookie \in Nat
    BY LoadTypes DEF IInv, Shape
  <2>2. \A i \in 1 .. Len(queue) :
           queue[i].kind # "check" => queue[i].dir \in Dirs /\ queue[i].cookie \in Nat
    BY ResultTypes DEF IInv, Shape
  <2>3. \A d \in Dirs : dir[d].cookie \in Nat
    BY DirTypes DEF IInv, Shape
  <2>. QED
    BY <2>1, <2>2, <2>3
<1>b. \A d : Used(d)' <=> Used(d)
  BY <1>0 DEF Used
<1>1. Shape'
  BY <1>0 DEF IInv, Shape
<1>2. Known'
  BY <1>0, <1>b DEF IInv, Known
<1>3. ChecksOnce'
  BY DEF IInv, ChecksOnce
<1>4. CookiesUnique'
  <2>. USE <1>0, <1>a DEF IInv, CookiesUnique
  <2>1. \A m \in loads' : m.cookie <= dir'[m.dir].cookie
    OBVIOUS
  <2>2. \A m, n \in loads' : m.dir = n.dir /\ m.cookie = n.cookie => m = n
    <3>1. \A m \in loads : m.dir = o => m.cookie # l.cookie
      OBVIOUS
    <3>. QED
      BY <3>1
  <2>3. \A i \in 1 .. Len(queue') :
         queue'[i].kind = "update" => queue'[i].cookie <= dir'[queue'[i].dir].cookie
    OBVIOUS
  <2>4. \A m \in loads' : \A i \in 1 .. Len(queue') :
          (/\ queue'[i].kind = "update" /\ m.stage \in {"queued", "read"}
           /\ queue'[i].dir = m.dir) => queue'[i].cookie # m.cookie
    OBVIOUS
  <2>. QED
    BY <2>1, <2>2, <2>3, <2>4
<1>5. VersionsGrow'
  BY <1>0, <1>a, <1>b DEF IInv, VersionsGrow, CookiesUnique
<1>6. Backed'
  BY <1>0, <1>a DEF IInv, Backed
<1>7. Prompt => FileinfoFollows'
  <2>. SUFFICES ASSUME Prompt PROVE FileinfoFollows'
    OBVIOUS
  <2>0. FileinfoFollows /\ CookiesUnique
    BY DEF IInv
  <2>1. \A d, n : \A c \in Nat : d \in Dirs /\ c <= dir[d].cookie /\ UpdateBefore(d, c, n)
                                   => UpdateBefore(d, c, n)'
    BY <1>0, <1>a DEF UpdateBefore
  <2>2. ASSUME main # "torn", NEW m \in loads'
        PROVE  /\ m.stage # "submitted"
               /\ m.stage = "info" =>
                    /\ m.seen = m.cookie
                    /\ UpdateBefore(m.dir, m.cookie, Len(queue) + 1)'
    BY <1>a, <2>0, <2>1, <2>2 DEF FileinfoFollows, CookiesUnique
  <2>3. ASSUME main # "torn", NEW i \in 1 .. Len(queue), queue[i].kind = "fileinfo"
        PROVE  /\ queue[i].files = queue[i].cookie
               /\ queue[i].cookie <= dir'[queue[i].dir].cookie
               /\ UpdateBefore(queue[i].dir, queue[i].cookie, i)'
    BY <1>0, <1>a, <2>0, <2>1, <2>3 DEF FileinfoFollows
  <2>4. \A d \in Dirs : dir'[d].fileinfo \in {0, dir'[d].files}
    BY <1>0, <2>0 DEF FileinfoFollows
  <2>. QED
    BY <2>2, <2>3, <2>4 DEF FileinfoFollows
<1>v. NoOlder
  <2>1. \A d \in Dirs : dir'[d].version \in Nat
    BY <1>1, DirTypes DEF IInv, Shape
  <2>. QED
    BY <1>0, <2>1, SameVersions
<1>. QED
  BY <1>1, <1>2, <1>3, <1>4, <1>5, <1>6, <1>7, <1>v DEF IInv, Preserves

-----------------------------------------------------------------------------
(* Each step preserves the invariant: the event loop's calls *)

LEMMA InitInvariant == Init => IInv
<1>. SUFFICES ASSUME Init PROVE IInv
  OBVIOUS
<1>. USE DEF Init
<1>1. \A o \in Dirs : /\ dir[o] \in DirShape /\ dir[o].alloc = "unused"
                      /\ dir[o].version = 0 /\ dir[o].fileinfo = 0
                      /\ ~dir[o].in_progress /\ ~dir[o].next_requested
                      /\ ~dir[o].is_scheduled
  <2>. DEFINE d == NewDir(None)
              a == [d EXCEPT !.alloc = "unused"]
              e == [a EXCEPT !.refs = 0]
  <2>1. /\ d \in DirShape /\ d.version = 0 /\ d.fileinfo = 0
        /\ ~d.in_progress /\ ~d.next_requested /\ ~d.is_scheduled
    BY DEF NewDir, DirShape, Status
  <2>2. \A o \in Dirs : dir[o] = e
    OBVIOUS
  <2>. HIDE DEF d
  <2>3. /\ a \in DirShape /\ a.alloc = "unused" /\ a.version = 0 /\ a.fileinfo = 0
        /\ ~a.in_progress /\ ~a.next_requested /\ ~a.is_scheduled
    BY <2>1 DEF DirShape
  <2>. HIDE DEF a
  <2>4. /\ e \in DirShape /\ e.alloc = "unused" /\ e.version = 0 /\ e.fileinfo = 0
        /\ ~e.in_progress /\ ~e.next_requested /\ ~e.is_scheduled
    BY <2>3 DEF DirShape
  <2>. HIDE DEF e
  <2>. QED
    BY <2>2, <2>4
<1>2. Shape
  <2>1. dir \in [Dirs -> DirShape]
    BY <1>1
  <2>2. IdleCheck \in CheckRec
    BY DEF CheckRec, IdleCheck
  <2>. QED
    BY <2>1, <2>2 DEF Shape
<1>3. Known
  BY <1>1 DEF Known, IdleCheck, Used
<1>4. ChecksOnce /\ CookiesUnique
  BY DEF ChecksOnce, CookiesUnique
<1>5. VersionsGrow
  BY <1>1 DEF VersionsGrow, Used
<1>6. Backed /\ Ahead
  BY <1>1 DEF Backed, Ahead
<1>7. FileinfoFollows
  BY <1>1 DEF FileinfoFollows
<1>. QED
  BY <1>2, <1>3, <1>4, <1>5, <1>6, <1>7 DEF IInv

\* Steps that take or return references only.
LEMMA RefsOnly ==
  ASSUME IInv,
         dir' = [o \in Dirs |-> dir'[o]],
         \A o \in Dirs : dir'[o] = dir[o] \/ (Used(o) /\ SameBut(dir'[o], dir[o])),
         cache' \in [Paths -> Dirs \cup {None}],
         \A p \in Paths : cache'[p] # None => Used(cache'[p]),
         lua' \subseteq Dirs, \A o \in lua' : Used(o),
         check' \in [Checks -> CheckRec], ChecksOnce',
         \A k \in Checks : check'[k].stage # "idle" => Used(check'[k].dir),
         \/ main' = main /\ timers' = timers
         \/ main' # "loop" /\ main # "torn" /\ timers' \subseteq timers,
         loads' = loads, queue' = queue, disk' = disk
  PROVE  Preserves
<1>1. \A o \in Dirs : /\ Kept(o)
                      /\ dir'[o].is_scheduled = dir[o].is_scheduled
                      /\ dir'[o].next_requested = dir[o].next_requested
                      /\ dir'[o].is_disowned = dir[o].is_disowned
  BY SameButKept DEF IInv, Shape
<1>2. Ahead'
  BY <1>1 DEF IInv, Ahead, Kept
<1>3. \A o \in timers' : Used(o)
  BY DEF IInv, Known
<1>. QED
  BY <1>1, <1>2, <1>3, Static

LEMMA LuaPushStep == ASSUME IInv, NEW p \in Paths, LuaPush(p) PROVE Preserves
<1>. DEFINE o == cache[p]
<1>1. Used(o) /\ dir[o] \in DirShape
  BY DEF LuaPush, IInv, Known, Used, Shape
<1>2. SameBut(IncRef(dir[o], 1), dir[o])
  BY <1>1, RefFields
<1>3. /\ dir' = [d \in Dirs |-> dir'[d]]
      /\ \A d \in Dirs : dir'[d] = dir[d] \/ (Used(d) /\ SameBut(dir'[d], dir[d]))
  BY <1>1, <1>2 DEF LuaPush, IInv, Shape
<1>4. lua' \subseteq Dirs /\ \A d \in lua' : Used(d)
  BY <1>1 DEF LuaPush, IInv, Shape, Known, Used
<1>5. ChecksOnce'
  BY DEF LuaPush, IInv, ChecksOnce
<1>. QED
  BY <1>3, <1>4, <1>5, RefsOnly DEF LuaPush, IInv, Shape, Known

LEMMA LuaGcStep == ASSUME IInv, NEW o \in Dirs, LuaGc(o) PROVE Preserves
<1>1. Used(o) /\ dir[o] \in DirShape
  BY DEF LuaGc, IInv, Known, Used, Shape
<1>2. SameBut(DecRef(dir[o], 1), dir[o])
  BY <1>1, RefFields
<1>3. /\ dir' = [d \in Dirs |-> dir'[d]]
      /\ \A d \in Dirs : dir'[d] = dir[d] \/ (Used(d) /\ SameBut(dir'[d], dir[d]))
  BY <1>1, <1>2 DEF LuaGc, IInv, Shape
<1>5. ChecksOnce'
  BY DEF LuaGc, IInv, ChecksOnce
<1>. QED
  BY <1>3, <1>5, RefsOnly DEF LuaGc, IInv, Shape, Known

\* The cache, or Lua, holds a Dir only if it was created.
LEMMA DeinitStep == ASSUME IInv, Deinit PROVE Preserves
<1>1. \A o \in Dirs : CacheRefs(o) + LuaRefs(o) # 0 => Used(o)
  <2>. SUFFICES ASSUME NEW o \in Dirs, ~Used(o)
                PROVE  CacheRefs(o) = 0 /\ LuaRefs(o) = 0
    OBVIOUS
  <2>1. {p \in Paths : cache[p] = o} = {}
    BY DirsAssumption DEF IInv, Known
  <2>2. lua \cap {o} = {}
    BY DEF IInv, Known
  <2>. QED
    BY <2>1, <2>2, FS_EmptySet DEF CacheRefs, LuaRefs
<1>2. \A o \in Dirs : CacheRefs(o) + LuaRefs(o) \in Nat
  <2>. SUFFICES ASSUME NEW o \in Dirs PROVE CacheRefs(o) \in Nat /\ LuaRefs(o) \in Nat
    OBVIOUS
  <2>1. IsFiniteSet({p \in Paths : cache[p] = o})
    BY DirsAssumption, FS_Subset
  <2>2. IsFiniteSet(lua \cap {o})
    BY FS_Singleton, FS_Subset
  <2>. QED
    BY <2>1, <2>2, FS_CardinalityType DEF CacheRefs, LuaRefs
<1>3. \A o \in Dirs : /\ dir'[o] = dir[o] \/ (Used(o) /\ SameBut(dir'[o], dir[o]))
  BY <1>1, <1>2, RefFields DEF Deinit, IInv, Shape
<1>4. dir' = [o \in Dirs |-> dir'[o]]
  BY DEF Deinit
<1>5. ChecksOnce'
  BY DEF Deinit, IInv, ChecksOnce
<1>. QED
  BY <1>3, <1>4, <1>5, RefsOnly DEF Deinit, IInv, Shape, Known

LEMMA InotifyStep == ASSUME IInv, NEW p \in Paths, InotifyEvent(p) PROVE Preserves
<1>. DEFINE o == cache[p]
<1>. SUFFICES ASSUME o # None PROVE Preserves
  <2>. SUFFICES ASSUME o = None PROVE Preserves
    OBVIOUS
  <2>1. dir' = dir /\ timers' = timers
    BY DEF InotifyEvent
  <2>2. dir' = [d \in Dirs |-> dir'[d]] /\ ChecksOnce'
    BY <2>1 DEF InotifyEvent, IInv, ChecksOnce, Shape
  <2>. QED
    BY <2>1, <2>2, RefsOnly DEF InotifyEvent, IInv, Shape, Known
<1>. DEFINE e == LoaderDirReload(dir[o])
<1>1. Used(o) /\ dir[o] \in DirShape
  BY DEF IInv, Known, Used, Shape
<1>2. /\ dir' = [dir EXCEPT ![o] = e]
      /\ timers' = IF e.is_scheduled THEN timers \cup {o} ELSE timers
  BY DEF InotifyEvent, TimersWith
<1>. HIDE DEF o
<1>3. /\ dir' = [d \in Dirs |-> dir'[d]] /\ dir'[o] = e
      /\ \A d \in Dirs : d # o => dir'[d] = dir[d]
  BY <1>1, <1>2 DEF IInv, Shape, Used
<1>4. \A d \in Dirs : Kept(d)
  BY <1>1, <1>3, ReloadFields DEF Kept, IInv, Shape
<1>5. Ahead'
  BY <1>1, <1>2, <1>3, ReloadFields DEF InotifyEvent, IInv, Ahead, Used
<1>6. \A d \in timers' : Used(d)
  BY <1>1, <1>2 DEF IInv, Known
<1>7. ChecksOnce'
  BY DEF InotifyEvent, IInv, ChecksOnce
<1>. QED
  BY <1>3, <1>4, <1>5, <1>6, <1>7, Static DEF InotifyEvent, IInv, Shape, Known

LEMMA StartLoadStep ==
  ASSUME IInv, NEW o, Used(o), NEW b \in BOOLEAN, StartLoad(o, b),
         UNCHANGED <<cache, timers, check, queue, lua, disk, main>>
  PROVE  Preserves
<1>. DEFINE e == AsyncDirLoad(dir[o], b)
            l == LoadWork(o, dir[o], b)
<1>1. o \in Dirs /\ dir[o] \in DirShape
  BY DEF Used, IInv, Shape
<1>2. /\ Begun(e, dir[o]) /\ e.is_scheduled = dir[o].is_scheduled
      /\ e.next_requested = dir[o].next_requested
      /\ e.in_progress = dir[o].in_progress
  BY <1>1, AsyncDirLoadFields
<1>3. dir' = [dir EXCEPT ![o] = e] /\ loads' = loads \cup {l}
  BY DEF StartLoad
<1>4. l \in LoadRec /\ l.dir = o /\ l.stage = "queued" /\ l.cookie = dir[o].cookie + 1
  BY <1>1, LoadWorkFields
<1>. HIDE DEF e, l
<1>5. Ahead'
  BY <1>1, <1>2, <1>3 DEF IInv, Ahead, Begun, Shape
<1>. QED
  BY <1>2, <1>3, <1>4, <1>5, Begins

LEMMA ReloadStep ==
  ASSUME IInv, NEW p \in Paths, NEW b \in BOOLEAN, Reload(p, b) PROVE Preserves
BY StartLoadStep DEF Reload, IInv, Known

LEMMA CheckStep ==
  ASSUME IInv, NEW o, Used(o), NEW k \in Checks, AsyncDirCheck(k, o),
         UNCHANGED <<cache, timers, loads, queue, lua, disk, main>>
  PROVE  Preserves
<1>1. o \in Dirs /\ dir[o] \in DirShape
  BY DEF Used, IInv, Shape
<1>2. SameBut(IncRef(dir[o], 1), dir[o])
  BY <1>1, RefFields
<1>3. /\ dir' = [d \in Dirs |-> dir'[d]]
      /\ \A d \in Dirs : dir'[d] = dir[d] \/ (Used(d) /\ SameBut(dir'[d], dir[d]))
  BY <1>1, <1>2 DEF AsyncDirCheck, IInv, Shape
<1>. DEFINE q == [IdleCheck EXCEPT !.stage = "queued", !.dir = o, !.seen = dir[o].version]
<1>4. q \in CheckRec /\ q.stage = "queued" /\ q.dir = o
  BY <1>1, DirTypes DEF IdleCheck, CheckRec
<1>5. check' = [check EXCEPT ![k] = q] /\ check[k].stage = "idle"
  BY DEF AsyncDirCheck
<1>. HIDE DEF q
<1>6. /\ check' \in [Checks -> CheckRec]
      /\ \A c \in Checks : check'[c].stage # "idle" => Used(check'[c].dir)
  BY <1>4, <1>5 DEF IInv, Shape, Known
<1>7. ChecksOnce'
  <2>1. \A i \in 1 .. Len(queue) : queue[i].kind = "check" => queue[i].check \in Checks
    BY ResultTypes DEF IInv, Shape
  <2>. QED
    BY <1>5, <2>1 DEF IInv, ChecksOnce, Shape
<1>. QED
  BY <1>3, <1>6, <1>7, RefsOnly DEF IInv, Shape, Known

LEMMA FromPathCachedStep ==
  ASSUME IInv, NEW p \in Paths, NEW b \in BOOLEAN, FromPathCached(p, b) PROVE Preserves
<1>1. Used(cache[p])
  BY DEF FromPathCached, IInv, Known
<1>2. CASE StartLoad(cache[p], FALSE) /\ UNCHANGED <<check, checking>>
  BY <1>1, <1>2, StartLoadStep DEF FromPathCached
<1>3. CASE (\E k \in Checks : AsyncDirCheck(k, cache[p])) /\ UNCHANGED loads
  BY <1>1, <1>3, CheckStep DEF FromPathCached
<1>. QED
  BY <1>2, <1>3 DEF FromPathCached

LEMMA TimerStep == ASSUME IInv, NEW o \in Dirs, TimerFires(o) PROVE Preserves
<1>0. Used(o) /\ dir[o] \in DirShape
  BY DEF TimerFires, IInv, Known, Shape
<1>1. CASE o \in Live
  <2>. DEFINE d == [dir[o] EXCEPT !.is_scheduled = FALSE]
              e == Load(d)
              l == LoadWork(o, dir[o], WithFileinfo(dir[o]))
  <2>1. /\ d \in DirShape /\ ~d.is_scheduled /\ d.alloc = dir[o].alloc
        /\ d.path = dir[o].path /\ d.cookie = dir[o].cookie
        /\ d.files = dir[o].files /\ d.version = dir[o].version
        /\ d.fileinfo = dir[o].fileinfo /\ d.is_disowned = dir[o].is_disowned
    BY <1>0 DEF DirShape
  <2>2. Begun(e, d) /\ ~e.is_scheduled /\ ~e.next_requested
    BY <2>1, LoadFields
  <2>3. Begun(e, dir[o])
    BY <2>1, <2>2 DEF Begun
  <2>4. /\ dir' = [dir EXCEPT ![o] = e] /\ loads' = loads \cup {l}
        /\ timers' = timers \ {o} /\ main' = main /\ main = "loop"
    BY <1>1 DEF TimerFires
  <2>5. l \in LoadRec /\ l.dir = o /\ l.stage = "queued" /\ l.cookie = dir[o].cookie + 1
    BY <1>0, LoadWorkFields DEF WithFileinfo
  <2>. HIDE DEF d, e, l
  <2>6. Ahead'
    BY <1>0, <2>2, <2>4 DEF IInv, Ahead, Shape
  <2>. QED
    BY <1>0, <2>3, <2>4, <2>5, <2>6, Begins DEF TimerFires
<1>2. CASE o \notin Live
  <2>1. /\ dir' = dir /\ loads' = loads /\ main = "loop" /\ main' = "undefined"
        /\ timers' = timers \ {o}
    BY <1>2 DEF TimerFires
  <2>2. dir' = [d \in Dirs |-> dir'[d]] /\ ChecksOnce'
    BY <2>1 DEF TimerFires, IInv, ChecksOnce, Shape
  <2>. QED
    BY <2>1, <2>2, RefsOnly DEF TimerFires, IInv, Shape, Known
<1>. QED
  BY <1>1, <1>2

LEMMA DiskStep == ASSUME IInv, NEW p \in Paths, DiskChanges(p) PROVE Preserves
<1>. USE DEF DiskChanges
<1>1. Shape'
  BY DEF IInv, Shape
<1>2. \A q \in Paths : disk[q] \in Nat /\ disk'[q] >= disk[q]
  BY DEF IInv, Shape
<1>3. \A o : Used(o)' <=> Used(o)
  BY DEF Used
<1>4. /\ \A o \in Dirs : Used(o) => dir[o].path \in Paths /\ dir[o].version \in Nat
      /\ \A l \in loads : Used(l.dir) /\ l.version \in Nat
      /\ \A i \in 1 .. Len(queue) : queue[i].kind = "update" =>
           Used(queue[i].dir) /\ queue[i].version \in Nat
  BY DirTypes, LoadTypes, ResultTypes DEF IInv, Shape, Known, Used
<1>5. VersionsGrow'
  BY <1>2, <1>3, <1>4 DEF IInv, VersionsGrow, Used
<1>6. IInv'
  BY <1>1, <1>3, <1>5 DEF IInv, Known, ChecksOnce, CookiesUnique, Backed, Ahead,
     FileinfoFollows, UpdateBefore
<1>v. NoOlder
  BY DirTypes, SameVersions DEF IInv, Shape
<1>. QED
  BY <1>6, <1>v DEF Preserves

-----------------------------------------------------------------------------
(* Steps that create Dirs *)

\* What a Dir is after dir_create and possibly a first load
Created(e, p) ==
  /\ e \in DirShape /\ e.alloc = "live" /\ e.path = p
  /\ e.files = 0 /\ e.version = 0 /\ e.fileinfo = 0
  /\ ~e.is_scheduled /\ ~e.next_requested /\ ~e.in_progress

FirstLoad(l, o) == l \in LoadRec /\ l.dir = o /\ l.stage = "queued" /\ l.cookie = 1

LEMMA CreatedFields ==
  ASSUME NEW p \in Paths, NEW b \in BOOLEAN
  PROVE  /\ Created(NewDir(p), p)
         /\ Created(AsyncDirLoad(NewDir(p), b), p)
         /\ AsyncDirLoad(NewDir(p), b).cookie = 1
         /\ \A o \in Dirs : FirstLoad(LoadWork(o, NewDir(p), b), o)
<1>1. NewDir(p) \in DirShape /\ NewDir(p).cookie = 0 /\ Created(NewDir(p), p)
  BY NewDirFields DEF Created
<1>2. /\ Created(AsyncDirLoad(NewDir(p), b), p)
      /\ AsyncDirLoad(NewDir(p), b).cookie = 1
  BY <1>1, AsyncDirLoadFields DEF Created, Begun
<1>3. \A o \in Dirs : FirstLoad(LoadWork(o, NewDir(p), b), o)
  <2>. TAKE o \in Dirs
  <2>. QED
    BY <1>1, LoadWorkFields DEF FirstLoad
<1>. QED
  BY <1>1, <1>2, <1>3

LEMMA Creates ==
  ASSUME IInv, NEW N, N \subseteq Fresh, NEW W,
         dir' = [o \in Dirs |-> dir'[o]],
         \A o \in Dirs \ N : Kept(o),
         \A o \in N : \E p \in Paths : Created(dir'[o], p),
         loads' = loads \cup W,
         \A l \in W : l.dir \in N /\ FirstLoad(l, l.dir) /\ dir'[l.dir].cookie = 1,
         \A l, m \in W : l.dir = m.dir => l = m,
         cache' \in [Paths -> Dirs \cup {None}],
         \A p \in Paths : cache'[p] # None => Used(cache'[p]) \/ cache'[p] \in N,
         timers' \subseteq timers, Ahead',
         check' \in [Checks -> CheckRec],
         \A k \in Checks : check'[k].stage = check[k].stage /\ check'[k].dir = check[k].dir,
         queue' = queue, lua' = lua, disk' = disk, main' = main
  PROVE  Preserves
<1>. USE DEF FirstLoad
<1>0. /\ \A o \in N : /\ o \in Dirs /\ ~Used(o) /\ Used(o)'
                      /\ dir'[o] \in DirShape /\ dir'[o].path \in Paths
                      /\ dir'[o].version = 0 /\ dir'[o].files = 0
                      /\ dir'[o].fileinfo = 0 /\ ~dir'[o].in_progress
      /\ \A o : Used(o) => o \in Dirs \ N /\ Used(o)'
  BY DEF Fresh, Used, Created, Kept
<1>a. /\ \A m \in loads : m.dir \in Dirs /\ m.dir \notin N /\ m.cookie \in Nat
      /\ \A i \in 1 .. Len(queue) : queue[i].kind # "check" =>
           /\ queue[i].dir \in Dirs /\ queue[i].dir \notin N
           /\ queue[i].cookie \in Nat
      /\ \A d \in Dirs : dir[d].cookie \in Nat
  BY <1>0, ShapeTypes DEF IInv, Known
<1>1. Shape'
  <2>1. dir' \in [Dirs -> DirShape]
    BY <1>0 DEF Kept
  <2>. QED
    BY <2>1 DEF IInv, Shape
<1>2. Known'
  <2>1. \A o \in Dirs : IF dir'[o].alloc = "unused" THEN dir'[o].version = 0
                                                  ELSE dir'[o].path \in Paths
    BY <1>0 DEF IInv, Known, Kept
  <2>2. \A p \in Paths : cache'[p] # None => Used(cache[p])'
    BY <1>0
  <2>3. (\A o \in timers' : Used(o)') /\ (\A o \in lua' : Used(o)')
    BY <1>0 DEF IInv, Known
  <2>4. \A l \in loads' : Used(l.dir)'
    BY <1>0 DEF IInv, Known
  <2>5. \A i \in 1 .. Len(queue') : queue'[i].kind # "check" => Used(queue[i].dir)'
    BY <1>0 DEF IInv, Known
  <2>6. \A k \in Checks : check'[k].stage # "idle" => Used(check[k].dir)'
    BY <1>0 DEF IInv, Known
  <2>. QED
    BY <2>1, <2>2, <2>3, <2>4, <2>5, <2>6 DEF Known
<1>3. ChecksOnce'
  <2>1. \A i \in 1 .. Len(queue) : queue[i].kind = "check" => queue[i].check \in Checks
    BY ResultTypes DEF IInv, Shape
  <2>. QED
    BY <2>1 DEF IInv, ChecksOnce
<1>4. CookiesUnique'
  <2>. USE <1>a DEF IInv, CookiesUnique, Kept
  <2>1. \A m \in loads' : m.cookie <= dir'[m.dir].cookie
    OBVIOUS
  <2>2. \A m, n \in loads' : m.dir = n.dir /\ m.cookie = n.cookie => m = n
    OBVIOUS
  <2>3. \A i \in 1 .. Len(queue') :
         queue'[i].kind = "update" => queue'[i].cookie <= dir'[queue'[i].dir].cookie
    OBVIOUS
  <2>4. \A m \in loads' : \A i \in 1 .. Len(queue') :
          (/\ queue'[i].kind = "update" /\ m.stage \in {"queued", "read"}
           /\ queue'[i].dir = m.dir) => queue'[i].cookie # m.cookie
    OBVIOUS
  <2>. QED
    BY <2>1, <2>2, <2>3, <2>4
<1>5. VersionsGrow'
  <2>. USE DEF IInv, VersionsGrow, Kept
  <2>1. \A o \in Dirs : Used(o)' => dir'[o].version <= disk'[dir'[o].path]
    <3>1. \A o \in N : dir'[o].version <= disk'[dir'[o].path]
      BY <1>0 DEF Shape
    <3>2. \A o \in Dirs \ N : Used(o)' => dir'[o].version <= disk'[dir'[o].path]
      BY DEF Used
    <3>. QED
      BY <3>1, <3>2
  <2>2. \A l \in loads' : l.stage = "read" =>
       /\ l.version <= disk'[dir'[l.dir].path]
       /\ l.cookie = dir'[l.dir].cookie => dir'[l.dir].version <= l.version
    BY <1>a
  <2>3. \A i \in 1 .. Len(queue') : queue'[i].kind = "update" =>
       /\ queue'[i].version <= disk'[dir'[queue'[i].dir].path]
       /\ queue'[i].cookie = dir'[queue'[i].dir].cookie =>
            dir'[queue'[i].dir].version <= queue'[i].version
    BY <1>a
  <2>. QED
    BY <2>1, <2>2, <2>3
<1>6. Backed'
  BY <1>0, <1>a DEF IInv, Backed, Kept
<1>7. Prompt => FileinfoFollows'
  <2>. SUFFICES ASSUME Prompt PROVE FileinfoFollows'
    OBVIOUS
  <2>0. FileinfoFollows
    BY DEF IInv
  <2>1. \A d \in Dirs \ N : \A c, n : UpdateBefore(d, c, n) => UpdateBefore(d, c, n)'
    BY <1>a DEF UpdateBefore, Kept
  <2>2. ASSUME main # "torn", NEW m \in loads'
        PROVE  /\ m.stage # "submitted"
               /\ m.stage = "info" =>
                    /\ m.seen = m.cookie
                    /\ UpdateBefore(m.dir, m.cookie, Len(queue) + 1)'
    BY <1>a, <2>0, <2>1, <2>2 DEF FileinfoFollows
  <2>3. ASSUME main # "torn", NEW i \in 1 .. Len(queue), queue[i].kind = "fileinfo"
        PROVE  /\ queue[i].files = queue[i].cookie
               /\ queue[i].cookie <= dir'[queue[i].dir].cookie
               /\ UpdateBefore(queue[i].dir, queue[i].cookie, i)'
    BY <1>a, <2>0, <2>1, <2>3 DEF FileinfoFollows, Kept
  <2>4. \A d \in Dirs : dir'[d].fileinfo \in {0, dir'[d].files}
    BY <1>0, <2>0 DEF FileinfoFollows, Kept
  <2>. QED
    BY <2>2, <2>3, <2>4 DEF FileinfoFollows
<1>v. NoOlder
  <2>1. \A o \in Dirs : dir'[o].version \in Nat
    BY <1>1, DirTypes DEF IInv, Shape
  <2>2. \A o \in N : dir[o].version = 0
    BY DEF IInv, Known, Fresh
  <2>. QED
    BY <2>1, <2>2, SameVersions DEF Kept
<1>. QED
  BY <1>1, <1>2, <1>3, <1>4, <1>5, <1>6, <1>7, <1>v DEF IInv, Preserves

LEMMA FromPathNewStep ==
  ASSUME IInv, NEW p \in Paths, NEW b \in BOOLEAN, FromPathNew(p, b) PROVE Preserves
<1>1. PICK o \in Fresh :
        /\ cache' = [cache EXCEPT ![p] = o]
        /\ dir' = [dir EXCEPT ![o] = IF b THEN AsyncDirLoad(NewDir(p), FALSE)
                                          ELSE NewDir(p)]
        /\ loads' = IF b THEN loads \cup {LoadWork(o, NewDir(p), FALSE)} ELSE loads
  BY DEF FromPathNew
<1>. DEFINE e == dir'[o]
            l == LoadWork(o, NewDir(p), FALSE)
            W == IF b THEN {l} ELSE {}
<1>2. o \in Dirs /\ Created(e, p) /\ (b => e.cookie = 1) /\ FirstLoad(l, o)
  BY <1>1, CreatedFields DEF Fresh, IInv, Shape
<1>3. /\ dir' = [d \in Dirs |-> dir'[d]]
      /\ \A d \in Dirs \ {o} : dir'[d] = dir[d]
      /\ loads' = loads \cup W
  BY <1>1, <1>2 DEF IInv, Shape
<1>. HIDE DEF e, l
<1>4. \A d \in Dirs \ {o} : Kept(d)
  BY <1>3 DEF Kept, IInv, Shape
<1>5. Ahead'
  BY <1>2, <1>3 DEF FromPathNew, Created, IInv, Ahead, Known, Used, Fresh, e
<1>6. \A m \in W : m.dir \in {o} /\ FirstLoad(m, m.dir) /\ dir'[m.dir].cookie = 1
  BY <1>2 DEF FirstLoad, e
<1>7. \A m, n \in W : m.dir = n.dir => m = n
  OBVIOUS
<1>8. /\ cache' \in [Paths -> Dirs \cup {None}]
      /\ \A q \in Paths : cache'[q] # None => Used(cache'[q]) \/ cache'[q] \in {o}
  BY <1>1, <1>2 DEF IInv, Shape, Known
<1>9. check' = check /\ check \in [Checks -> CheckRec]
  BY DEF FromPathNew, IInv, Shape
<1>10. {o} \subseteq Fresh /\ \A d \in {o} : \E q \in Paths : Created(dir'[d], q)
  BY <1>2 DEF e
<1>. HIDE DEF W
<1>. QED
  BY <1>3, <1>4, <1>5, <1>6, <1>7, <1>8, <1>9, <1>10, Creates DEF FromPathNew

LEMMA DropCacheStep == ASSUME IInv, DropCache PROVE Preserves
<1>1. PICK new \in [Shown -> Fresh] :
        /\ \A p, q \in Shown : new[p] = new[q] => p = q
        /\ cache' = [p \in Paths |-> IF p \in Shown THEN new[p] ELSE None]
        /\ dir' = [o \in Dirs |->
             IF \E p \in Shown : new[p] = o
             THEN AsyncDirLoad(NewDir(CHOOSE p \in Shown : new[p] = o), FALSE)
             ELSE IF \E p \in Paths : cache[p] = o
             THEN DecRef([dir[o] EXCEPT !.is_disowned = TRUE], 1)
             ELSE dir[o]]
        /\ loads' = loads \cup {LoadWork(new[p], NewDir(p), FALSE) : p \in Shown}
  BY DEF DropCache
<1>. DEFINE N == {new[p] : p \in Shown}
            W == {LoadWork(new[p], NewDir(p), FALSE) : p \in Shown}
<1>2. N \subseteq Fresh /\ N \subseteq Dirs
  BY DEF Fresh
<1>3. \A o \in N : /\ \E p \in Paths : Created(dir'[o], p)
                   /\ dir'[o].cookie = 1
  <2>. SUFFICES ASSUME NEW o \in N
                PROVE  (\E p \in Paths : Created(dir'[o], p)) /\ dir'[o].cookie = 1
    OBVIOUS
  <2>. DEFINE p == CHOOSE p \in Shown : new[p] = o
  <2>1. p \in Paths
    BY DirsAssumption
  <2>2. dir'[o] = AsyncDirLoad(NewDir(p), FALSE)
    BY <1>1, <1>2
  <2>. HIDE DEF p, N
  <2>. QED
    BY <2>1, <2>2, CreatedFields
<1>4. \A o \in Dirs \ N :
        /\ Kept(o)
        /\ dir'[o].is_scheduled = dir[o].is_scheduled
        /\ dir'[o].next_requested = dir[o].next_requested
        /\ IF \E p \in Paths : cache[p] = o THEN dir'[o].is_disowned
           ELSE dir'[o].is_disowned = dir[o].is_disowned
  <2>. SUFFICES ASSUME NEW o \in Dirs \ N
       PROVE  /\ Kept(o)
              /\ dir'[o].is_scheduled = dir[o].is_scheduled
              /\ dir'[o].next_requested = dir[o].next_requested
              /\ IF \E p \in Paths : cache[p] = o THEN dir'[o].is_disowned
                 ELSE dir'[o].is_disowned = dir[o].is_disowned
    OBVIOUS
  <2>0. dir[o] \in DirShape
    BY DEF IInv, Shape
  <2>1. CASE \E p \in Paths : cache[p] = o
    <3>. DEFINE d == [dir[o] EXCEPT !.is_disowned = TRUE]
    <3>1. dir'[o] = DecRef(d, 1)
      BY <1>1, <2>1
    <3>2. /\ d \in DirShape /\ d.alloc = dir[o].alloc /\ d.path = dir[o].path
          /\ d.cookie = dir[o].cookie /\ d.files = dir[o].files
          /\ d.version = dir[o].version /\ d.fileinfo = dir[o].fileinfo
          /\ d.in_progress = dir[o].in_progress /\ d.is_scheduled = dir[o].is_scheduled
          /\ d.next_requested = dir[o].next_requested /\ d.is_disowned
      BY <2>0 DEF DirShape
    <3>3. dir[o].alloc # "unused"
      BY <2>1, DirsAssumption DEF IInv, Known, Used
    <3>. HIDE DEF d
    <3>. QED
      BY <2>1, <3>1, <3>2, <3>3, RefFields DEF SameBut, Kept
  <2>2. CASE ~\E p \in Paths : cache[p] = o
    <3>1. dir'[o] = dir[o]
      BY <1>1, <2>2
    <3>. QED
      BY <2>0, <2>2, <3>1 DEF Kept
  <2>. QED
    BY <2>1, <2>2
<1>5. \A l \in W : l.dir \in N /\ FirstLoad(l, l.dir) /\ dir'[l.dir].cookie = 1
  <2>1. ASSUME NEW p \in Shown
        PROVE  FirstLoad(LoadWork(new[p], NewDir(p), FALSE), new[p])
    <3>1. p \in Paths /\ new[p] \in Dirs
      BY DirsAssumption DEF Fresh
    <3>. QED
      BY <3>1, CreatedFields
  <2>2. SUFFICES ASSUME NEW l \in W
                 PROVE  l.dir \in N /\ FirstLoad(l, l.dir) /\ dir'[l.dir].cookie = 1
    OBVIOUS
  <2>3. PICK p \in Shown : l = LoadWork(new[p], NewDir(p), FALSE)
    OBVIOUS
  <2>4. FirstLoad(l, new[p]) /\ new[p] \in N
    BY <2>1, <2>3
  <2>. HIDE DEF N, W
  <2>. QED
    BY <1>3, <2>4 DEF FirstLoad
<1>6. \A l, m \in W : l.dir = m.dir => l = m
  <2>. SUFFICES ASSUME NEW l \in W, NEW m \in W, l.dir = m.dir PROVE l = m
    OBVIOUS
  <2>1. PICK p \in Shown : l = LoadWork(new[p], NewDir(p), FALSE)
    OBVIOUS
  <2>2. PICK q \in Shown : m = LoadWork(new[q], NewDir(q), FALSE)
    OBVIOUS
  <2>3. l.dir = new[p] /\ m.dir = new[q]
    BY <2>1, <2>2 DEF LoadWork
  <2>4. p = q
    BY <1>1, <2>3
  <2>. QED
    BY <2>1, <2>2, <2>4
<1>7. /\ cache' \in [Paths -> Dirs \cup {None}]
      /\ \A p \in Paths : cache'[p] # None => Used(cache'[p]) \/ cache'[p] \in N
  BY <1>1, <1>2
<1>8. timers' = {o \in timers : \A p \in Paths : cache[p] # o} /\ main' = main
  BY DEF DropCache
<1>9. Ahead'
  <2>1. \A o \in N : o \notin timers /\ \E p \in Paths : Created(dir'[o], p)
    BY <1>2, <1>3 DEF IInv, Known, Used, Fresh
  <2>2. \A o \in N : /\ o \notin timers' /\ ~dir'[o].is_scheduled
                     /\ ~dir'[o].next_requested
    BY <1>8, <2>1 DEF Created
  <2>. HIDE DEF N
  <2>. QED
    BY <1>4, <1>8, <2>2 DEF IInv, Ahead, Kept
<1>10. /\ check' \in [Checks -> CheckRec]
       /\ \A k \in Checks : check'[k].stage = check[k].stage /\ check'[k].dir = check[k].dir
  <2>. SUFFICES ASSUME NEW k \in Checks
                PROVE  /\ check'[k] \in CheckRec /\ check'[k].stage = check[k].stage
                       /\ check'[k].dir = check[k].dir
    BY DEF DropCache
  <2>. DEFINE v == check[k].cancelled \/ k \in checking
  <2>1. check[k] \in CheckRec /\ v \in BOOLEAN
    BY DEF IInv, Shape
  <2>2. check'[k] = [check[k] EXCEPT !.cancelled = v]
    BY DEF DropCache
  <2>. HIDE DEF v
  <2>. QED
    BY <2>1, <2>2 DEF CheckRec
<1>11. dir' = [o \in Dirs |-> dir'[o]] /\ loads' = loads \cup W
  BY <1>1
<1>12. /\ queue' = queue /\ lua' = lua /\ disk' = disk /\ main' = main
       /\ timers' \subseteq timers /\ N \subseteq Fresh
       /\ \A o \in N : \E p \in Paths : Created(dir'[o], p)
       /\ \A o \in Dirs \ N : Kept(o)
  BY <1>2, <1>3, <1>4, <1>8 DEF DropCache
<1>. HIDE DEF N, W
<1>. QED
  BY <1>5, <1>6, <1>7, <1>9, <1>10, <1>11, <1>12, Creates

-----------------------------------------------------------------------------
(* Steps that take a result from the queue and apply no update: no update, or *)
(* one that a newer load has superseded                                     *)

LEMMA Pops ==
  ASSUME IInv, queue # <<>>, queue' = Tail(queue),
         \/ main = "torn" \/ Head(queue).kind # "update"
         \/ Head(queue).cookie # dir[Head(queue).dir].cookie,
         dir' = [o \in Dirs |-> dir'[o]],
         \A o \in Dirs : Kept(o), Ahead',
         \A o \in timers' : Used(o),
         check' = IF Head(queue).kind = "check"
                  THEN [check EXCEPT ![Head(queue).check] = IdleCheck] ELSE check,
         cache' = cache, lua' = lua, loads' = loads, disk' = disk, main' = main
  PROVE  Preserves
<1>. DEFINE r == Head(queue)
<1>0. \A o : Used(o)' <=> Used(o)
  BY KeptUsed
<1>a. /\ \A l \in loads : l.dir \in Dirs
      /\ \A i \in 1 .. Len(queue) : queue[i].kind # "check" => queue[i].dir \in Dirs
      /\ \A i \in 1 .. Len(queue) : queue[i].kind = "check" => queue[i].check \in Checks
  BY ShapeTypes, ResultTypes DEF IInv, Shape
<1>b. /\ queue' \in Seq(Result) /\ Len(queue) \in Nat /\ Len(queue) > 0
      /\ Len(queue') = Len(queue) - 1
      /\ \A i \in 1 .. Len(queue') :
           i + 1 \in 1 .. Len(queue) /\ queue'[i] = queue[i + 1]
      /\ r = queue[1] /\ r \in Result /\ 1 \in 1 .. Len(queue)
  BY TailFacts DEF IInv, Shape
<1>e. \/ main = "torn" \/ queue[1].kind # "update"
      \/ queue[1].cookie # dir[queue[1].dir].cookie
  BY <1>b
<1>. HIDE DEF r
<1>c. /\ check' \in [Checks -> CheckRec]
      /\ \A k \in Checks :
           \/ check'[k] = check[k] /\ ~(r.kind = "check" /\ r.check = k)
           \/ check'[k].stage = "idle" /\ r.kind = "check" /\ r.check = k
  <2>1. IdleCheck \in CheckRec /\ IdleCheck.stage = "idle"
    BY DEF IdleCheck, CheckRec
  <2>2. r.kind = "check" => r.check \in Checks
    BY <1>b, ResultTypes
  <2>3. check' = IF r.kind = "check" THEN [check EXCEPT ![r.check] = IdleCheck] ELSE check
    BY DEF r
  <2>4. check \in [Checks -> CheckRec]
    BY DEF IInv, Shape
  <2>. QED
    BY <2>1, <2>2, <2>3, <2>4
<1>1. Shape'
  <2>1. dir' \in [Dirs -> DirShape]
    BY DEF Kept
  <2>2. timers' \subseteq Dirs
    BY DEF Used
  <2>. QED
    BY <1>b, <1>c, <2>1, <2>2 DEF IInv, Shape
<1>2. Known'
  <2>1. \A o \in Dirs : IF dir'[o].alloc = "unused" THEN dir'[o].version = 0
                                                  ELSE dir'[o].path \in Paths
    BY DEF IInv, Known, Kept
  <2>2. /\ \A p \in Paths : cache'[p] # None => Used(cache[p])'
        /\ \A o \in timers' : Used(o)'
        /\ \A o \in lua' : Used(o)'
        /\ \A l \in loads' : Used(l.dir)'
    BY <1>0 DEF IInv, Known
  <2>3. \A i \in 1 .. Len(queue') : queue'[i].kind # "check" => Used(queue[i].dir)'
    BY <1>0, <1>b DEF IInv, Known
  <2>4. \A k \in Checks : check'[k].stage # "idle" => Used(check[k].dir)'
    BY <1>0, <1>c DEF IInv, Known
  <2>. QED
    BY <2>1, <2>2, <2>3, <2>4 DEF Known
<1>3. ChecksOnce'
  <2>1. \A i \in 1 .. Len(queue') : queue'[i].kind = "check" =>
          check'[queue'[i].check].stage = "done"
    BY <1>a, <1>b, <1>c DEF IInv, ChecksOnce
  <2>2. \A i, j \in 1 .. Len(queue') :
          (queue'[i].kind = "check" /\ queue'[j].kind = "check" /\ i # j)
            => queue'[i].check # queue'[j].check
    BY <1>b DEF IInv, ChecksOnce
  <2>. QED
    BY <2>1, <2>2 DEF ChecksOnce
<1>4. CookiesUnique'
  BY <1>a, <1>b DEF IInv, CookiesUnique, Kept
<1>5. VersionsGrow'
  <2>. USE DEF IInv, VersionsGrow, Kept
  <2>1. \A o \in Dirs : Used(o)' => dir'[o].version <= disk'[dir'[o].path]
    BY <1>0
  <2>2. \A l \in loads' : l.stage = "read" =>
       /\ l.version <= disk'[dir'[l.dir].path]
       /\ l.cookie = dir'[l.dir].cookie => dir'[l.dir].version <= l.version
    BY <1>a
  <2>3. \A i \in 1 .. Len(queue') : queue'[i].kind = "update" =>
       /\ queue'[i].version <= disk'[dir'[queue'[i].dir].path]
       /\ queue'[i].cookie = dir'[queue'[i].dir].cookie =>
            dir'[queue'[i].dir].version <= queue'[i].version
    BY <1>a, <1>b
  <2>. QED
    BY <2>1, <2>2, <2>3
<1>d. \A i \in 1 .. Len(queue) : i # 1 => i - 1 \in 1 .. Len(queue') /\ queue'[i - 1] = queue[i]
  BY <1>b
<1>6. Backed'
  <2>. SUFFICES ASSUME main = "loop", NEW o \in Dirs, dir[o].in_progress
       PROVE  \/ \E l \in loads : /\ l.dir = o /\ l.cookie = dir[o].cookie
                                  /\ l.stage \in {"queued", "read"}
              \/ \E i \in 1 .. Len(queue') :
                   /\ queue'[i].kind = "update" /\ queue'[i].dir = o
                   /\ queue'[i].cookie = dir[o].cookie
    BY DEF Backed, Kept
  <2>1. CASE \E i \in 1 .. Len(queue) : /\ queue[i].kind = "update" /\ queue[i].dir = o
                                        /\ queue[i].cookie = dir[o].cookie
    BY <1>d, <1>e, <2>1
  <2>. QED
    BY <2>1 DEF IInv, Backed
<1>7. Prompt => FileinfoFollows'
  <2>. SUFFICES ASSUME Prompt PROVE FileinfoFollows'
    OBVIOUS
  <2>0. FileinfoFollows
    BY DEF IInv
  <2>1. ASSUME main # "torn", NEW o \in Dirs, NEW c, NEW n \in Nat, NEW k \in Nat,
               n = k + 1, UpdateBefore(o, c, n)
        PROVE  UpdateBefore(o, c, k)'
    <3>1. dir'[o].cookie = dir[o].cookie /\ dir'[o].files = dir[o].files
      BY DEF Kept
    <3>2. CASE /\ dir[o].cookie = c
               /\ \E j \in 1 .. Len(queue) : /\ j < n /\ queue[j].kind = "update"
                                             /\ queue[j].dir = o /\ queue[j].cookie = c
      <4>1. PICK j \in 1 .. Len(queue) : /\ j < n /\ queue[j].kind = "update"
                                         /\ queue[j].dir = o /\ queue[j].cookie = c
        BY <3>2
      <4>2. /\ j - 1 \in 1 .. Len(queue') /\ queue'[j - 1] = queue[j] /\ j - 1 < k
        BY <1>d, <1>e, <2>1, <3>2, <4>1
      <4>. QED
        BY <4>1, <4>2 DEF UpdateBefore
    <3>. QED
      BY <2>1, <3>1, <3>2 DEF UpdateBefore
  <2>2. ASSUME main # "torn", NEW m \in loads
        PROVE  /\ m.stage # "submitted"
               /\ m.stage = "info" =>
                    /\ m.seen = m.cookie
                    /\ UpdateBefore(m.dir, m.cookie, Len(queue) + 1)'
    <3>1. /\ Len(queue) + 1 \in Nat /\ Len(queue') + 1 \in Nat
          /\ Len(queue) + 1 = Len(queue') + 1 + 1 /\ m.dir \in Dirs
      BY <1>a, <1>b
    <3>2. m.stage = "info" => UpdateBefore(m.dir, m.cookie, Len(queue) + 1)'
      BY <2>0, <2>1, <2>2, <3>1 DEF FileinfoFollows
    <3>. QED
      BY <2>0, <2>2, <3>2 DEF FileinfoFollows
  <2>3. ASSUME main # "torn", NEW i \in 1 .. Len(queue'), queue'[i].kind = "fileinfo"
        PROVE  /\ queue'[i].files = queue'[i].cookie
               /\ queue'[i].cookie <= dir'[queue'[i].dir].cookie
               /\ UpdateBefore(queue[i].dir, queue[i].cookie, i)'
    <3>1. i + 1 \in 1 .. Len(queue) /\ queue'[i] = queue[i + 1] /\ i + 1 \in Nat
      BY <1>b
    <3>2. UpdateBefore(queue[i + 1].dir, queue[i + 1].cookie, i + 1)
      BY <2>0, <2>3, <3>1 DEF FileinfoFollows
    <3>3. queue[i + 1].dir \in Dirs
      BY <1>a, <2>3, <3>1
    <3>4. UpdateBefore(queue[i].dir, queue[i].cookie, i)'
      BY <2>1, <2>3, <3>1, <3>2, <3>3
    <3>. QED
      BY <2>0, <2>3, <3>1, <3>3, <3>4 DEF FileinfoFollows, Kept
  <2>4. \A d \in Dirs : dir'[d].fileinfo \in {0, dir'[d].files}
    BY <2>0 DEF FileinfoFollows, Kept
  <2>. QED
    BY <2>2, <2>3, <2>4 DEF FileinfoFollows
<1>v. NoOlder
  <2>1. \A o \in Dirs : dir'[o].version \in Nat
    BY <1>1, DirTypes DEF IInv, Shape
  <2>. QED
    BY <2>1, SameVersions DEF Kept
<1>. QED
  BY <1>1, <1>2, <1>3, <1>4, <1>5, <1>6, <1>7, <1>v DEF IInv, Preserves

LEMMA HandleFileinfoStep == ASSUME IInv, HandleFileinfo PROVE Preserves
<1>. DEFINE r == Head(queue)
            o == r.dir
<1>1. /\ queue # <<>> /\ queue' = Tail(queue) /\ r.kind = "fileinfo" /\ main = "loop"
      /\ r = queue[1] /\ r \in Result /\ 1 \in 1 .. Len(queue)
  BY TailFacts DEF HandleFileinfo, Dispatch, IInv, Shape
<1>. DEFINE d == dir[o]
            updated == IF d.cookie = r.cookie THEN [d EXCEPT !.fileinfo = r.files] ELSE d
            e == IF r.is_last_batch THEN DecRef(updated, 1) ELSE updated
<1>2. dir' = [dir EXCEPT ![o] = e]
  BY DEF HandleFileinfo, FileinfoCallback
<1>3. Used(o) /\ d \in DirShape /\ o \in Dirs
  BY <1>1 DEF IInv, Known, Used, Shape
<1>4. r.files \in Nat /\ r.cookie \in Nat
  BY <1>1, ResultTypes
<1>5. Prompt /\ d.cookie = r.cookie => r.files = d.files
  BY <1>1 DEF IInv, FileinfoFollows, UpdateBefore
<1>. HIDE DEF r, d
<1>6. /\ updated \in DirShape /\ updated.alloc = d.alloc /\ updated.path = d.path
      /\ updated.cookie = d.cookie /\ updated.files = d.files
      /\ updated.version = d.version /\ updated.in_progress = d.in_progress
      /\ updated.is_scheduled = d.is_scheduled
      /\ updated.next_requested = d.next_requested
      /\ updated.is_disowned = d.is_disowned
      /\ Prompt => updated.fileinfo \in {d.fileinfo, d.files}
  BY <1>3, <1>4, <1>5 DEF DirShape
<1>. HIDE DEF updated
<1>7. e = updated \/ SameBut(e, updated)
  BY <1>6, RefFields
<1>. HIDE DEF e, o
<1>8. dir' = [x \in Dirs |-> dir'[x]] /\ dir'[o] = e /\ \A x \in Dirs \ {o} : dir'[x] = dir[x]
  BY <1>2, <1>3 DEF IInv, Shape
<1>9. \A x \in Dirs : Kept(x)
  <2>1. Kept(o)
    BY <1>3, <1>6, <1>7, <1>8 DEF Kept, SameBut, d, Used
  <2>2. \A x \in Dirs \ {o} : Kept(x)
    BY <1>8 DEF Kept, IInv, Shape
  <2>. QED
    BY <2>1, <2>2
<1>10. \A x \in Dirs : /\ dir'[x].is_scheduled = dir[x].is_scheduled
                       /\ dir'[x].next_requested = dir[x].next_requested
                       /\ dir'[x].is_disowned = dir[x].is_disowned
  BY <1>6, <1>7, <1>8 DEF SameBut, d
<1>a. timers' = timers /\ main' = main
  BY DEF HandleFileinfo, FileinfoCallback, Dispatch
<1>11. Ahead' /\ \A x \in timers' : Used(x)
  BY <1>9, <1>10, <1>a DEF IInv, Ahead, Kept, Known
<1>. QED
  BY <1>1, <1>8, <1>9, <1>11, Pops
  DEF HandleFileinfo, FileinfoCallback, Dispatch, r

LEMMA HandleCheckStep == ASSUME IInv, HandleCheck PROVE Preserves
<1>. DEFINE r == Head(queue)
            c == check[r.check]
            o == c.dir
            d == IF c.reload /\ ~c.cancelled THEN LoaderDirReload(dir[o]) ELSE dir[o]
            e == DecRef(d, 1)
<1>1. /\ queue # <<>> /\ queue' = Tail(queue) /\ r.kind = "check" /\ main = "loop"
      /\ r = queue[1] /\ r \in Result /\ 1 \in 1 .. Len(queue) /\ main' = main
  BY TailFacts DEF HandleCheck, Dispatch, IInv, Shape
<1>2. /\ dir' = [dir EXCEPT ![o] = e]
      /\ timers' = IF d.is_scheduled THEN timers \cup {o} ELSE timers
      /\ check' = [check EXCEPT ![r.check] = IdleCheck]
  BY DEF HandleCheck, CheckCallback, TimersWith
<1>3. Used(o) /\ dir[o] \in DirShape /\ o \in Dirs
  BY <1>1, ResultTypes DEF IInv, Known, Used, Shape, ChecksOnce
<1>4. /\ d \in DirShape
      /\ d.alloc = dir[o].alloc /\ d.path = dir[o].path /\ d.cookie = dir[o].cookie
      /\ d.files = dir[o].files /\ d.version = dir[o].version
      /\ d.fileinfo = dir[o].fileinfo /\ d.in_progress = dir[o].in_progress
      /\ d.is_disowned = dir[o].is_disowned
      /\ \/ /\ d.is_scheduled = dir[o].is_scheduled
            /\ d.next_requested = dir[o].next_requested
         \/ /\ ~dir[o].in_progress /\ ~dir[o].is_disowned
            /\ d.is_scheduled /\ ~d.next_requested
         \/ /\ dir[o].in_progress /\ ~dir[o].is_scheduled
            /\ ~d.is_scheduled /\ d.next_requested
  BY <1>3, ReloadFields
<1>. HIDE DEF d
<1>5. SameBut(e, d)
  BY <1>4, RefFields
<1>. HIDE DEF e, o, c, r
<1>6. dir' = [x \in Dirs |-> dir'[x]] /\ dir'[o] = e /\ \A x \in Dirs \ {o} : dir'[x] = dir[x]
  BY <1>2, <1>3 DEF IInv, Shape
<1>7. \A x \in Dirs : Kept(x)
  <2>1. Kept(o)
    BY <1>3, <1>4, <1>5, <1>6 DEF Kept, SameBut, Used
  <2>2. \A x \in Dirs \ {o} : Kept(x)
    BY <1>6 DEF Kept, IInv, Shape
  <2>. QED
    BY <2>1, <2>2
<1>8. Ahead'
  <2>1. /\ e.is_scheduled = d.is_scheduled /\ e.next_requested = d.next_requested
        /\ e.in_progress = d.in_progress /\ e.is_disowned = d.is_disowned
    BY <1>5 DEF SameBut
  <2>. QED
    BY <1>1, <1>2, <1>3, <1>4, <1>6, <2>1 DEF IInv, Ahead
<1>9. \A x \in timers' : Used(x)
  BY <1>2, <1>3 DEF IInv, Known
<1>. QED
  BY <1>1, <1>2, <1>6, <1>7, <1>8, <1>9, Pops
  DEF HandleCheck, CheckCallback, Dispatch, r

LEMMA DrainStep == ASSUME IInv, DrainResult PROVE Preserves
<1>. DEFINE r == Head(queue)
            o == IF r.kind = "check" THEN check[r.check].dir ELSE r.dir
            held == r.kind = "fileinfo" => r.is_last_batch
<1>1. /\ queue # <<>> /\ queue' = Tail(queue) /\ main = "torn"
      /\ r = queue[1] /\ r \in Result /\ 1 \in 1 .. Len(queue) /\ main' = main
  BY TailFacts DEF DrainResult, IInv, Shape
<1>2. /\ dir' = IF held THEN [dir EXCEPT ![o] = DecRef(@, 1)] ELSE dir
      /\ check' = IF r.kind = "check" THEN [check EXCEPT ![r.check] = IdleCheck] ELSE check
      /\ timers' = timers /\ cache' = cache /\ lua' = lua /\ loads' = loads /\ disk' = disk
  BY DEF DrainResult
<1>3. Used(o) /\ dir[o] \in DirShape /\ o \in Dirs
  BY <1>1, ResultTypes DEF IInv, Known, Used, Shape, ChecksOnce
<1>. HIDE DEF o, r, held
<1>4. SameBut(DecRef(dir[o], 1), dir[o])
  BY <1>3, RefFields
<1>5. dir' = [x \in Dirs |-> dir'[x]]
      /\ \A x \in Dirs : dir'[x] = dir[x] \/ (Used(x) /\ SameBut(dir'[x], dir[x]))
  BY <1>2, <1>3, <1>4 DEF IInv, Shape
<1>6. \A x \in Dirs : Kept(x)
  BY <1>5, SameButKept DEF IInv, Shape
<1>7. Ahead' /\ \A x \in timers' : Used(x)
  BY <1>1, <1>2 DEF Ahead, IInv, Known
<1>. QED
  BY <1>1, <1>2, <1>5, <1>6, <1>7, Pops DEF r

LEMMA TeardownStep == ASSUME IInv, PoolTeardown PROVE Preserves
<1>1. /\ main = "deinit" /\ main' = "torn" /\ dir' = dir /\ cache' = cache
      /\ timers' = timers /\ queue' = queue /\ lua' = lua /\ disk' = disk
      /\ loads' = {[l EXCEPT !.stage = "dropped"] : l \in loads}
  BY DEF PoolTeardown
<1>2. \A m \in loads' : \E l \in loads :
        /\ m = [l EXCEPT !.stage = "dropped"] /\ m \in LoadRec /\ m.stage = "dropped"
        /\ m.dir = l.dir /\ m.cookie = l.cookie
  BY <1>1 DEF IInv, Shape, LoadRec
<1>3. /\ check' \in [Checks -> CheckRec]
      /\ \A k \in Checks : \/ check'[k] = check[k]
                           \/ /\ check[k].stage = "queued" /\ check'[k].stage = "dropped"
                              /\ check'[k].dir = check[k].dir
  BY DEF PoolTeardown, IInv, Shape, CheckRec
<1>4. \A o : Used(o)' <=> Used(o)
  BY <1>1 DEF Used
<1>5. Shape'
  BY <1>1, <1>2, <1>3 DEF IInv, Shape
<1>6. Known'
  <2>1. \A l \in loads' : Used(l.dir)'
    BY <1>2, <1>4 DEF IInv, Known
  <2>2. \A k \in Checks : check'[k].stage # "idle" => Used(check[k].dir)'
    BY <1>3, <1>4 DEF IInv, Known
  <2>. QED
    BY <1>1, <1>4, <2>1, <2>2 DEF IInv, Known
<1>7. ChecksOnce'
  <2>1. \A i \in 1 .. Len(queue) : queue[i].kind = "check" => queue[i].check \in Checks
    BY ResultTypes DEF IInv, Shape
  <2>. QED
    BY <1>1, <1>3, <2>1 DEF IInv, ChecksOnce
<1>8. CookiesUnique'
  BY <1>1, <1>2 DEF IInv, CookiesUnique
<1>9. VersionsGrow'
  BY <1>1, <1>2, <1>4 DEF IInv, VersionsGrow
<1>10. IInv'
  BY <1>1, <1>5, <1>6, <1>7, <1>8, <1>9 DEF IInv, Backed, Ahead, FileinfoFollows
<1>v. NoOlder
  BY <1>1, DirTypes, SameVersions DEF IInv, Shape
<1>. QED
  BY <1>10, <1>v DEF Preserves

-----------------------------------------------------------------------------
(* Applying an update *)

\* e is d after the update r of load c was applied: with the same cookie, or
\* with another load begun in the same call.
Applied(e, d, r, begun) ==
  /\ e \in DirShape
  /\ d.alloc # "unused" => e.alloc # "unused"
  /\ e.path = d.path /\ e.is_disowned = d.is_disowned
  /\ e.cookie = IF begun THEN d.cookie + 1 ELSE d.cookie
  /\ e.files = r.cookie /\ e.version = r.version
  /\ e.fileinfo \in {0, e.files}
  /\ e.in_progress = begun

LEMMA AppliedFields ==
  ASSUME NEW d \in DirShape, NEW r \in Result, r.kind = "update"
  PROVE  LET n == [d EXCEPT !.in_progress = FALSE]
             e == DecRef(UpdateWith(n, r), 1)
             f == DecRef(UpdateWith(Load(n), r), 1)
             g == DecRef(UpdateWith(Schedule(n), r), 1)
         IN  /\ n \in DirShape /\ n.cookie = d.cookie /\ n.next_requested = d.next_requested
             /\ Applied(e, d, r, FALSE) /\ Applied(f, d, r, TRUE) /\ Applied(g, d, r, FALSE)
             /\ e.is_scheduled = d.is_scheduled /\ e.next_requested = d.next_requested
             /\ f.is_scheduled = d.is_scheduled /\ ~f.next_requested
             /\ g.is_scheduled /\ ~g.next_requested
<1>. DEFINE n == [d EXCEPT !.in_progress = FALSE]
            s == Schedule(n)
<1>1. /\ n \in DirShape /\ n.alloc = d.alloc /\ n.path = d.path /\ n.cookie = d.cookie
      /\ n.is_scheduled = d.is_scheduled /\ n.next_requested = d.next_requested
      /\ ~n.in_progress /\ n.is_disowned = d.is_disowned
  BY DEF DirShape
<1>. HIDE DEF n
<1>2. /\ s \in DirShape /\ s.alloc = d.alloc /\ s.path = d.path /\ s.cookie = d.cookie
      /\ s.is_scheduled /\ ~s.next_requested
      /\ ~s.in_progress /\ s.is_disowned = d.is_disowned
  BY <1>1 DEF DirShape, Schedule
<1>3. /\ Begun(Load(n), n) /\ Load(n).is_scheduled = d.is_scheduled
      /\ ~Load(n).next_requested /\ Load(n).in_progress
  BY <1>1, LoadFields
<1>. HIDE DEF s
<1>4. ASSUME NEW m \in DirShape
      PROVE  LET e == DecRef(UpdateWith(m, r), 1)
             IN  /\ e \in DirShape /\ (m.alloc # "unused" => e.alloc # "unused")
                 /\ e.path = m.path /\ e.cookie = m.cookie
                 /\ e.files = r.cookie /\ e.version = r.version
                 /\ e.fileinfo \in {0, e.files}
                 /\ e.is_scheduled = m.is_scheduled
                 /\ e.next_requested = m.next_requested
                 /\ e.in_progress = m.in_progress /\ e.is_disowned = m.is_disowned
  <2>1. UpdateWith(m, r) \in DirShape
    BY UpdateWithFields
  <2>2. SameBut(DecRef(UpdateWith(m, r), 1), UpdateWith(m, r))
    BY <2>1, RefFields
  <2>. QED
    BY <2>2, UpdateWithFields DEF SameBut
<1>. DEFINE e == DecRef(UpdateWith(n, r), 1)
            f == DecRef(UpdateWith(Load(n), r), 1)
            g == DecRef(UpdateWith(s, r), 1)
<1>5. /\ Applied(e, d, r, FALSE)
      /\ e.is_scheduled = d.is_scheduled /\ e.next_requested = d.next_requested
  <2>. HIDE DEF e
  <2>. QED
    BY <1>1, <1>4 DEF Applied, e
<1>6. /\ Applied(f, d, r, TRUE)
      /\ f.is_scheduled = d.is_scheduled /\ ~f.next_requested
  <2>1. Load(n) \in DirShape
    BY <1>3 DEF Begun
  <2>. QED
    BY <1>1, <1>3, <1>4, <2>1 DEF Applied, Begun
<1>7. Applied(g, d, r, FALSE) /\ g.is_scheduled /\ ~g.next_requested
  BY <1>2, <1>4 DEF Applied
<1>. QED
  BY <1>1, <1>5, <1>6, <1>7 DEF n, s

LEMMA Applies ==
  ASSUME IInv, main = "loop", queue # <<>>, queue' = Tail(queue),
         NEW r, r = Head(queue), r.kind = "update",
         NEW o, o = r.dir, dir[o].cookie = r.cookie,
         NEW begun \in BOOLEAN, NEW e,
         dir' = [dir EXCEPT ![o] = e], Applied(e, dir[o], r, begun),
         NEW l, l \in LoadRec, l.dir = o, l.stage = "queued",
         l.cookie = dir[o].cookie + 1,
         loads' = IF begun THEN loads \cup {l} ELSE loads,
         timers' \subseteq timers \cup {o}, Ahead',
         cache' = cache, lua' = lua, check' = check, disk' = disk, main' = main
  PROVE  IInv' /\ dir'[o].version >= dir[o].version
<1>b. /\ queue' \in Seq(Result) /\ Len(queue) \in Nat /\ Len(queue) > 0
      /\ Len(queue') = Len(queue) - 1
      /\ \A i \in 1 .. Len(queue') :
           /\ i + 1 \in 1 .. Len(queue) /\ i + 1 # 1
           /\ queue'[i] = queue[i + 1]
      /\ r = queue[1] /\ r \in Result /\ 1 \in 1 .. Len(queue)
      /\ \A i \in 1 .. Len(queue) : i # 1 => i - 1 \in 1 .. Len(queue') /\ queue'[i - 1] = queue[i]
  BY TailFacts DEF IInv, Shape
<1>a. /\ o \in Dirs /\ Used(o)
      /\ \A m \in loads : m.dir \in Dirs /\ m.cookie \in Nat
      /\ \A i \in 1 .. Len(queue) : queue[i].kind # "check" =>
           queue[i].dir \in Dirs /\ queue[i].cookie \in Nat
      /\ \A i \in 1 .. Len(queue') : queue'[i].kind # "check" =>
           queue'[i].dir \in Dirs /\ queue'[i].cookie \in Nat
      /\ \A d \in Dirs : dir[d] \in DirShape /\ dir[d].cookie \in Nat
      /\ r.cookie \in Nat /\ r.version \in Nat
  BY <1>b, ShapeTypes, ResultTypes DEF IInv, Known, Used
<1>0. /\ \A d \in Dirs : /\ dir'[d] \in DirShape
                         /\ dir'[d].alloc = "unused" <=> dir[d].alloc = "unused"
                         /\ dir'[d].path = dir[d].path
      /\ \A d \in Dirs \ {o} : dir'[d] = dir[d]
      /\ dir'[o].cookie = IF begun THEN dir[o].cookie + 1 ELSE dir[o].cookie
      /\ dir'[o].files = r.cookie /\ dir'[o].version = r.version
      /\ dir'[o].fileinfo \in {0, dir'[o].files} /\ dir'[o].in_progress = begun
  BY <1>a DEF Applied, IInv, Shape, Used
<1>c. \A d : Used(d)' <=> Used(d)
  BY <1>0 DEF Used
<1>1. Shape'
  <2>1. dir' \in [Dirs -> DirShape]
    BY <1>0, <1>a DEF IInv, Shape
  <2>. QED
    BY <1>a, <1>b, <2>1 DEF IInv, Shape
<1>2. Known'
  <2>1. \A d \in Dirs : IF dir'[d].alloc = "unused" THEN dir'[d].version = 0
                                                  ELSE dir'[d].path \in Paths
    BY <1>0, <1>a DEF IInv, Known, Used
  <2>2. /\ \A p \in Paths : cache'[p] # None => Used(cache[p])'
        /\ \A d \in timers' : Used(d)'
        /\ \A d \in lua' : Used(d)'
        /\ \A m \in loads' : Used(m.dir)'
        /\ \A k \in Checks : check'[k].stage # "idle" => Used(check[k].dir)'
    BY <1>a, <1>c DEF IInv, Known
  <2>3. \A i \in 1 .. Len(queue') : queue'[i].kind # "check" => Used(queue[i].dir)'
    BY <1>b, <1>c DEF IInv, Known
  <2>. QED
    BY <2>1, <2>2, <2>3 DEF Known
<1>3. ChecksOnce'
  BY <1>b DEF IInv, ChecksOnce
<1>4. CookiesUnique'
  <2>. USE <1>0, <1>a DEF IInv, CookiesUnique
  <2>1. \A m \in loads' : m.cookie <= dir'[m.dir].cookie
    OBVIOUS
  <2>2. \A m, n \in loads' : m.dir = n.dir /\ m.cookie = n.cookie => m = n
    <3>1. \A m \in loads : m.dir = o => m.cookie # l.cookie
      OBVIOUS
    <3>. QED
      BY <3>1
  <2>3. \A i \in 1 .. Len(queue') :
         queue'[i].kind = "update" => queue'[i].cookie <= dir'[queue'[i].dir].cookie
    BY <1>b
  <2>4. \A i, j \in 1 .. Len(queue') :
       (/\ queue'[i].kind = "update" /\ queue'[j].kind = "update" /\ i # j
        /\ queue'[i].dir = queue'[j].dir) => queue'[i].cookie # queue'[j].cookie
    BY <1>b
  <2>5. \A m \in loads' : \A i \in 1 .. Len(queue') :
          (/\ queue'[i].kind = "update" /\ m.stage \in {"queued", "read"}
           /\ queue'[i].dir = m.dir) => queue'[i].cookie # m.cookie
    BY <1>b
  <2>. QED
    BY <2>1, <2>2, <2>3, <2>4, <2>5
<1>5. r.version <= disk[dir[o].path] /\ dir[o].version <= r.version
  BY <1>b DEF IInv, VersionsGrow
<1>6. VersionsGrow'
  <2>1. \A d \in Dirs : Used(d)' => dir'[d].version <= disk'[dir'[d].path]
    BY <1>0, <1>a, <1>5, <1>c DEF IInv, VersionsGrow
  <2>2. \A m \in loads' : m.stage = "read" =>
       /\ m.version <= disk'[dir'[m.dir].path]
       /\ m.cookie = dir'[m.dir].cookie => dir'[m.dir].version <= m.version
    <3>1. \A m \in loads : m.stage = "read" /\ m.dir = o => m.cookie # dir'[o].cookie
      BY <1>0, <1>a, <1>b DEF IInv, CookiesUnique
    <3>. QED
      BY <1>0, <1>a, <3>1 DEF IInv, VersionsGrow
  <2>3. \A i \in 1 .. Len(queue') : queue'[i].kind = "update" =>
       /\ queue'[i].version <= disk'[dir'[queue'[i].dir].path]
       /\ queue'[i].cookie = dir'[queue'[i].dir].cookie =>
            dir'[queue'[i].dir].version <= queue'[i].version
    <3>1. \A i \in 1 .. Len(queue') :
            queue'[i].kind = "update" /\ queue'[i].dir = o => queue'[i].cookie # dir'[o].cookie
      BY <1>0, <1>a, <1>b DEF IInv, CookiesUnique
    <3>. QED
      BY <1>0, <1>a, <1>b, <3>1 DEF IInv, VersionsGrow
  <2>. QED
    BY <2>1, <2>2, <2>3 DEF VersionsGrow
<1>7. Backed'
  <2>. SUFFICES ASSUME NEW d \in Dirs, dir'[d].in_progress
       PROVE  \/ \E m \in loads' : /\ m.dir = d /\ m.cookie = dir'[d].cookie
                                   /\ m.stage \in {"queued", "read"}
              \/ \E i \in 1 .. Len(queue') :
                   /\ queue'[i].kind = "update" /\ queue'[i].dir = d
                   /\ queue'[i].cookie = dir'[d].cookie
    BY DEF Backed
  <2>1. CASE d = o
    BY <1>0, <2>1
  <2>2. CASE d # o
    <3>1. CASE \E i \in 1 .. Len(queue) : /\ queue[i].kind = "update" /\ queue[i].dir = d
                                          /\ queue[i].cookie = dir[d].cookie
      <4>1. PICK i \in 1 .. Len(queue) : /\ queue[i].kind = "update" /\ queue[i].dir = d
                                         /\ queue[i].cookie = dir[d].cookie
        BY <3>1
      <4>2. i - 1 \in 1 .. Len(queue') /\ queue'[i - 1] = queue[i]
        BY <1>b, <2>2, <4>1
      <4>3. dir'[d] = dir[d]
        BY <1>0, <2>2
      <4>. QED
        BY <4>1, <4>2, <4>3
    <3>. QED
      BY <1>0, <2>2, <3>1 DEF IInv, Backed
  <2>. QED
    BY <2>1, <2>2
<1>8. Prompt => FileinfoFollows'
  <2>. SUFFICES ASSUME Prompt PROVE FileinfoFollows'
    OBVIOUS
  <2>0. FileinfoFollows /\ CookiesUnique
    BY DEF IInv
  <2>1. ASSUME NEW d \in Dirs, NEW c \in Nat, c <= dir[d].cookie,
               NEW n \in Nat, NEW k \in Nat, n = k + 1, UpdateBefore(d, c, n)
        PROVE  UpdateBefore(d, c, k)'
    <3>1. CASE d = o
      BY <1>0, <1>a, <2>1, <3>1 DEF UpdateBefore
    <3>2. CASE d # o
      <4>1. CASE \E j \in 1 .. Len(queue) : /\ j < n /\ queue[j].kind = "update"
                                            /\ queue[j].dir = d /\ queue[j].cookie = c
        <5>1. PICK j \in 1 .. Len(queue) : /\ j < n /\ queue[j].kind = "update"
                                           /\ queue[j].dir = d /\ queue[j].cookie = c
          BY <4>1
        <5>2. /\ j - 1 \in 1 .. Len(queue') /\ queue'[j - 1] = queue[j] /\ j - 1 < k
          BY <1>b, <2>1, <3>2, <5>1
        <5>. QED
          BY <5>1, <5>2 DEF UpdateBefore
      <4>. QED
        BY <1>0, <2>1, <3>2, <4>1 DEF UpdateBefore
    <3>. QED
      BY <3>1, <3>2
  <2>2. ASSUME NEW m \in loads'
        PROVE  /\ m.stage # "submitted"
               /\ m.stage = "info" =>
                    /\ m.seen = m.cookie
                    /\ UpdateBefore(m.dir, m.cookie, Len(queue) + 1)'
    <3>1. /\ Len(queue) + 1 \in Nat /\ Len(queue') + 1 \in Nat
          /\ Len(queue) + 1 = Len(queue') + 1 + 1
      BY <1>b
    <3>2. m = l \/ (/\ m \in loads /\ m.dir \in Dirs /\ m.cookie \in Nat
                    /\ m.cookie <= dir[m.dir].cookie)
      BY <1>a, <2>0 DEF CookiesUnique
    <3>3. m \in loads /\ m.stage = "info" => UpdateBefore(m.dir, m.cookie, Len(queue) + 1)'
      BY <1>a, <2>0, <2>1, <3>1, <3>2 DEF FileinfoFollows, CookiesUnique
    <3>. QED
      BY <2>0, <3>2, <3>3 DEF FileinfoFollows
  <2>3. ASSUME NEW i \in 1 .. Len(queue'), queue'[i].kind = "fileinfo"
        PROVE  /\ queue'[i].files = queue'[i].cookie
               /\ queue'[i].cookie <= dir'[queue'[i].dir].cookie
               /\ UpdateBefore(queue[i].dir, queue[i].cookie, i)'
    <3>1. i + 1 \in 1 .. Len(queue) /\ queue'[i] = queue[i + 1] /\ i + 1 \in Nat
      BY <1>b
    <3>2. /\ UpdateBefore(queue[i + 1].dir, queue[i + 1].cookie, i + 1)
          /\ queue[i + 1].files = queue[i + 1].cookie
          /\ queue[i + 1].cookie <= dir[queue[i + 1].dir].cookie
      BY <2>0, <2>3, <3>1 DEF FileinfoFollows
    <3>3. queue[i + 1].dir \in Dirs /\ queue[i + 1].cookie \in Nat
      BY <1>a, <2>3, <3>1
    <3>4. UpdateBefore(queue[i].dir, queue[i].cookie, i)'
      BY <2>1, <2>3, <3>1, <3>2, <3>3
    <3>5. dir[queue[i + 1].dir].cookie <= dir'[queue[i + 1].dir].cookie
      BY <1>0, <1>a, <3>3
    <3>6. queue'[i].cookie <= dir'[queue'[i].dir].cookie
      BY <1>0, <1>a, <3>1, <3>2, <3>3, <3>5
    <3>. QED
      BY <3>1, <3>2, <3>4, <3>6
  <2>4. \A d \in Dirs : dir'[d].fileinfo \in {0, dir'[d].files}
    BY <1>0, <2>0 DEF FileinfoFollows
  <2>. QED
    BY <2>2, <2>3, <2>4 DEF FileinfoFollows
<1>9. dir'[o].version >= dir[o].version
  BY <1>0, <1>5, <1>a, DirTypes
<1>. QED
  BY <1>1, <1>2, <1>3, <1>4, <1>6, <1>7, <1>8, <1>9 DEF IInv

LEMMA HandleUpdateStep ==
  ASSUME IInv, HandleUpdate
  PROVE  Preserves
<1>. DEFINE r == Head(queue)
            o == r.dir
            n == [dir[o] EXCEPT !.in_progress = FALSE]
            l == LoadWork(o, n, WithFileinfo(n))
            e == DecRef(UpdateWith(n, r), 1)
            f == DecRef(UpdateWith(Load(n), r), 1)
            g == DecRef(UpdateWith(Schedule(n), r), 1)
<1>1. /\ queue # <<>> /\ queue' = Tail(queue) /\ r.kind = "update" /\ main = "loop"
      /\ r = queue[1] /\ r \in Result /\ 1 \in 1 .. Len(queue)
      /\ cache' = cache /\ lua' = lua /\ disk' = disk /\ main' = main /\ check' = check
  BY TailFacts DEF HandleUpdate, Dispatch, IInv, Shape
<1>2. /\ o \in Dirs /\ Used(o) /\ dir[o] \in DirShape /\ r.cookie \in Nat
      /\ dir \in [Dirs -> DirShape] /\ \A x \in Dirs : dir[x].version \in Nat
  BY <1>1, ResultTypes, DirTypes DEF IInv, Known, Used, Shape
<1>3. \/ /\ dir[o].cookie # r.cookie
         /\ dir' = [dir EXCEPT ![o] = DecRef(@, 1)]
         /\ UNCHANGED <<timers, loads>>
      \/ /\ n.cookie = r.cookie /\ ~n.next_requested
         /\ dir' = [dir EXCEPT ![o] = e]
         /\ UNCHANGED <<timers, loads>>
      \/ /\ n.cookie = r.cookie /\ n.next_requested
         /\ dir' = [dir EXCEPT ![o] = f]
         /\ loads' = loads \cup {l}
         /\ UNCHANGED timers
      \/ /\ n.cookie = r.cookie /\ n.next_requested
         /\ dir' = [dir EXCEPT ![o] = g]
         /\ timers' = timers \cup {o}
         /\ UNCHANGED loads
  BY DEF HandleUpdate, UpdateCallback
<1>4. /\ n \in DirShape /\ n.cookie = dir[o].cookie
      /\ n.next_requested = dir[o].next_requested
      /\ Applied(e, dir[o], r, FALSE) /\ Applied(f, dir[o], r, TRUE)
      /\ Applied(g, dir[o], r, FALSE)
      /\ e.is_scheduled = dir[o].is_scheduled
      /\ e.next_requested = dir[o].next_requested
      /\ f.is_scheduled = dir[o].is_scheduled /\ ~f.next_requested
      /\ g.is_scheduled /\ ~g.next_requested
  BY <1>1, <1>2, AppliedFields
<1>5. l \in LoadRec /\ l.dir = o /\ l.stage = "queued" /\ l.cookie = dir[o].cookie + 1
  <2>. DEFINE b == WithFileinfo(n)
  <2>1. b \in BOOLEAN
    BY DEF WithFileinfo
  <2>. HIDE DEF b, o, n
  <2>2. LET m == LoadWork(o, n, b)
        IN  /\ m \in LoadRec /\ m.dir = o /\ m.stage = "queued"
            /\ m.cookie = n.cookie + 1
    BY <1>2, <1>4, <2>1, LoadWorkFields
  <2>. QED
    BY <1>4, <2>2 DEF b
<1>. HIDE DEF r, o, n, l, e, f, g
<1>6. CASE /\ dir[o].cookie # r.cookie
           /\ dir' = [dir EXCEPT ![o] = DecRef(@, 1)]
           /\ UNCHANGED <<timers, loads>>
  <2>1. SameBut(DecRef(dir[o], 1), dir[o])
    BY <1>2, RefFields
  <2>2. dir' = [x \in Dirs |-> dir'[x]]
        /\ \A x \in Dirs : dir'[x] = dir[x] \/ (Used(x) /\ SameBut(dir'[x], dir[x]))
    BY <1>2, <1>6, <2>1
  <2>3. \A x \in Dirs : /\ Kept(x)
                        /\ dir'[x].is_scheduled = dir[x].is_scheduled
                        /\ dir'[x].next_requested = dir[x].next_requested
                        /\ dir'[x].is_disowned = dir[x].is_disowned
    BY <1>2, <2>2, SameButKept
  <2>4. Ahead' /\ \A x \in timers' : Used(x)
    BY <1>1, <1>6, <2>3 DEF IInv, Ahead, Kept, Known
  <2>. QED
    BY <1>1, <1>6, <2>2, <2>3, <2>4, Pops DEF r, o
<1>7. ASSUME NEW b \in BOOLEAN, NEW d, Applied(d, dir[o], r, b),
             dir[o].cookie = r.cookie, dir' = [dir EXCEPT ![o] = d],
             loads' = IF b THEN loads \cup {l} ELSE loads,
             timers' \subseteq timers \cup {o}, Ahead'
      PROVE  Preserves
  <2>1. IInv' /\ dir'[o].version >= dir[o].version
    BY <1>1, <1>5, <1>7, Applies DEF r, o
  <2>2. \A x \in Dirs : x # o => dir'[x].version = dir[x].version
    BY <1>2, <1>7
  <2>. QED
    BY <1>2, <2>1, <2>2 DEF Preserves, NoOlder
<1>8. CASE /\ n.cookie = r.cookie /\ ~n.next_requested
           /\ dir' = [dir EXCEPT ![o] = e]
           /\ UNCHANGED <<timers, loads>>
  <2>1. Ahead'
    BY <1>1, <1>2, <1>4, <1>8 DEF IInv, Ahead, Applied
  <2>. QED
    BY <1>4, <1>7, <1>8, <2>1
<1>9. CASE /\ n.cookie = r.cookie /\ n.next_requested
           /\ dir' = [dir EXCEPT ![o] = f]
           /\ loads' = loads \cup {l}
           /\ UNCHANGED timers
  <2>1. Ahead'
    BY <1>1, <1>2, <1>4, <1>9 DEF IInv, Ahead, Applied
  <2>. QED
    BY <1>4, <1>7, <1>9, <2>1
<1>10. CASE /\ n.cookie = r.cookie /\ n.next_requested
            /\ dir' = [dir EXCEPT ![o] = g]
            /\ timers' = timers \cup {o}
            /\ UNCHANGED loads
  <2>1. Ahead'
    BY <1>1, <1>2, <1>4, <1>10 DEF IInv, Ahead, Applied
  <2>. QED
    BY <1>4, <1>7, <1>10, <2>1
<1>. QED
  BY <1>3, <1>6, <1>8, <1>9, <1>10

-----------------------------------------------------------------------------
(* Steps of the workers *)

\* The work l becomes S (which is empty when the worker returns), and the
\* result r may be handed in.
LEMMA Worked ==
  ASSUME IInv, NEW l \in loads, NEW S, loads' = (loads \ {l}) \cup S,
         \A m \in S : /\ m \in LoadRec /\ m.dir = l.dir /\ m.cookie = l.cookie
                      /\ m.stage # "queued"
                      /\ m.stage = "read" => /\ l.stage = "queued"
                                             /\ m.version = disk[dir[l.dir].path],
         \A m, n \in S : m = n,
         dir' = [o \in Dirs |-> dir'[o]],
         \A o \in Dirs : dir'[o] = dir[o] \/ (Used(o) /\ SameBut(dir'[o], dir[o])),
         NEW r,
         \/ queue' = queue
         \/ /\ queue' = Append(queue, r) /\ r \in Result /\ r.dir = l.dir
            /\ r.kind = "update" =>
                 /\ l.stage = "read" /\ r.cookie = l.cookie /\ r.version = l.version
                 /\ \A m \in S : m.stage # "read"
            /\ r.kind # "update" =>
                 /\ r.kind = "fileinfo"
                 /\ l.stage = "info" /\ r.cookie = l.seen /\ r.files = l.cookie,
         l.stage \in {"queued", "read"} =>
           \/ \E m \in S : m.stage = "read"
           \/ queue' # queue /\ r.kind = "update",
         Prompt => \A m \in S :
           /\ m.stage # "submitted"
           /\ m.stage = "info" =>
                \/ m.seen = m.cookie /\ queue' # queue /\ r.kind = "update"
                \/ m.seen = l.seen /\ l.stage = "info",
         main' = main \/ (main' # "loop" /\ main # "torn"),
         cache' = cache, timers' = timers, lua' = lua, check' = check, disk' = disk
  PROVE  Preserves
<1>0. \A o \in Dirs : /\ Kept(o)
                      /\ dir'[o].is_scheduled = dir[o].is_scheduled
                      /\ dir'[o].next_requested = dir[o].next_requested
                      /\ dir'[o].is_disowned = dir[o].is_disowned
  BY SameButKept DEF IInv, Shape
<1>c. \A o : Used(o)' <=> Used(o)
  BY <1>0, KeptUsed
<1>b. /\ queue' \in Seq(Result) /\ Len(queue) \in Nat
      /\ Len(queue') \in {Len(queue), Len(queue) + 1}
      /\ \A i \in 1 .. Len(queue) : i \in 1 .. Len(queue') /\ queue'[i] = queue[i]
      /\ \A i \in 1 .. Len(queue') :
           \/ i \in 1 .. Len(queue) /\ queue'[i] = queue[i]
           \/ i = Len(queue) + 1 /\ queue'[i] = r /\ queue' # queue
      /\ queue' # queue => /\ Len(queue') = Len(queue) + 1
                           /\ Len(queue) + 1 \in 1 .. Len(queue')
                           /\ queue'[Len(queue) + 1] = r
  BY AppendFacts DEF IInv, Shape
<1>d. queue' # queue =>
        /\ r \in Result /\ r.dir = l.dir
        /\ r.kind = "update" =>
             /\ l.stage = "read" /\ r.cookie = l.cookie /\ r.version = l.version
             /\ \A m \in S : m.stage # "read"
        /\ r.kind # "update" =>
             /\ r.kind = "fileinfo"
             /\ l.stage = "info" /\ r.cookie = l.seen /\ r.files = l.cookie
  OBVIOUS
<1>a. /\ \A m \in loads : m.dir \in Dirs /\ m.cookie \in Nat
      /\ \A m \in S : m.dir \in Dirs /\ m.cookie \in Nat
      /\ \A i \in 1 .. Len(queue) : queue[i].kind # "check" =>
           queue[i].dir \in Dirs /\ queue[i].cookie \in Nat
      /\ \A o \in Dirs : dir[o].cookie \in Nat
      /\ l.dir \in Dirs /\ Used(l.dir) /\ l.cookie \in Nat
      /\ l.cookie <= dir[l.dir].cookie
  BY ShapeTypes DEF IInv, Known, CookiesUnique
<1>1. Shape'
  <2>1. dir' \in [Dirs -> DirShape]
    BY <1>0 DEF Kept
  <2>2. loads' \subseteq LoadRec
    BY DEF IInv, Shape
  <2>. QED
    BY <1>b, <2>1, <2>2 DEF IInv, Shape
<1>2. Known'
  <2>1. \A o \in Dirs : IF dir'[o].alloc = "unused" THEN dir'[o].version = 0
                                                  ELSE dir'[o].path \in Paths
    BY <1>0 DEF IInv, Known, Kept
  <2>2. /\ \A p \in Paths : cache'[p] # None => Used(cache[p])'
        /\ \A o \in timers' : Used(o)'
        /\ \A o \in lua' : Used(o)'
        /\ \A k \in Checks : check'[k].stage # "idle" => Used(check[k].dir)'
    BY <1>c DEF IInv, Known
  <2>3. \A m \in loads' : Used(m.dir)'
    BY <1>a, <1>c DEF IInv, Known
  <2>4. \A i \in 1 .. Len(queue') : queue'[i].kind # "check" => Used(queue[i].dir)'
    BY <1>a, <1>b, <1>c, <1>d DEF IInv, Known
  <2>. QED
    BY <2>1, <2>2, <2>3, <2>4 DEF Known
<1>3. ChecksOnce'
  <2>1. \A i \in 1 .. Len(queue') :
          queue'[i].kind = "check" => i \in 1 .. Len(queue) /\ queue'[i] = queue[i]
    BY <1>b, <1>d
  <2>. QED
    BY <2>1 DEF IInv, ChecksOnce
<1>4. CookiesUnique'
  <2>. USE DEF CookiesUnique, Kept
  <2>0. CookiesUnique
    BY DEF IInv
  <2>1. \A m \in loads' : m.cookie <= dir'[m.dir].cookie
    BY <1>0, <1>a, <2>0
  <2>2. \A m, n \in loads' : m.dir = n.dir /\ m.cookie = n.cookie => m = n
    BY <2>0
  <2>3. \A i \in 1 .. Len(queue') :
         queue'[i].kind = "update" => queue'[i].cookie <= dir'[queue'[i].dir].cookie
    BY <1>0, <1>a, <1>b, <1>d, <2>0
  <2>4. \A i, j \in 1 .. Len(queue') :
       (/\ queue'[i].kind = "update" /\ queue'[j].kind = "update" /\ i # j
        /\ queue'[i].dir = queue'[j].dir) => queue'[i].cookie # queue'[j].cookie
    BY <1>b, <1>d, <2>0
  <2>5. \A m \in loads' : \A i \in 1 .. Len(queue') :
          (/\ queue'[i].kind = "update" /\ m.stage \in {"queued", "read"}
           /\ queue'[i].dir = m.dir) => queue'[i].cookie # m.cookie
    <3>. SUFFICES ASSUME NEW m \in loads', NEW i \in 1 .. Len(queue'),
                         queue'[i].kind = "update", m.stage \in {"queued", "read"},
                         queue'[i].dir = m.dir
                  PROVE  queue'[i].cookie # m.cookie
      OBVIOUS
    <3>1. CASE i \in 1 .. Len(queue) /\ queue'[i] = queue[i]
      BY <2>0, <3>1
    <3>2. CASE queue'[i] = r /\ queue' # queue
      BY <1>d, <2>0, <3>2
    <3>. QED
      BY <1>b, <3>1, <3>2
  <2>. QED
    BY <2>1, <2>2, <2>3, <2>4, <2>5
<1>5. VersionsGrow'
  <2>. USE DEF VersionsGrow, Kept
  <2>0. VersionsGrow
    BY DEF IInv
  <2>1. \A o \in Dirs : Used(o)' => dir'[o].version <= disk'[dir'[o].path]
    BY <1>0, <1>c, <2>0
  <2>2. \A m \in loads' : m.stage = "read" =>
       /\ m.version <= disk'[dir'[m.dir].path]
       /\ m.cookie = dir'[m.dir].cookie => dir'[m.dir].version <= m.version
    <3>1. disk[dir[l.dir].path] \in Nat /\ dir[l.dir].version <= disk[dir[l.dir].path]
      BY <1>a, <2>0 DEF IInv, Shape, Known, Used
    <3>. QED
      BY <1>0, <1>a, <2>0, <3>1
  <2>3. \A i \in 1 .. Len(queue') : queue'[i].kind = "update" =>
       /\ queue'[i].version <= disk'[dir'[queue'[i].dir].path]
       /\ queue'[i].cookie = dir'[queue'[i].dir].cookie =>
            dir'[queue'[i].dir].version <= queue'[i].version
    BY <1>0, <1>a, <1>b, <1>d, <2>0
  <2>. QED
    BY <2>1, <2>2, <2>3
<1>6. Backed'
  <2>. SUFFICES ASSUME main' = "loop", NEW o \in Dirs, dir[o].in_progress
       PROVE  \/ \E m \in loads' : /\ m.dir = o /\ m.cookie = dir[o].cookie
                                   /\ m.stage \in {"queued", "read"}
              \/ \E i \in 1 .. Len(queue') :
                   /\ queue'[i].kind = "update" /\ queue'[i].dir = o
                   /\ queue'[i].cookie = dir[o].cookie
    BY <1>0 DEF Backed, Kept
  <2>1. CASE \E m \in loads : /\ m.dir = o /\ m.cookie = dir[o].cookie
                              /\ m.stage \in {"queued", "read"}
    <3>1. PICK m \in loads : /\ m.dir = o /\ m.cookie = dir[o].cookie
                             /\ m.stage \in {"queued", "read"}
      BY <2>1
    <3>2. CASE m # l
      BY <3>1, <3>2
    <3>3. CASE m = l
      BY <1>b, <1>d, <3>1, <3>3
    <3>. QED
      BY <3>2, <3>3
  <2>2. CASE \E i \in 1 .. Len(queue) : /\ queue[i].kind = "update" /\ queue[i].dir = o
                                        /\ queue[i].cookie = dir[o].cookie
    BY <1>b, <2>2
  <2>. QED
    BY <2>1, <2>2 DEF IInv, Backed
<1>7. Ahead'
  BY <1>0 DEF IInv, Ahead, Kept
<1>8. Prompt => FileinfoFollows'
  <2>. SUFFICES ASSUME Prompt PROVE FileinfoFollows'
    OBVIOUS
  <2>0. FileinfoFollows
    BY DEF IInv
  <2>1. ASSUME NEW o \in Dirs, NEW c, NEW n \in Nat, NEW k \in Nat, n <= k,
               UpdateBefore(o, c, n)
        PROVE  UpdateBefore(o, c, k)'
    BY <1>0, <1>b, <2>1 DEF UpdateBefore, Kept
  <2>. DEFINE last == Len(queue) + 1
  <2>2. last \in Nat /\ Len(queue') + 1 \in Nat /\ last <= Len(queue') + 1
    BY <1>b
  <2>3. main # "torn" /\ l.stage = "info" =>
          l.seen = l.cookie /\ UpdateBefore(l.dir, l.cookie, last)
    BY <2>0 DEF FileinfoFollows
  <2>4. ASSUME main' # "torn", NEW m \in loads'
        PROVE  /\ m.stage # "submitted"
               /\ m.stage = "info" =>
                    /\ m.seen = m.cookie
                    /\ UpdateBefore(m.dir, m.cookie, Len(queue) + 1)'
    <3>0. main # "torn"
      BY <2>4
    <3>1. CASE m \in loads
      <4>1. m.stage = "info" => UpdateBefore(m.dir, m.cookie, Len(queue) + 1)'
        BY <1>a, <2>0, <2>1, <2>2, <3>0, <3>1 DEF FileinfoFollows
      <4>. QED
        BY <2>0, <3>0, <3>1, <4>1 DEF FileinfoFollows
    <3>2. CASE m \in S /\ l.stage = "info" /\ m.seen = l.seen
      <4>1. UpdateBefore(l.dir, l.cookie, Len(queue) + 1)'
        BY <1>a, <2>1, <2>2, <2>3, <3>0, <3>2
      <4>. QED
        BY <2>3, <3>0, <3>2, <4>1
    <3>3. CASE m \in S /\ m.seen = m.cookie /\ queue' # queue /\ r.kind = "update"
      <4>1. last < Len(queue') + 1 /\ last \in 1 .. Len(queue') /\ queue'[last] = r
        BY <1>b, <3>3
      <4>2. r.dir = m.dir /\ r.cookie = m.cookie
        BY <1>d, <3>3
      <4>3. UpdateBefore(m.dir, m.cookie, Len(queue) + 1)'
        BY <3>3, <4>1, <4>2 DEF UpdateBefore
      <4>. QED
        BY <3>3, <4>3
    <3>4. CASE m \in S /\ m.stage # "info"
      BY <3>4
    <3>. QED
      BY <3>1, <3>2, <3>3, <3>4
  <2>5. ASSUME main' # "torn", NEW i \in 1 .. Len(queue'), queue'[i].kind = "fileinfo"
        PROVE  /\ queue'[i].files = queue'[i].cookie
               /\ queue'[i].cookie <= dir'[queue'[i].dir].cookie
               /\ UpdateBefore(queue[i].dir, queue[i].cookie, i)'
    <3>0. main # "torn" /\ i \in Nat
      BY <2>5
    <3>1. CASE i \in 1 .. Len(queue) /\ queue'[i] = queue[i]
      <4>1. UpdateBefore(queue[i].dir, queue[i].cookie, i)'
        BY <1>a, <2>0, <2>1, <2>5, <3>0, <3>1 DEF FileinfoFollows
      <4>. QED
        BY <1>0, <1>a, <2>0, <2>5, <3>0, <3>1, <4>1 DEF FileinfoFollows, Kept
    <3>2. CASE i = last /\ queue'[i] = r /\ queue' # queue
      <4>1. UpdateBefore(l.dir, l.cookie, i)'
        BY <1>a, <1>d, <2>1, <2>2, <2>3, <2>5, <3>0, <3>2
      <4>. QED
        BY <1>0, <1>a, <1>d, <2>3, <2>5, <3>0, <3>2, <4>1 DEF Kept
    <3>. QED
      BY <1>b, <3>1, <3>2
  <2>6. \A o \in Dirs : dir'[o].fileinfo \in {0, dir'[o].files}
    BY <1>0, <2>0 DEF FileinfoFollows, Kept
  <2>. HIDE DEF last
  <2>. QED
    BY <2>4, <2>5, <2>6 DEF FileinfoFollows
<1>v. NoOlder
  <2>1. \A o \in Dirs : dir'[o].version \in Nat
    BY <1>1, DirTypes DEF IInv, Shape
  <2>. QED
    BY <1>0, <2>1, SameVersions DEF Kept
<1>. QED
  BY <1>1, <1>2, <1>3, <1>4, <1>5, <1>6, <1>7, <1>8, <1>v DEF IInv, Preserves

\* m is l at a later stage
Later(m, l, stage) == /\ m \in LoadRec /\ m.dir = l.dir /\ m.cookie = l.cookie
                      /\ m.load_fileinfo = l.load_fileinfo /\ m.stage = stage

LEMMA ReadFields ==
  ASSUME NEW l \in LoadRec, NEW b \in BOOLEAN, NEW v \in Nat
  PROVE  /\ Later([l EXCEPT !.stage = "read", !.empty = b, !.version = v], l, "read")
         /\ [l EXCEPT !.stage = "read", !.empty = b, !.version = v].version = v
<1>. DEFINE m == [l EXCEPT !.stage = "read", !.empty = b, !.version = v]
            a == [l EXCEPT !.stage = "read"]
            c == [a EXCEPT !.empty = b]
<1>1. Later(a, l, "read")
  BY DEF LoadRec, Later
<1>2. m = [c EXCEPT !.version = v]
  BY DEF LoadRec
<1>. HIDE DEF a
<1>3. Later(c, l, "read")
  BY <1>1 DEF LoadRec, Later
<1>. HIDE DEF c
<1>. QED
  BY <1>2, <1>3 DEF LoadRec, Later

LEMMA SubmittedFields ==
  ASSUME NEW l \in LoadRec, NEW b \in BOOLEAN
  PROVE  Later([l EXCEPT !.stage = "submitted", !.empty = b], l, "submitted")
<1>. DEFINE a == [l EXCEPT !.stage = "submitted"]
<1>1. Later(a, l, "submitted")
  BY DEF LoadRec, Later
<1>2. [l EXCEPT !.stage = "submitted", !.empty = b] = [a EXCEPT !.empty = b]
  BY DEF LoadRec
<1>. HIDE DEF a
<1>. QED
  BY <1>1, <1>2 DEF LoadRec, Later

LEMMA InfoFields ==
  ASSUME NEW l \in LoadRec, NEW c \in Nat
  PROVE  LET m == [l EXCEPT !.stage = "info", !.seen = c]
         IN  Later(m, l, "info") /\ m.seen = c
<1>. DEFINE a == [l EXCEPT !.stage = "info"]
<1>1. Later(a, l, "info")
  BY DEF LoadRec, Later
<1>2. [l EXCEPT !.stage = "info", !.seen = c] = [a EXCEPT !.seen = c]
  BY DEF LoadRec
<1>. HIDE DEF a
<1>. QED
  BY <1>1, <1>2 DEF LoadRec, Later

LEMMA UnchangedDir ==
  ASSUME IInv, dir' = dir
  PROVE  /\ dir' = [o \in Dirs |-> dir'[o]]
         /\ \A o \in Dirs : dir'[o] = dir[o] \/ (Used(o) /\ SameBut(dir'[o], dir[o]))
BY DEF IInv, Shape

\* A step in which no result is handed in.
LEMMA WorkedSilently ==
  ASSUME IInv, NEW l \in loads, NEW S, loads' = (loads \ {l}) \cup S,
         \A m \in S : /\ m \in LoadRec /\ m.dir = l.dir /\ m.cookie = l.cookie
                      /\ m.stage # "queued"
                      /\ m.stage = "read" => /\ l.stage = "queued"
                                             /\ m.version = disk[dir[l.dir].path],
         \A m, n \in S : m = n,
         dir' = [o \in Dirs |-> dir'[o]],
         \A o \in Dirs : dir'[o] = dir[o] \/ (Used(o) /\ SameBut(dir'[o], dir[o])),
         queue' = queue,
         l.stage \in {"queued", "read"} => \E m \in S : m.stage = "read",
         Prompt => \A m \in S : /\ m.stage # "submitted"
                                /\ m.stage = "info" => /\ m.seen = l.seen
                                                       /\ l.stage = "info",
         main' = main \/ (main' # "loop" /\ main # "torn"),
         cache' = cache, timers' = timers, lua' = lua, check' = check, disk' = disk
  PROVE  Preserves
<1>1. ASSUME NEW r PROVE Preserves
  BY Worked
<1>. QED
  BY <1>1

LEMMA LoadReadStep ==
  ASSUME IInv, NEW l \in loads, LoadRead(l) PROVE Preserves
<1>1. PICK b \in BOOLEAN :
        loads' = (loads \ {l}) \cup
          {[l EXCEPT !.stage = "read", !.empty = b, !.version = disk[dir[l.dir].path]]}
  BY DEF LoadRead
<1>. DEFINE v == disk[dir[l.dir].path]
            m == [l EXCEPT !.stage = "read", !.empty = b, !.version = v]
<1>2. v \in Nat /\ l \in LoadRec
  BY DEF IInv, Shape, Known, Used
<1>3. /\ l.stage = "queued" /\ dir' = dir /\ queue' = queue /\ main' = main
      /\ cache' = cache /\ timers' = timers /\ lua' = lua /\ check' = check
      /\ disk' = disk
  BY DEF LoadRead, WorkersOnly
<1>4. loads' = (loads \ {l}) \cup {m}
  BY <1>1
<1>5. Later(m, l, "read") /\ m.version = v
  <2>. HIDE DEF v
  <2>. QED
    BY <1>2, ReadFields
<1>. HIDE DEF m
<1>6. /\ m \in LoadRec /\ m.dir = l.dir /\ m.cookie = l.cookie
      /\ m.stage = "read" /\ m.version = disk[dir[l.dir].path]
  BY <1>5 DEF Later
<1>. DEFINE S == {m}
<1>7. /\ loads' = (loads \ {l}) \cup S /\ \A a, n \in S : a = n
      /\ \A a \in S : /\ a \in LoadRec /\ a.dir = l.dir /\ a.cookie = l.cookie
                       /\ a.stage = "read" /\ a.version = disk[dir[l.dir].path]
      /\ \E a \in S : a.stage = "read"
  BY <1>4, <1>6
<1>. HIDE DEF S
<1>. QED
  BY <1>3, <1>7, UnchangedDir, WorkedSilently

LEMMA LastLookFields ==
  ASSUME IInv, NEW l \in loads, NEW s \in LoadRec, s.dir = l.dir, s.cookie = l.cookie,
         NEW c \in Nat, LastLook(l, s, c)
  PROVE  /\ \E S : /\ loads' = (loads \ {l}) \cup S
                   /\ \A m \in S : /\ m \in LoadRec /\ m.dir = l.dir
                                   /\ m.cookie = l.cookie /\ m.stage = "info"
                                   /\ m.seen = c
                   /\ \A m, n \in S : m = n
         /\ dir' = [o \in Dirs |-> dir'[o]]
         /\ \A o \in Dirs : dir'[o] = dir[o] \/ (Used(o) /\ SameBut(dir'[o], dir[o]))
<1>. DEFINE i == [s EXCEPT !.stage = "info", !.seen = c]
            S == IF s.load_fileinfo \/ s.empty THEN {} ELSE {i}
<1>1. loads' = (loads \ {l}) \cup S
  BY DEF LastLook
<1>2. /\ i \in LoadRec /\ i.dir = l.dir /\ i.cookie = l.cookie
      /\ i.stage = "info" /\ i.seen = c
  BY InfoFields DEF Later
<1>. HIDE DEF i
<1>3. /\ \A m \in S : /\ m \in LoadRec /\ m.dir = l.dir
                      /\ m.cookie = l.cookie /\ m.stage = "info"
                      /\ m.seen = c
      /\ \A m, n \in S : m = n
  BY <1>2
<1>. HIDE DEF S
<1>4. s.dir \in Dirs /\ Used(s.dir) /\ dir[s.dir] \in DirShape
  BY DEF IInv, Known, Used, Shape
<1>5. SameBut(DecRef(dir[s.dir], 1), dir[s.dir])
  BY <1>4, RefFields
<1>6. dir' = dir \/ dir' = [dir EXCEPT ![s.dir] = DecRef(dir[s.dir], 1)]
  BY DEF LastLook
<1>7. /\ dir' = [o \in Dirs |-> dir'[o]]
      /\ \A o \in Dirs : dir'[o] = dir[o] \/ (Used(o) /\ SameBut(dir'[o], dir[o]))
  BY <1>4, <1>5, <1>6 DEF IInv, Shape
<1>. QED
  BY <1>1, <1>3, <1>7

LEMMA LoadSubmitStep ==
  ASSUME IInv, NEW l \in loads, LoadSubmit(l) PROVE Preserves
<1>. DEFINE r == [kind |-> "update", dir |-> l.dir, cookie |-> l.cookie,
                  version |-> l.version, load_fileinfo |-> l.load_fileinfo]
            b == l.empty \/ stop
            s == [l EXCEPT !.stage = "submitted", !.empty = b]
<1>1. /\ l.stage = "read" /\ queue' = Append(queue, r) /\ main' = main
      /\ cache' = cache /\ timers' = timers /\ lua' = lua /\ check' = check
      /\ disk' = disk
      /\ IF Prompt THEN LastLook(l, s, s.cookie)
         ELSE loads' = (loads \ {l}) \cup {s} /\ UNCHANGED dir
  BY DEF LoadSubmit, WorkersOnly
<1>2. l \in LoadRec /\ l.cookie \in Nat
  BY LoadTypes DEF IInv, Shape
<1>3. /\ r \in Result /\ r.kind = "update" /\ r.dir = l.dir /\ r.cookie = l.cookie
      /\ r.version = l.version
  BY <1>2, LoadTypes DEF Result
<1>4. b \in BOOLEAN
  BY DEF stop
<1>. HIDE DEF b, r
<1>5. /\ s \in LoadRec /\ s.dir = l.dir /\ s.cookie = l.cookie
      /\ s.stage = "submitted"
  BY <1>2, <1>4, SubmittedFields DEF Later
<1>. HIDE DEF s
<1>6. queue' # queue
  BY <1>1, <1>3, AppendFacts DEF IInv, Shape
<1>7. CASE Prompt
  <2>1. LastLook(l, s, l.cookie)
    BY <1>1, <1>5, <1>7
  <2>2. /\ \E S : /\ loads' = (loads \ {l}) \cup S
                  /\ \A m \in S : /\ m \in LoadRec /\ m.dir = l.dir
                                  /\ m.cookie = l.cookie /\ m.stage = "info"
                                  /\ m.seen = l.cookie
                  /\ \A m, n \in S : m = n
        /\ dir' = [o \in Dirs |-> dir'[o]]
        /\ \A o \in Dirs : dir'[o] = dir[o] \/ (Used(o) /\ SameBut(dir'[o], dir[o]))
    BY <1>2, <1>5, <2>1, LastLookFields
  <2>3. PICK S : /\ loads' = (loads \ {l}) \cup S
                 /\ \A m \in S : /\ m \in LoadRec /\ m.dir = l.dir
                                 /\ m.cookie = l.cookie /\ m.stage = "info"
                                 /\ m.seen = l.cookie
                 /\ \A m, n \in S : m = n
    BY <2>2
  <2>. QED
    BY <1>1, <1>3, <1>6, <2>2, <2>3, Worked
<1>8. CASE ~Prompt
  <2>1. loads' = (loads \ {l}) \cup {s} /\ dir' = dir
    BY <1>1, <1>8
  <2>. QED
    BY <1>1, <1>3, <1>5, <1>6, <1>8, <2>1, UnchangedDir, Worked
<1>. QED
  BY <1>7, <1>8

LEMMA LoadAfterSubmitStep ==
  ASSUME IInv, NEW l \in loads, LoadAfterSubmit(l) PROVE Preserves
<1>1. /\ l.stage = "submitted" /\ queue' = queue /\ main \in {"loop", "deinit"}
      /\ cache' = cache /\ timers' = timers /\ lua' = lua /\ check' = check
      /\ disk' = disk
  BY DEF LoadAfterSubmit, WorkersOnly
<1>2. l \in LoadRec /\ l.dir \in Dirs /\ l.cookie \in Nat /\ dir[l.dir].cookie \in Nat
  BY ShapeTypes DEF IInv, Shape
<1>3. ~Prompt
  BY <1>1 DEF IInv, FileinfoFollows
<1>4. CASE main' = "undefined" /\ UNCHANGED <<dir, loads>>
  <2>. DEFINE S == {l}
  <2>1. /\ loads' = (loads \ {l}) \cup S /\ \A m, n \in S : m = n
        /\ \A m \in S : /\ m \in LoadRec /\ m.dir = l.dir /\ m.cookie = l.cookie
                        /\ m.stage = "submitted"
    BY <1>1, <1>2, <1>4
  <2>2. dir' = dir /\ main' # "loop" /\ main # "torn"
    BY <1>1, <1>4
  <2>. HIDE DEF S
  <2>. QED
    BY <1>1, <1>3, <2>1, <2>2, UnchangedDir, WorkedSilently
<1>5. CASE /\ \E c \in {l.cookie} \cup (IF WorkFreed(l) THEN {dir[l.dir].cookie} ELSE {}) :
                LastLook(l, l, c)
           /\ UNCHANGED main
  <2>1. PICK c \in Nat : LastLook(l, l, c)
    BY <1>2, <1>5
  <2>2. /\ \E S : /\ loads' = (loads \ {l}) \cup S
                  /\ \A m \in S : /\ m \in LoadRec /\ m.dir = l.dir
                                  /\ m.cookie = l.cookie /\ m.stage = "info"
                                  /\ m.seen = c
                  /\ \A m, n \in S : m = n
        /\ dir' = [o \in Dirs |-> dir'[o]]
        /\ \A o \in Dirs : dir'[o] = dir[o] \/ (Used(o) /\ SameBut(dir'[o], dir[o]))
    BY <1>2, <2>1, LastLookFields
  <2>3. PICK S : /\ loads' = (loads \ {l}) \cup S
                 /\ \A m \in S : /\ m \in LoadRec /\ m.dir = l.dir
                                 /\ m.cookie = l.cookie /\ m.stage = "info"
                                 /\ m.seen = c
                 /\ \A m, n \in S : m = n
    BY <2>2
  <2>. QED
    BY <1>1, <1>3, <1>5, <2>2, <2>3, WorkedSilently
<1>. QED
  BY <1>4, <1>5 DEF LoadAfterSubmit

\* What a fileinfo batch of l is.
LEMMA FileinfoResultFields ==
  ASSUME NEW l \in LoadRec, NEW last \in BOOLEAN
  PROVE  LET r == FileinfoResult(l, last)
         IN  /\ r \in Result /\ r.dir = l.dir /\ r.kind = "fileinfo"
             /\ r.cookie = l.seen /\ r.files = l.cookie
BY LoadTypes DEF FileinfoResult, Result

LEMMA LoadFileinfoStep ==
  ASSUME IInv, NEW l \in loads, LoadFileinfo(l) \/ LoadLastFileinfo(l) PROVE Preserves
<1>1. /\ l.stage = "info" /\ dir' = dir /\ main' = main
      /\ cache' = cache /\ timers' = timers /\ lua' = lua /\ check' = check
      /\ disk' = disk
  BY DEF LoadFileinfo, LoadLastFileinfo, WorkersOnly
<1>2. l \in LoadRec
  BY DEF IInv, Shape
<1>. DEFINE m == [l EXCEPT !.batches = @ + 1]
<1>3. /\ m \in LoadRec /\ m.dir = l.dir /\ m.cookie = l.cookie
      /\ m.stage = l.stage /\ m.seen = l.seen
  BY <1>2 DEF LoadRec
<1>. HIDE DEF m
<1>4. ASSUME NEW S, S = {m} \/ S = {}, loads' = (loads \ {l}) \cup S,
             NEW last \in BOOLEAN, queue' = Append(queue, FileinfoResult(l, last))
      PROVE  Preserves
  <2>. DEFINE r == FileinfoResult(l, last)
  <2>1. /\ r \in Result /\ r.dir = l.dir /\ r.kind = "fileinfo"
        /\ r.cookie = l.seen /\ r.files = l.cookie /\ queue' = Append(queue, r)
    BY <1>2, <1>4, FileinfoResultFields
  <2>. HIDE DEF r
  <2>2. /\ \A a \in S : /\ a \in LoadRec /\ a.dir = l.dir /\ a.cookie = l.cookie
                        /\ a.stage = "info" /\ a.seen = l.seen
        /\ \A a, n \in S : a = n
    BY <1>1, <1>3, <1>4
  <2>. QED
    BY <1>1, <1>4, <2>1, <2>2, UnchangedDir, Worked
<1>5. CASE LoadFileinfo(l)
  <2>1. /\ loads' = (loads \ {l}) \cup {m}
        /\ queue' = Append(queue, FileinfoResult(l, FALSE))
    BY <1>5 DEF LoadFileinfo, m
  <2>. QED
    BY <1>4, <2>1
<1>6. CASE LoadLastFileinfo(l)
  <2>1. /\ loads' = (loads \ {l}) \cup {}
        /\ queue' = Append(queue, FileinfoResult(l, TRUE))
    BY <1>6 DEF LoadLastFileinfo
  <2>. QED
    BY <1>4, <2>1
<1>. QED
  BY <1>5, <1>6

LEMMA CheckRunStep == ASSUME IInv, NEW k \in Checks, CheckRun(k) PROVE Preserves
<1>. DEFINE r == [kind |-> "check", check |-> k]
<1>1. /\ check[k].stage = "queued" /\ queue' = Append(queue, r)
      /\ dir' = dir /\ loads' = loads /\ main' = main
      /\ cache' = cache /\ timers' = timers /\ lua' = lua /\ disk' = disk
  BY DEF CheckRun, WorkersOnly
<1>2. PICK b \in BOOLEAN : check' = [check EXCEPT ![k].stage = "done", ![k].reload = b]
  BY DEF CheckRun
<1>3. /\ check' \in [Checks -> CheckRec]
      /\ check'[k].stage = "done" /\ check'[k].dir = check[k].dir
      /\ \A c \in Checks \ {k} : check'[c] = check[c]
  <2>. DEFINE a == [check[k] EXCEPT !.stage = "done"]
              e == [a EXCEPT !.reload = b]
  <2>1. check \in [Checks -> CheckRec] /\ check[k] \in CheckRec
    BY DEF IInv, Shape
  <2>2. a \in CheckRec /\ a.stage = "done" /\ a.dir = check[k].dir
    BY <2>1 DEF CheckRec
  <2>3. check' = [check EXCEPT ![k] = e]
    BY <1>2, <2>1 DEF CheckRec
  <2>. HIDE DEF a
  <2>4. e \in CheckRec /\ e.stage = "done" /\ e.dir = check[k].dir
    BY <2>2 DEF CheckRec
  <2>. HIDE DEF e
  <2>. QED
    BY <2>1, <2>3, <2>4
<1>4. r \in Result /\ r.kind = "check" /\ r.check = k
  BY DEF Result
<1>. HIDE DEF r
<1>5. /\ queue' \in Seq(Result) /\ Len(queue) \in Nat /\ Len(queue') = Len(queue) + 1
      /\ \A i \in 1 .. Len(queue) : i \in 1 .. Len(queue') /\ queue'[i] = queue[i]
      /\ \A i \in 1 .. Len(queue') :
           \/ i \in 1 .. Len(queue) /\ queue'[i] = queue[i]
           \/ i = Len(queue) + 1 /\ queue'[i] = r
  BY <1>1, <1>4, AppendFacts DEF IInv, Shape
<1>6. \A i \in 1 .. Len(queue') : queue'[i].kind # "check" =>
        i \in 1 .. Len(queue) /\ queue'[i] = queue[i]
  BY <1>4, <1>5
<1>7. \A o : Used(o)' <=> Used(o)
  BY <1>1 DEF Used
<1>8. Shape'
  BY <1>1, <1>3, <1>5 DEF IInv, Shape
<1>9. Known'
  <2>1. \A c \in Checks : check'[c].stage # "idle" => Used(check[c].dir)'
    BY <1>1, <1>3, <1>7 DEF IInv, Known
  <2>2. \A i \in 1 .. Len(queue') : queue'[i].kind # "check" => Used(queue[i].dir)'
    BY <1>6, <1>7 DEF IInv, Known
  <2>. QED
    BY <1>1, <1>7, <2>1, <2>2 DEF IInv, Known
<1>10. ChecksOnce'
  <2>1. \A i \in 1 .. Len(queue) : queue[i].kind = "check" =>
          queue[i].check \in Checks /\ queue[i].check # k
    BY <1>1, ResultTypes DEF IInv, Shape, ChecksOnce
  <2>2. \A i \in 1 .. Len(queue') :
          queue'[i].kind = "check" => check'[queue'[i].check].stage = "done"
    BY <1>3, <1>4, <1>5, <2>1 DEF IInv, ChecksOnce
  <2>3. \A i, j \in 1 .. Len(queue') :
          (queue'[i].kind = "check" /\ queue'[j].kind = "check" /\ i # j)
            => queue'[i].check # queue'[j].check
    BY <1>4, <1>5, <2>1 DEF IInv, ChecksOnce
  <2>. QED
    BY <2>2, <2>3 DEF ChecksOnce
<1>11. CookiesUnique'
  BY <1>1, <1>6 DEF IInv, CookiesUnique
<1>12. VersionsGrow'
  BY <1>1, <1>6, <1>7 DEF IInv, VersionsGrow
<1>13. Backed'
  BY <1>1, <1>5 DEF IInv, Backed
<1>14. Ahead'
  BY <1>1 DEF IInv, Ahead
<1>15. Prompt => FileinfoFollows'
  <2>. SUFFICES ASSUME Prompt PROVE FileinfoFollows'
    OBVIOUS
  <2>0. FileinfoFollows
    BY DEF IInv
  <2>1. ASSUME NEW o, NEW c, NEW n \in Nat, NEW p \in Nat, n <= p, UpdateBefore(o, c, n)
        PROVE  UpdateBefore(o, c, p)'
    BY <1>1, <1>5, <2>1 DEF UpdateBefore
  <2>2. /\ Len(queue) + 1 \in Nat /\ Len(queue') + 1 \in Nat
        /\ Len(queue) + 1 <= Len(queue') + 1
    BY <1>5
  <2>3. ASSUME main # "torn", NEW m \in loads
        PROVE  /\ m.stage # "submitted"
               /\ m.stage = "info" =>
                    /\ m.seen = m.cookie
                    /\ UpdateBefore(m.dir, m.cookie, Len(queue) + 1)'
    <3>1. m.stage = "info" => UpdateBefore(m.dir, m.cookie, Len(queue) + 1)'
      BY <2>0, <2>1, <2>2, <2>3 DEF FileinfoFollows
    <3>. QED
      BY <2>0, <2>3, <3>1 DEF FileinfoFollows
  <2>4. ASSUME main # "torn", NEW i \in 1 .. Len(queue'), queue'[i].kind = "fileinfo"
        PROVE  /\ queue'[i].files = queue'[i].cookie
               /\ queue'[i].cookie <= dir'[queue'[i].dir].cookie
               /\ UpdateBefore(queue[i].dir, queue[i].cookie, i)'
    <3>1. i \in Nat /\ i \in 1 .. Len(queue) /\ queue'[i] = queue[i]
      BY <1>6, <2>4
    <3>2. UpdateBefore(queue[i].dir, queue[i].cookie, i)'
      BY <2>0, <2>1, <2>4, <3>1 DEF FileinfoFollows
    <3>. QED
      BY <1>1, <2>0, <2>4, <3>1, <3>2 DEF FileinfoFollows
  <2>. QED
    BY <1>1, <2>0, <2>3, <2>4 DEF FileinfoFollows
<1>v. NoOlder
  BY <1>1, DirTypes, SameVersions DEF IInv, Shape
<1>. QED
  BY <1>8, <1>9, <1>10, <1>11, <1>12, <1>13, <1>14, <1>15, <1>v DEF IInv, Preserves

-----------------------------------------------------------------------------
(* The theorems *)

LEMMA NextStep == ASSUME IInv, [Next]_vars PROVE Preserves
<1>1. CASE Calls
  <2>1. ASSUME NEW p \in Paths, NEW b \in BOOLEAN,
               FromPathNew(p, b) \/ FromPathCached(p, b) \/ Reload(p, b)
        PROVE  Preserves
    BY <2>1, FromPathNewStep, FromPathCachedStep, ReloadStep
  <2>2. ASSUME NEW p \in Paths, LuaPush(p) PROVE Preserves
    BY <2>2, LuaPushStep
  <2>. QED
    BY <1>1, <2>1, <2>2, DropCacheStep DEF Calls
<1>2. CASE LuaCollects
  BY <1>2, LuaGcStep DEF LuaCollects
<1>3. CASE Worker
  <2>1. ASSUME NEW l \in loads,
               \/ LoadRead(l) \/ LoadSubmit(l)
               \/ LoadFileinfo(l) \/ LoadLastFileinfo(l)
        PROVE  Preserves
    BY <2>1, LoadReadStep, LoadSubmitStep, LoadFileinfoStep
  <2>2. ASSUME NEW k \in Checks, CheckRun(k) PROVE Preserves
    BY <2>2, CheckRunStep
  <2>. QED
    BY <1>3, <2>1, <2>2 DEF Worker
<1>4. CASE LooksAtWork
  BY <1>4, LoadAfterSubmitStep DEF LooksAtWork
<1>5. CASE Timers
  BY <1>5, TimerStep DEF Timers
<1>6. CASE Events
  BY <1>6, InotifyStep DEF Events
<1>7. CASE HandleResult
  BY <1>7, HandleUpdateStep, HandleFileinfoStep, HandleCheckStep DEF HandleResult
<1>8. CASE Deinit \/ PoolTeardown \/ DrainResult
  BY <1>8, DeinitStep, TeardownStep, DrainStep
<1>9. CASE \E p \in Paths : DiskChanges(p)
  BY <1>9, DiskStep
<1>10. CASE UNCHANGED vars
  <2>1. /\ dir' = dir /\ cache' = cache /\ timers' = timers /\ loads' = loads
        /\ check' = check /\ queue' = queue /\ lua' = lua /\ disk' = disk
        /\ main' = main
    BY <1>10 DEF vars
  <2>2. ChecksOnce'
    BY <2>1 DEF IInv, ChecksOnce
  <2>. QED
    BY <2>1, <2>2, UnchangedDir, RefsOnly DEF IInv, Shape, Known
<1>. QED
  BY <1>1, <1>2, <1>3, <1>4, <1>5, <1>6, <1>7, <1>8, <1>9, <1>10 DEF Next, Settled

\* IInv is an inductive invariant, for any Dirs, paths, checks and bounds.
THEOREM Invariant == Spec => []IInv
<1>1. IInv /\ [Next]_vars => IInv'
  BY NextStep DEF Preserves
<1>. QED
  BY InitInvariant, <1>1, PTL DEF Spec

\* Whatever the order in which overlapping loads finish, dir_update_callback
\* never replaces a listing by an older one.
THEOREM ListingsNeverOlder == Spec => NeverOlder
<1>1. IInv /\ [Next]_vars => [\A o \in Dirs : dir'[o].version >= dir[o].version]_vars
  BY NextStep DEF Preserves, NoOlder
<1>. QED
  BY Invariant, <1>1, PTL DEF Spec, NeverOlder

\* If workers finish with their work struct before its update is handled, late
\* fileinfo only meets the File structs it was computed for.
THEOREM LateFileinfoSafe == ASSUME Prompt PROVE Spec => []FileinfoMatchesFiles
<1>1. IInv => FileinfoMatchesFiles
  BY DEF IInv, FileinfoFollows, FileinfoMatchesFiles
<1>. QED
  BY Invariant, <1>1, PTL

\* in_progress is set only while a load is underway whose callback clears it.
THEOREM NoReloadBlockedForEver == Spec => []InProgressBacked
<1>1. IInv => InProgressBacked
  <2>1. ASSUME IInv PROVE DOMAIN queue = 1 .. Len(queue)
    BY <2>1 DEF IInv, Shape
  <2>. QED
    BY <2>1 DEF IInv, Backed, InProgressBacked, Live
<1>. QED
  BY Invariant, <1>1, PTL

\* loader_reload and loader_callback never set a second timer for a Dir, nor a
\* timer next to a load in progress.
THEOREM AtMostOneReloadAhead == Spec => []OneReloadAhead
<1>1. IInv => OneReloadAhead
  BY DEF IInv, Ahead, OneReloadAhead, Live
<1>. QED
  BY Invariant, <1>1, PTL

-----------------------------------------------------------------------------
(***************************************************************************)
(* The reference count of a Dir is the number of its holders.  Holders     *)
(* counts seven sets.  Each step is described by how many elements each of *)
(* them gains or loses; the count changes by the sum of these.             *)
(***************************************************************************)
\* The holders of a Dir, each set that Holders counts by its name
CachedAt(o)  == {p \in Paths : cache[p] = o}
LuaHolds(o)  == lua \cap {o}
Starting(o)  == {l \in loads : l.dir = o /\ l.stage \in {"queued", "read", "dropped"}}
Updating(o)  == {i \in DOMAIN queue : queue[i].kind = "update" /\ queue[i].dir = o}
Delayed(o)   == {l \in loads : l.dir = o /\ ~l.load_fileinfo}
Finishing(o) == {i \in DOMAIN queue : /\ queue[i].kind = "fileinfo"
                                      /\ queue[i].dir = o /\ queue[i].is_last_batch}
CheckedBy(o) == {k \in Checks : check[k].dir = o}

Counted(o) ==
  /\ IsFiniteSet(CachedAt(o)) /\ IsFiniteSet(LuaHolds(o)) /\ IsFiniteSet(Starting(o))
  /\ IsFiniteSet(Updating(o)) /\ IsFiniteSet(Delayed(o)) /\ IsFiniteSet(Finishing(o))
  /\ IsFiniteSet(CheckedBy(o))
  /\ dir[o].refs = Holders(o)
  /\ dir[o].alloc = "live" <=> dir[o].refs > 0

\* A Dir is cached under its own path, thus under one only.
CachedByPath == \A p \in Paths : cache[p] # None => dir[cache[p]].path = p

\* What DirLoaderProofs has no use for: some types, and that an idle check has
\* no Dir
OtherTypes == /\ checking \subseteq Checks /\ event \subseteq Paths
              /\ main \in {"loop", "deinit", "torn", "undefined"}
              /\ ops \in Nat
              /\ \A k \in Checks : check[k].stage = "idle" => check[k].dir = None

\* Whether a step took or returned references is unknown once its behaviour is
\* undefined; it takes no more steps then.
RInv == /\ OtherTypes
        /\ \A o \in Dirs : dir[o].refs \in Nat
        /\ main # "undefined" => CachedByPath /\ \A o \in Dirs : Counted(o)

-----------------------------------------------------------------------------
(* Counting *)

One(b) == IF b THEN 1 ELSE 0

\* T has n elements more than S.
Moves(S, T, n) ==
  IsFiniteSet(S) => IsFiniteSet(T) /\ Cardinality(T) = Cardinality(S) + n

LEMMA MovesNot == ASSUME NEW S PROVE Moves(S, S, 0)
BY FS_CardinalityType DEF Moves

LEMMA MovesIn ==
  ASSUME NEW S, NEW x, x \notin S PROVE Moves(S, S \cup {x}, 1)
BY FS_AddElement DEF Moves

LEMMA MovesOut ==
  ASSUME NEW S, NEW x \in S PROVE Moves(S, S \ {x}, -1)
<1>1. ASSUME IsFiniteSet(S)
      PROVE  IsFiniteSet(S \ {x}) /\ Cardinality(S \ {x}) = Cardinality(S) + (-1)
  BY <1>1, FS_RemoveElement, FS_CardinalityType
<1>. QED
  BY <1>1 DEF Moves

LEMMA MovesOver ==
  ASSUME NEW S, NEW x \in S, NEW y, y \notin S \ {x}
  PROVE  Moves(S, (S \ {x}) \cup {y}, 0)
<1>1. Moves(S, S \ {x}, -1)
  BY MovesOut
<1>2. Moves(S \ {x}, (S \ {x}) \cup {y}, 1)
  BY MovesIn
<1>3. ASSUME IsFiniteSet(S)
      PROVE  /\ IsFiniteSet((S \ {x}) \cup {y})
             /\ Cardinality((S \ {x}) \cup {y}) = Cardinality(S) + 0
  <2>1. Cardinality(S) \in Nat
    BY <1>3, FS_CardinalityType
  <2>. QED
    BY <1>1, <1>2, <1>3, <2>1 DEF Moves
<1>. QED
  BY <1>3 DEF Moves

LEMMA MovesMapped ==
  ASSUME NEW S, NEW T, NEW f \in Bijection(S, T) PROVE Moves(S, T, 0)
<1>1. ASSUME IsFiniteSet(S)
      PROVE  IsFiniteSet(T) /\ Cardinality(T) = Cardinality(S) + 0
  <2>1. ExistsBijection(S, T)
    BY DEF ExistsBijection
  <2>. QED
    BY <1>1, <2>1, FS_Bijection, FS_CardinalityType
<1>. QED
  BY <1>1 DEF Moves

\* The count of a Dir stays right if it changes as the number of holders does.
\* What a step does to the holders of o: c1 .. c7 say how many each set gains.
Moved(o, c1, c2, c3, c4, c5, c6, c7) ==
  /\ Moves(CachedAt(o), CachedAt(o)', c1)   /\ Moves(LuaHolds(o), LuaHolds(o)', c2)
  /\ Moves(Starting(o), Starting(o)', c3)   /\ Moves(Updating(o), Updating(o)', c4)
  /\ Moves(Delayed(o), Delayed(o)', c5)     /\ Moves(Finishing(o), Finishing(o)', c6)
  /\ Moves(CheckedBy(o), CheckedBy(o)', c7)

Unmoved(o) == Moved(o, 0, 0, 0, 0, 0, 0, 0)

LEMMA Balance ==
  ASSUME NEW o \in Dirs, Counted(o),
         NEW c1 \in Int, NEW c2 \in Int, NEW c3 \in Int, NEW c4 \in Int,
         NEW c5 \in Int, NEW c6 \in Int, NEW c7 \in Int,
         Moved(o, c1, c2, c3, c4, c5, c6, c7),
         NEW n, n = c1 + c2 + c3 + c4 + c5 + c6 + c7, dir'[o].refs = dir[o].refs + n
  PROVE  /\ dir'[o].refs \in Nat
         /\ (dir'[o].alloc = "live" <=> dir'[o].refs > 0) => Counted(o)'
<1>. DEFINE Sum == Cardinality(CachedAt(o)) + Cardinality(LuaHolds(o))
                   + Cardinality(Starting(o)) + Cardinality(Updating(o))
                   + Cardinality(Delayed(o)) + Cardinality(Finishing(o))
                   + Cardinality(CheckedBy(o))
<1>1. /\ IsFiniteSet(CachedAt(o)) /\ IsFiniteSet(LuaHolds(o))
      /\ IsFiniteSet(Starting(o)) /\ IsFiniteSet(Updating(o))
      /\ IsFiniteSet(Delayed(o)) /\ IsFiniteSet(Finishing(o))
      /\ IsFiniteSet(CheckedBy(o))
      /\ dir[o].refs = Holders(o)
  BY DEF Counted
<1>2. Holders(o) = Sum
  BY DEF Holders, CacheRefs, LuaRefs, CachedAt, LuaHolds, Starting, Updating,
         Delayed, Finishing, CheckedBy
<1>3. Holders(o)' = Sum'
  BY DEF Holders, CacheRefs, LuaRefs, CachedAt, LuaHolds, Starting, Updating,
         Delayed, Finishing, CheckedBy
<1>4. /\ Cardinality(CachedAt(o)) \in Nat /\ Cardinality(LuaHolds(o)) \in Nat
      /\ Cardinality(Starting(o)) \in Nat /\ Cardinality(Updating(o)) \in Nat
      /\ Cardinality(Delayed(o)) \in Nat /\ Cardinality(Finishing(o)) \in Nat
      /\ Cardinality(CheckedBy(o)) \in Nat
  BY <1>1, FS_CardinalityType
<1>5. /\ IsFiniteSet(CachedAt(o)') /\ IsFiniteSet(LuaHolds(o)')
      /\ IsFiniteSet(Starting(o)') /\ IsFiniteSet(Updating(o)')
      /\ IsFiniteSet(Delayed(o)') /\ IsFiniteSet(Finishing(o)')
      /\ IsFiniteSet(CheckedBy(o)')
      /\ Cardinality(CachedAt(o)') = Cardinality(CachedAt(o)) + c1
      /\ Cardinality(LuaHolds(o)') = Cardinality(LuaHolds(o)) + c2
      /\ Cardinality(Starting(o)') = Cardinality(Starting(o)) + c3
      /\ Cardinality(Updating(o)') = Cardinality(Updating(o)) + c4
      /\ Cardinality(Delayed(o)') = Cardinality(Delayed(o)) + c5
      /\ Cardinality(Finishing(o)') = Cardinality(Finishing(o)) + c6
      /\ Cardinality(CheckedBy(o)') = Cardinality(CheckedBy(o)) + c7
  BY <1>1 DEF Moved, Moves
<1>6. /\ Cardinality(CachedAt(o)') \in Nat /\ Cardinality(LuaHolds(o)') \in Nat
      /\ Cardinality(Starting(o)') \in Nat /\ Cardinality(Updating(o)') \in Nat
      /\ Cardinality(Delayed(o)') \in Nat /\ Cardinality(Finishing(o)') \in Nat
      /\ Cardinality(CheckedBy(o)') \in Nat
  BY <1>5, FS_CardinalityType
<1>7. Sum' = Sum + (c1 + c2 + c3 + c4 + c5 + c6 + c7) /\ Sum' \in Nat /\ Sum \in Nat
  BY <1>4, <1>5, <1>6
<1>8. dir'[o].refs = Sum'
  BY <1>1, <1>2, <1>7
<1>. QED
  BY <1>3, <1>5, <1>7, <1>8 DEF Counted

-----------------------------------------------------------------------------
(* How each part of the state moves the holders *)

LEMMA CacheStays ==
  ASSUME cache' = cache, NEW o PROVE Moves(CachedAt(o), CachedAt(o)', 0)
BY MovesNot DEF CachedAt

LEMMA LuaStays ==
  ASSUME lua' = lua, NEW o PROVE Moves(LuaHolds(o), LuaHolds(o)', 0)
BY MovesNot DEF LuaHolds

LEMMA LoadsStay ==
  ASSUME loads' = loads, NEW o
  PROVE  Moves(Starting(o), Starting(o)', 0) /\ Moves(Delayed(o), Delayed(o)', 0)
BY MovesNot DEF Starting, Delayed

LEMMA QueueStays ==
  ASSUME queue' = queue, NEW o
  PROVE  Moves(Updating(o), Updating(o)', 0) /\ Moves(Finishing(o), Finishing(o)', 0)
BY MovesNot DEF Updating, Finishing

LEMMA ChecksStay ==
  ASSUME \A k \in Checks : check'[k].dir = check[k].dir, NEW o
  PROVE  Moves(CheckedBy(o), CheckedBy(o)', 0)
<1>1. CheckedBy(o)' = CheckedBy(o)
  BY DEF CheckedBy
<1>. QED
  BY <1>1, MovesNot

AtStart(l) == l.stage \in {"queued", "read", "dropped"}

LEMMA LoadBegins ==
  ASSUME NEW l, l \notin loads, loads' = loads \cup {l}, NEW o
  PROVE  /\ Moves(Starting(o), Starting(o)', One(l.dir = o /\ AtStart(l)))
         /\ Moves(Delayed(o), Delayed(o)', One(l.dir = o /\ ~l.load_fileinfo))
<1>1. Moves(Starting(o), Starting(o)', One(l.dir = o /\ AtStart(l)))
  <2>1. CASE l.dir = o /\ AtStart(l)
    <3>1. Starting(o)' = Starting(o) \cup {l} /\ l \notin Starting(o)
      BY <2>1 DEF Starting, AtStart
    <3>. QED
      BY <2>1, <3>1, MovesIn DEF One
  <2>2. CASE ~(l.dir = o /\ AtStart(l))
    <3>1. Starting(o)' = Starting(o)
      BY <2>2 DEF Starting, AtStart
    <3>. QED
      BY <2>2, <3>1, MovesNot DEF One
  <2>. QED
    BY <2>1, <2>2
<1>2. Moves(Delayed(o), Delayed(o)', One(l.dir = o /\ ~l.load_fileinfo))
  <2>1. CASE l.dir = o /\ ~l.load_fileinfo
    <3>1. Delayed(o)' = Delayed(o) \cup {l} /\ l \notin Delayed(o)
      BY <2>1 DEF Delayed
    <3>. QED
      BY <2>1, <3>1, MovesIn DEF One
  <2>2. CASE ~(l.dir = o /\ ~l.load_fileinfo)
    <3>1. Delayed(o)' = Delayed(o)
      BY <2>2 DEF Delayed
    <3>. QED
      BY <2>2, <3>1, MovesNot DEF One
  <2>. QED
    BY <2>1, <2>2
<1>. QED
  BY <1>1, <1>2

LEMMA LoadEnds ==
  ASSUME NEW l \in loads, loads' = loads \ {l}, NEW o
  PROVE  /\ Moves(Starting(o), Starting(o)', 0 - One(l.dir = o /\ AtStart(l)))
         /\ Moves(Delayed(o), Delayed(o)', 0 - One(l.dir = o /\ ~l.load_fileinfo))
<1>1. Moves(Starting(o), Starting(o)', 0 - One(l.dir = o /\ AtStart(l)))
  <2>1. CASE l.dir = o /\ AtStart(l)
    <3>1. Starting(o)' = Starting(o) \ {l} /\ l \in Starting(o)
      BY <2>1 DEF Starting, AtStart
    <3>. QED
      BY <2>1, <3>1, MovesOut DEF One
  <2>2. CASE ~(l.dir = o /\ AtStart(l))
    <3>1. Starting(o)' = Starting(o)
      BY <2>2 DEF Starting, AtStart
    <3>. QED
      BY <2>2, <3>1, MovesNot DEF One
  <2>. QED
    BY <2>1, <2>2
<1>2. Moves(Delayed(o), Delayed(o)', 0 - One(l.dir = o /\ ~l.load_fileinfo))
  <2>1. CASE l.dir = o /\ ~l.load_fileinfo
    <3>1. Delayed(o)' = Delayed(o) \ {l} /\ l \in Delayed(o)
      BY <2>1 DEF Delayed
    <3>. QED
      BY <2>1, <3>1, MovesOut DEF One
  <2>2. CASE ~(l.dir = o /\ ~l.load_fileinfo)
    <3>1. Delayed(o)' = Delayed(o)
      BY <2>2 DEF Delayed
    <3>. QED
      BY <2>2, <3>1, MovesNot DEF One
  <2>. QED
    BY <2>1, <2>2
<1>. QED
  BY <1>1, <1>2

\* A worker takes load l to its next stage m.
LEMMA LoadMovesOn ==
  ASSUME CookiesUnique, NEW l \in loads, NEW m, loads' = (loads \ {l}) \cup {m},
         m.dir = l.dir, m.cookie = l.cookie, m.load_fileinfo = l.load_fileinfo,
         AtStart(m) => AtStart(l), NEW o
  PROVE  /\ Moves(Starting(o), Starting(o)',
                  0 - One(l.dir = o /\ AtStart(l) /\ ~AtStart(m)))
         /\ Moves(Delayed(o), Delayed(o)', 0)
<1>0. m \notin loads \ {l}
  BY DEF CookiesUnique
<1>1. Moves(Starting(o), Starting(o)', 0 - One(l.dir = o /\ AtStart(l) /\ ~AtStart(m)))
  <2>1. CASE l.dir = o /\ AtStart(l) /\ ~AtStart(m)
    <3>1. Starting(o)' = Starting(o) \ {l} /\ l \in Starting(o)
      BY <2>1 DEF Starting, AtStart
    <3>. QED
      BY <2>1, <3>1, MovesOut DEF One
  <2>2. CASE l.dir = o /\ AtStart(l) /\ AtStart(m)
    <3>1. /\ Starting(o)' = (Starting(o) \ {l}) \cup {m} /\ l \in Starting(o)
          /\ m \notin Starting(o) \ {l}
      BY <1>0, <2>2 DEF Starting, AtStart
    <3>. QED
      BY <2>2, <3>1, MovesOver DEF One
  <2>3. CASE ~(l.dir = o /\ AtStart(l))
    <3>1. Starting(o)' = Starting(o)
      BY <2>3 DEF Starting, AtStart
    <3>. QED
      BY <2>3, <3>1, MovesNot DEF One
  <2>. QED
    BY <2>1, <2>2, <2>3
<1>2. Moves(Delayed(o), Delayed(o)', 0)
  <2>1. CASE l.dir = o /\ ~l.load_fileinfo
    <3>1. /\ Delayed(o)' = (Delayed(o) \ {l}) \cup {m} /\ l \in Delayed(o)
          /\ m \notin Delayed(o) \ {l}
      BY <1>0, <2>1 DEF Delayed
    <3>. QED
      BY <3>1, MovesOver
  <2>2. CASE ~(l.dir = o /\ ~l.load_fileinfo)
    <3>1. Delayed(o)' = Delayed(o)
      BY <2>2 DEF Delayed
    <3>. QED
      BY <3>1, MovesNot
  <2>. QED
    BY <2>1, <2>2
<1>. QED
  BY <1>1, <1>2

IsUpdate(r, o) == r.kind = "update" /\ r.dir = o
IsLastBatch(r, o) == r.kind = "fileinfo" /\ r.dir = o /\ r.is_last_batch

LEMMA ResultQueued ==
  ASSUME queue \in Seq(Result), NEW r \in Result, queue' = Append(queue, r), NEW o
  PROVE  /\ Moves(Updating(o), Updating(o)', One(IsUpdate(r, o)))
         /\ Moves(Finishing(o), Finishing(o)', One(IsLastBatch(r, o)))
<1>. DEFINE n == Len(queue) + 1
<1>0. /\ n \in Nat /\ DOMAIN queue = 1 .. Len(queue) /\ n \notin DOMAIN queue
      /\ DOMAIN queue' = (DOMAIN queue) \cup {n}
      /\ \A i \in DOMAIN queue : queue'[i] = queue[i]
      /\ queue'[n] = r
  BY AppendFacts
<1>. HIDE DEF n
<1>1. Moves(Updating(o), Updating(o)', One(IsUpdate(r, o)))
  <2>1. CASE IsUpdate(r, o)
    <3>1. Updating(o)' = Updating(o) \cup {n} /\ n \notin Updating(o)
      BY <1>0, <2>1 DEF Updating, IsUpdate
    <3>. QED
      BY <2>1, <3>1, MovesIn DEF One
  <2>2. CASE ~IsUpdate(r, o)
    <3>1. Updating(o)' = Updating(o)
      BY <1>0, <2>2 DEF Updating, IsUpdate
    <3>. QED
      BY <2>2, <3>1, MovesNot DEF One
  <2>. QED
    BY <2>1, <2>2
<1>2. Moves(Finishing(o), Finishing(o)', One(IsLastBatch(r, o)))
  <2>1. CASE IsLastBatch(r, o)
    <3>1. Finishing(o)' = Finishing(o) \cup {n} /\ n \notin Finishing(o)
      BY <1>0, <2>1 DEF Finishing, IsLastBatch
    <3>. QED
      BY <2>1, <3>1, MovesIn DEF One
  <2>2. CASE ~IsLastBatch(r, o)
    <3>1. Finishing(o)' = Finishing(o)
      BY <1>0, <2>2 DEF Finishing, IsLastBatch
    <3>. QED
      BY <2>2, <3>1, MovesNot DEF One
  <2>. QED
    BY <2>1, <2>2
<1>. QED
  BY <1>1, <1>2

\* Without its first element, the others shift by one.
LEMMA Shifts ==
  ASSUME NEW S, S \subseteq Nat \ {0}, NEW T, T = {i - 1 : i \in S \ {1}}
  PROVE  Moves(S, T, 0 - One(1 \in S))
<1>. DEFINE f == [i \in S \ {1} |-> i - 1]
<1>1. f \in Bijection(S \ {1}, T)
  <2>1. f \in [S \ {1} -> T]
    OBVIOUS
  <2>2. \A i, j \in S \ {1} : f[i] = f[j] => i = j
    OBVIOUS
  <2>3. \A t \in T : \E i \in S \ {1} : f[i] = t
    OBVIOUS
  <2>. HIDE DEF f
  <2>. QED
    BY <2>1, <2>2, <2>3 DEF Bijection, Injection, IsInjective, Surjection
<1>2. Moves(S \ {1}, T, 0)
  BY <1>1, MovesMapped
<1>3. CASE 1 \in S
  <2>1. Moves(S, S \ {1}, -1)
    BY <1>3, MovesOut
  <2>2. ASSUME IsFiniteSet(S)
        PROVE  IsFiniteSet(T) /\ Cardinality(T) = Cardinality(S) + (0 - 1)
    <3>1. Cardinality(S) \in Nat
      BY <2>2, FS_CardinalityType
    <3>2. IsFiniteSet(S \ {1}) /\ Cardinality(S \ {1}) = Cardinality(S) + (-1)
      BY <2>1, <2>2 DEF Moves
    <3>. QED
      BY <1>2, <3>1, <3>2 DEF Moves
  <2>. QED
    BY <1>3, <2>2 DEF Moves, One
<1>4. CASE 1 \notin S
  <2>1. S \ {1} = S
    BY <1>4
  <2>. QED
    BY <1>2, <1>4, <2>1 DEF One
<1>. QED
  BY <1>3, <1>4

LEMMA ResultTaken ==
  ASSUME queue \in Seq(Result), queue # <<>>, queue' = Tail(queue), NEW o
  PROVE  /\ Moves(Updating(o), Updating(o)', 0 - One(IsUpdate(Head(queue), o)))
         /\ Moves(Finishing(o), Finishing(o)', 0 - One(IsLastBatch(Head(queue), o)))
<1>1. /\ Len(queue) \in Nat /\ Len(queue) > 0
      /\ DOMAIN queue = 1 .. Len(queue)
      /\ DOMAIN queue' = 1 .. (Len(queue) - 1)
      /\ \A i \in DOMAIN queue' : i + 1 \in DOMAIN queue /\ queue'[i] = queue[i + 1]
      /\ Head(queue) = queue[1]
  BY TailFacts
<1>2. \A i \in (DOMAIN queue) \ {1} : i - 1 \in DOMAIN queue' /\ queue'[i - 1] = queue[i]
  BY <1>1
<1>3. /\ Updating(o) \subseteq Nat \ {0} /\ Finishing(o) \subseteq Nat \ {0}
  BY <1>1 DEF Updating, Finishing
<1>4. Updating(o)' = {i - 1 : i \in Updating(o) \ {1}}
  BY <1>1, <1>2 DEF Updating
<1>5. Finishing(o)' = {i - 1 : i \in Finishing(o) \ {1}}
  <2>1. \A i \in DOMAIN queue' : i = (i + 1) - 1 /\ i + 1 # 1
    BY <1>1
  <2>2. \A i \in Finishing(o)' : i + 1 \in Finishing(o) \ {1}
    BY <1>1, <2>1 DEF Finishing
  <2>3. \A i \in Finishing(o) \ {1} : i - 1 \in Finishing(o)'
    BY <1>2 DEF Finishing
  <2>4. Finishing(o)' \subseteq {i - 1 : i \in Finishing(o) \ {1}}
    BY <2>1, <2>2 DEF Finishing
  <2>. QED
    BY <2>3, <2>4
<1>6. (1 \in Updating(o)) = IsUpdate(Head(queue), o)
  BY <1>1 DEF Updating, IsUpdate
<1>7. (1 \in Finishing(o)) = IsLastBatch(Head(queue), o)
  BY <1>1 DEF Finishing, IsLastBatch
<1>. QED
  BY <1>3, <1>4, <1>5, <1>6, <1>7, Shifts

\* A check c begins to use the Dir it is given, or ends to use the one it has.
LEMMA CheckBegins ==
  ASSUME NEW k \in Checks, check \in [Checks -> CheckRec], check[k].dir \notin Dirs,
         NEW c, check' = [check EXCEPT ![k] = c], NEW o \in Dirs
  PROVE  Moves(CheckedBy(o), CheckedBy(o)', One(c.dir = o))
<1>1. CASE c.dir = o
  <2>1. CheckedBy(o)' = CheckedBy(o) \cup {k} /\ k \notin CheckedBy(o)
    BY <1>1 DEF CheckedBy
  <2>. QED
    BY <1>1, <2>1, MovesIn DEF One
<1>2. CASE c.dir # o
  <2>1. CheckedBy(o)' = CheckedBy(o)
    BY <1>2 DEF CheckedBy
  <2>. QED
    BY <1>2, <2>1, MovesNot DEF One
<1>. QED
  BY <1>1, <1>2

LEMMA CheckEnds ==
  ASSUME NEW k \in Checks, check \in [Checks -> CheckRec],
         check' = [check EXCEPT ![k] = IdleCheck], NEW o \in Dirs
  PROVE  Moves(CheckedBy(o), CheckedBy(o)', 0 - One(check[k].dir = o))
<1>0. IdleCheck.dir # o
  BY DirsAssumption DEF IdleCheck
<1>1. CASE check[k].dir = o
  <2>1. CheckedBy(o)' = CheckedBy(o) \ {k} /\ k \in CheckedBy(o)
    BY <1>0, <1>1 DEF CheckedBy
  <2>. QED
    BY <1>1, <2>1, MovesOut DEF One
<1>2. CASE check[k].dir # o
  <2>1. CheckedBy(o)' = CheckedBy(o)
    BY <1>0, <1>2 DEF CheckedBy
  <2>. QED
    BY <1>2, <2>1, MovesNot DEF One
<1>. QED
  BY <1>1, <1>2
-----------------------------------------------------------------------------
(* What the operators on a Dir do to its count *)

\* e is d with n references more; if that leaves none, d is freed.
Changes(e, d, n) ==
  /\ e.refs = d.refs + n /\ e.path = d.path
  /\ (d.alloc = "live" /\ d.refs > 0 /\ d.refs + n >= 0)
       => (e.alloc = "live" <=> e.refs > 0)

LEMMA ChangesNot ==
  ASSUME NEW d \in DirShape, NEW e \in DirShape,
         e.refs = d.refs, e.path = d.path, e.alloc = d.alloc
  PROVE  Changes(e, d, 0)
BY DEF Changes, DirShape

LEMMA IncRefChanges ==
  ASSUME NEW d \in DirShape, NEW n \in Nat PROVE Changes(IncRef(d, n), d, n)
BY DEF Changes, IncRef, DirShape

LEMMA DecRefChanges ==
  ASSUME NEW d \in DirShape, NEW n \in Nat PROVE Changes(DecRef(d, n), d, 0 - n)
<1>. DEFINE a == IF d.refs = n THEN "freed" ELSE d.alloc
            e == [d EXCEPT !.refs = d.refs - n]
<1>1. DecRef(d, n) = [e EXCEPT !.alloc = a]
  BY DEF DecRef, DirShape
<1>2. e \in DirShape /\ e.refs = d.refs - n /\ e.path = d.path
  BY DEF DirShape
<1>. HIDE DEF e
<1>3. DecRef(d, n).refs = d.refs - n /\ DecRef(d, n).path = d.path /\ DecRef(d, n).alloc = a
  BY <1>1, <1>2 DEF DirShape
<1>4. d.refs \in Int
  BY DEF DirShape
<1>. QED
  BY <1>3, <1>4 DEF Changes

\* The references async_dir_load takes
LoadRefs(b) == IF b THEN 1 ELSE 2

LEMMA AsyncDirLoadChanges ==
  ASSUME NEW d \in DirShape, NEW b \in BOOLEAN
  PROVE  /\ Changes(AsyncDirLoad(d, b), d, LoadRefs(b))
         /\ AsyncDirLoad(d, b).alloc = d.alloc
<1>. DEFINE a == IncRef(d, LoadRefs(b))
            c == [a EXCEPT !.cookie = a.cookie + 1]
            s == IF a.status = "delayed" THEN "scheduled" ELSE a.status
            e == [c EXCEPT !.status = s]
<1>1. /\ a \in DirShape /\ a.alloc = d.alloc /\ a.path = d.path
      /\ a.refs = d.refs + LoadRefs(b)
  BY DEF IncRef, DirShape, LoadRefs
<1>2. AsyncDirLoad(d, b) = e
  BY <1>1 DEF AsyncDirLoad, LoadRefs, DirShape
<1>3. c \in DirShape /\ c.alloc = a.alloc /\ c.path = a.path /\ c.refs = a.refs
  BY <1>1 DEF DirShape
<1>. HIDE DEF c, s, a
<1>4. e.alloc = c.alloc /\ e.path = c.path /\ e.refs = c.refs
  BY <1>3 DEF DirShape
<1>5. d.refs \in Int
  BY DEF DirShape
<1>. QED
  BY <1>1, <1>2, <1>3, <1>4, <1>5 DEF Changes, LoadRefs

LEMMA LoadChanges ==
  ASSUME NEW d \in DirShape
  PROVE  /\ Changes(Load(d), d, LoadRefs(WithFileinfo(d)))
         /\ Load(d).alloc = d.alloc
<1>. DEFINE a == AsyncDirLoad(d, WithFileinfo(d))
<1>1. WithFileinfo(d) \in BOOLEAN
  BY DEF WithFileinfo
<1>2. /\ a \in DirShape /\ Changes(a, d, LoadRefs(WithFileinfo(d)))
      /\ a.alloc = d.alloc
  BY <1>1, AsyncDirLoadChanges, AsyncDirLoadFields DEF Begun
<1>3. Load(d) = [a EXCEPT !.next_requested = FALSE, !.in_progress = TRUE]
  BY DEF Load
<1>. HIDE DEF a
<1>4. /\ Load(d).refs = a.refs /\ Load(d).path = a.path /\ Load(d).alloc = a.alloc
  BY <1>2, <1>3 DEF DirShape
<1>. QED
  BY <1>2, <1>4 DEF Changes

LEMMA ReloadChanges ==
  ASSUME NEW d \in DirShape
  PROVE  /\ LoaderDirReload(d).refs = d.refs /\ LoaderDirReload(d).alloc = d.alloc
         /\ LoaderDirReload(d).path = d.path
BY DEF LoaderDirReload, Blocked, Schedule, DirShape

LEMMA UpdateWithChanges ==
  ASSUME NEW d \in DirShape, NEW r
  PROVE  /\ UpdateWith(d, r).refs = d.refs /\ UpdateWith(d, r).alloc = d.alloc
         /\ UpdateWith(d, r).path = d.path
BY DEF UpdateWith, DirShape

LEMMA LoadWorkStarts ==
  ASSUME NEW o, NEW d, NEW b
  PROVE  LET l == LoadWork(o, d, b)
         IN  l.dir = o /\ l.load_fileinfo = b /\ AtStart(l)
BY DEF LoadWork, AtStart

-----------------------------------------------------------------------------
(* Holding and being counted *)

LEMMA SumPositive ==
  ASSUME NEW a \in Nat, NEW b \in Nat, NEW c \in Nat, NEW d \in Nat, NEW e \in Nat,
         NEW f \in Nat, NEW g \in Nat,
         a # 0 \/ b # 0 \/ c # 0 \/ d # 0 \/ e # 0 \/ f # 0 \/ g # 0
  PROVE  a + b + c + d + e + f + g > 0
<1>1. a > 0 \/ b > 0 \/ c > 0 \/ d > 0 \/ e > 0 \/ f > 0 \/ g > 0
  OBVIOUS
<1>2. /\ a >= 0 /\ b >= 0 /\ c >= 0 /\ d >= 0 /\ e >= 0 /\ f >= 0 /\ g >= 0
  OBVIOUS
<1>. QED
  BY <1>1, <1>2

\* Who holds a Dir finds it alive.
LEMMA HeldIsLive ==
  ASSUME NEW o \in Dirs, Counted(o), dir[o].refs \in Nat, NEW x,
         \/ x \in CachedAt(o) \/ x \in LuaHolds(o) \/ x \in Starting(o)
         \/ x \in Updating(o) \/ x \in Delayed(o) \/ x \in Finishing(o)
         \/ x \in CheckedBy(o)
  PROVE  dir[o].refs > 0 /\ dir[o].alloc = "live"
<1>1. /\ Cardinality(CachedAt(o)) \in Nat /\ Cardinality(LuaHolds(o)) \in Nat
      /\ Cardinality(Starting(o)) \in Nat /\ Cardinality(Updating(o)) \in Nat
      /\ Cardinality(Delayed(o)) \in Nat /\ Cardinality(Finishing(o)) \in Nat
      /\ Cardinality(CheckedBy(o)) \in Nat
  BY FS_CardinalityType DEF Counted
<1>2. \A S : IsFiniteSet(S) /\ x \in S => Cardinality(S) # 0
  BY FS_EmptySet
<1>3. \/ Cardinality(CachedAt(o)) # 0 \/ Cardinality(LuaHolds(o)) # 0
      \/ Cardinality(Starting(o)) # 0 \/ Cardinality(Updating(o)) # 0
      \/ Cardinality(Delayed(o)) # 0 \/ Cardinality(Finishing(o)) # 0
      \/ Cardinality(CheckedBy(o)) # 0
  BY <1>2 DEF Counted
<1>4. Holders(o) = Cardinality(CachedAt(o)) + Cardinality(LuaHolds(o))
                   + Cardinality(Starting(o)) + Cardinality(Updating(o))
                   + Cardinality(Delayed(o)) + Cardinality(Finishing(o))
                   + Cardinality(CheckedBy(o))
  BY DEF Holders, CacheRefs, LuaRefs, CachedAt, LuaHolds, Starting, Updating,
         Delayed, Finishing, CheckedBy
<1>5. Cardinality(CachedAt(o)) + Cardinality(LuaHolds(o))
      + Cardinality(Starting(o)) + Cardinality(Updating(o))
      + Cardinality(Delayed(o)) + Cardinality(Finishing(o))
      + Cardinality(CheckedBy(o)) > 0
  BY <1>1, <1>3, SumPositive
<1>6. Holders(o) > 0
  BY <1>4, <1>5
<1>. QED
  BY <1>6 DEF Counted

\* A Dir that does not live is held by nobody.
LEMMA NotHeld ==
  ASSUME NEW o \in Dirs, Counted(o), dir[o].refs \in Nat, dir[o].alloc # "live"
  PROVE  /\ dir[o].refs = 0
         /\ CachedAt(o) = {} /\ LuaHolds(o) = {} /\ Starting(o) = {} /\ Updating(o) = {}
         /\ Delayed(o) = {} /\ Finishing(o) = {} /\ CheckedBy(o) = {}
<1>1. dir[o].refs = 0
  BY DEF Counted
<1>2. \A x : ~ \/ x \in CachedAt(o) \/ x \in LuaHolds(o) \/ x \in Starting(o)
               \/ x \in Updating(o) \/ x \in Delayed(o) \/ x \in Finishing(o)
               \/ x \in CheckedBy(o)
  BY HeldIsLive
<1>. QED
  BY <1>1, <1>2

LEMMA UnmovedIsCounted ==
  ASSUME NEW o \in Dirs, Counted(o), dir[o].refs \in Nat, Unmoved(o),
         dir'[o].refs = dir[o].refs, dir'[o].alloc = dir[o].alloc
  PROVE  dir'[o].refs \in Nat /\ Counted(o)'
<1>1. dir'[o].refs = dir[o].refs + 0 /\ 0 = 0 + 0 + 0 + 0 + 0 + 0 + 0
  OBVIOUS
<1>2. dir'[o].alloc = "live" <=> dir'[o].refs > 0
  BY DEF Counted
<1>3. Moved(o, 0, 0, 0, 0, 0, 0, 0)
  BY DEF Unmoved
<1>4. (dir'[o].alloc = "live" <=> dir'[o].refs > 0) => Counted(o)'
  BY <1>1, <1>3, Balance
<1>. QED
  BY <1>2, <1>4

\* A step that changes Dir o alone, which is held
LEMMA OneDirIsCounted ==
  ASSUME NEW o \in Dirs, \A q \in Dirs \ {o} : dir'[q] = dir[q],
         \A q \in Dirs : dir[q].refs \in Nat /\ Counted(q),
         dir[o].refs > 0,
         NEW c1 \in Int, NEW c2 \in Int, NEW c3 \in Int, NEW c4 \in Int,
         NEW c5 \in Int, NEW c6 \in Int, NEW c7 \in Int,
         Moved(o, c1, c2, c3, c4, c5, c6, c7),
         NEW n, n = c1 + c2 + c3 + c4 + c5 + c6 + c7, Changes(dir'[o], dir[o], n),
         \A q \in Dirs \ {o} : Unmoved(q)
  PROVE  \A q \in Dirs : /\ dir'[q].refs \in Nat /\ Counted(q)'
                         /\ dir'[q].path = dir[q].path
<1>1. dir'[o].refs = dir[o].refs + n /\ dir'[o].path = dir[o].path /\ n \in Int
  BY DEF Changes
<1>2. /\ dir'[o].refs \in Nat
      /\ (dir'[o].alloc = "live" <=> dir'[o].refs > 0) => Counted(o)'
  BY <1>1, Balance
<1>3. dir'[o].alloc = "live" <=> dir'[o].refs > 0
  <2>1. dir[o].refs + n >= 0 /\ dir[o].alloc = "live"
    BY <1>1, <1>2 DEF Counted
  <2>. QED
    BY <2>1 DEF Changes
<1>4. \A q \in Dirs \ {o} : dir'[q].refs \in Nat /\ Counted(q)'
  BY UnmovedIsCounted
<1>. QED
  BY <1>1, <1>2, <1>3, <1>4

\* Steps that keep the cache
LEMMA KeepsCache ==
  ASSUME RInv, OtherTypes', cache' = cache,
         cache \in [Paths -> Dirs \cup {None}],
         \A o \in Dirs : dir'[o].path = dir[o].path,
         \A o \in Dirs : dir'[o].refs \in Nat,
         main' # "undefined" => main # "undefined" /\ \A o \in Dirs : Counted(o)'
  PROVE  RInv'
BY DEF RInv, CachedByPath
LEMMA Stays ==
  ASSUME NEW o
  PROVE  /\ cache' = cache => Moves(CachedAt(o), CachedAt(o)', 0)
         /\ lua' = lua => Moves(LuaHolds(o), LuaHolds(o)', 0)
         /\ loads' = loads => /\ Moves(Starting(o), Starting(o)', 0)
                             /\ Moves(Delayed(o), Delayed(o)', 0)
         /\ queue' = queue => /\ Moves(Updating(o), Updating(o)', 0)
                             /\ Moves(Finishing(o), Finishing(o)', 0)
         /\ check' = check => Moves(CheckedBy(o), CheckedBy(o)', 0)
BY CacheStays, LuaStays, LoadsStay, QueueStays, ChecksStay

-----------------------------------------------------------------------------
(* Calls and collections of Lua *)

LEMMA LuaPushCounted ==
  ASSUME IInv, RInv, NEW p \in Paths, LuaPush(p) PROVE RInv'
<1>0. PICK o \in Dirs : o = cache[p]
  BY DEF LuaPush, IInv, Shape
<1>1. /\ main = "loop" /\ o \notin lua /\ p \in CachedAt(o)
      /\ lua' = lua \cup {o} /\ dir' = [dir EXCEPT ![o] = IncRef(dir[o], 1)]
      /\ cache' = cache /\ loads' = loads /\ queue' = queue /\ check' = check
      /\ main' = main /\ OtherTypes'
  BY <1>0 DEF LuaPush, Op, RInv, OtherTypes, CachedAt
<1>2. dir \in [Dirs -> DirShape] /\ cache \in [Paths -> Dirs \cup {None}]
  BY DEF IInv, Shape
<1>3. \A q \in Dirs : dir[q].refs \in Nat /\ Counted(q)
  BY <1>1 DEF RInv
<1>4. dir[o].refs > 0
  BY <1>1, <1>3, HeldIsLive
<1>5. Moved(o, 0, 1, 0, 0, 0, 0, 0)
  <2>1. LuaHolds(o)' = LuaHolds(o) \cup {o} /\ o \notin LuaHolds(o)
    BY <1>1 DEF LuaHolds
  <2>. QED
    BY <1>1, <2>1, MovesIn, Stays DEF Moved
<1>6. ASSUME NEW q \in Dirs \ {o} PROVE Unmoved(q)
  <2>1. LuaHolds(q)' = LuaHolds(q)
    BY <1>1, <1>6 DEF LuaHolds
  <2>. QED
    BY <1>1, <2>1, MovesNot, Stays DEF Unmoved, Moved
<1>7. Changes(dir'[o], dir[o], 1) /\ \A q \in Dirs \ {o} : dir'[q] = dir[q]
  BY <1>1, <1>2, IncRefChanges
<1>8. \A q \in Dirs : dir'[q].refs \in Nat /\ Counted(q)' /\ dir'[q].path = dir[q].path
  BY <1>1, <1>2, <1>3, <1>4, <1>5, <1>6, <1>7, OneDirIsCounted
<1>. QED
  BY <1>1, <1>2, <1>8, KeepsCache

LEMMA LuaGcCounted ==
  ASSUME IInv, RInv, NEW o \in Dirs, LuaGc(o) PROVE RInv'
<1>1. /\ main = "loop" /\ o \in lua
      /\ lua' = lua \ {o} /\ dir' = [dir EXCEPT ![o] = DecRef(dir[o], 1)]
      /\ cache' = cache /\ loads' = loads /\ queue' = queue /\ check' = check
      /\ main' = main /\ OtherTypes'
  BY DEF LuaGc, RInv, OtherTypes
<1>2. dir \in [Dirs -> DirShape] /\ cache \in [Paths -> Dirs \cup {None}]
  BY DEF IInv, Shape
<1>3. \A q \in Dirs : dir[q].refs \in Nat /\ Counted(q)
  BY <1>1 DEF RInv
<1>4. dir[o].refs > 0
  <2>1. o \in LuaHolds(o)
    BY <1>1 DEF LuaHolds
  <2>. QED
    BY <1>3, <2>1, HeldIsLive
<1>5. Moved(o, 0, -1, 0, 0, 0, 0, 0)
  <2>1. LuaHolds(o)' = LuaHolds(o) \ {o} /\ o \in LuaHolds(o)
    BY <1>1 DEF LuaHolds
  <2>. QED
    BY <1>1, <2>1, MovesOut, Stays DEF Moved
<1>6. ASSUME NEW q \in Dirs \ {o} PROVE Unmoved(q)
  <2>1. LuaHolds(q)' = LuaHolds(q)
    BY <1>1, <1>6 DEF LuaHolds
  <2>. QED
    BY <1>1, <2>1, MovesNot, Stays DEF Unmoved, Moved
<1>7. Changes(dir'[o], dir[o], -1) /\ \A q \in Dirs \ {o} : dir'[q] = dir[q]
  BY <1>1, <1>2, DecRefChanges
<1>8. \A q \in Dirs : dir'[q].refs \in Nat /\ Counted(q)' /\ dir'[q].path = dir[q].path
  BY <1>1, <1>2, <1>3, <1>4, <1>5, <1>6, <1>7, OneDirIsCounted
<1>. QED
  BY <1>1, <1>2, <1>8, KeepsCache

-----------------------------------------------------------------------------
(* Steps that begin a load or a check *)

\* A load of o begins, of a Dir that somebody holds.
LEMMA BeginsCounted ==
  ASSUME IInv, RInv, main # "undefined", NEW o \in Dirs, dir[o].refs > 0,
         NEW b \in BOOLEAN, Changes(dir'[o], dir[o], LoadRefs(b)),
         \A q \in Dirs \ {o} : dir'[q] = dir[q],
         NEW l, l.dir = o, l.load_fileinfo = b, AtStart(l), l \notin loads,
         loads' = loads \cup {l}, cache' = cache, lua' = lua, queue' = queue,
         check' = check, main' = main, OtherTypes'
  PROVE  RInv'
<1>1. dir \in [Dirs -> DirShape] /\ cache \in [Paths -> Dirs \cup {None}]
  BY DEF IInv, Shape
<1>2. \A q \in Dirs : dir[q].refs \in Nat /\ Counted(q)
  BY DEF RInv
<1>3. Moved(o, 0, 0, 1, 0, One(~b), 0, 0)
  <2>1. One(o = o /\ AtStart(l)) = 1 /\ One(o = o /\ ~l.load_fileinfo) = One(~b)
    BY DEF One
  <2>. QED
    BY <2>1, LoadBegins, Stays DEF Moved
<1>4. ASSUME NEW q \in Dirs \ {o} PROVE Unmoved(q)
  <2>1. One(l.dir = q /\ AtStart(l)) = 0 /\ One(l.dir = q /\ ~l.load_fileinfo) = 0
    BY <1>4 DEF One
  <2>. QED
    BY <2>1, LoadBegins, Stays DEF Unmoved, Moved
<1>5. LoadRefs(b) = 0 + 0 + 1 + 0 + One(~b) + 0 + 0 /\ One(~b) \in Int
  BY DEF One, LoadRefs
<1>6. \A q \in Dirs : dir'[q].refs \in Nat /\ Counted(q)' /\ dir'[q].path = dir[q].path
  BY <1>1, <1>2, <1>3, <1>4, <1>5, OneDirIsCounted
<1>. QED
  BY <1>1, <1>6, KeepsCache
LEMMA WorkIsNew ==
  ASSUME IInv, NEW o \in Dirs, NEW b \in BOOLEAN,
         NEW d, d \in DirShape, d.cookie = dir[o].cookie
  PROVE  LoadWork(o, d, b) \notin loads
<1>1. LoadWork(o, d, b).dir = o /\ LoadWork(o, d, b).cookie = dir[o].cookie + 1
  BY LoadWorkFields
<1>2. dir[o].cookie \in Nat
  BY DirTypes DEF IInv, Shape
<1>3. \A l \in loads : l.cookie \in Nat /\ l.cookie <= dir[l.dir].cookie
  BY LoadTypes DEF IInv, Shape, CookiesUnique
<1>. QED
  BY <1>1, <1>2, <1>3

LEMMA StartLoadCounted ==
  ASSUME IInv, RInv, main = "loop", NEW p \in Paths, cache[p] # None,
         NEW b \in BOOLEAN, StartLoad(cache[p], b), cache' = cache, lua' = lua,
         queue' = queue, check' = check, main' = main, OtherTypes'
  PROVE  RInv'
<1>1. PICK o \in Dirs : o = cache[p]
  BY DEF IInv, Shape
<1>2. dir[o] \in DirShape /\ dir \in [Dirs -> DirShape]
  BY DEF IInv, Shape
<1>3. dir[o].refs > 0
  <2>1. p \in CachedAt(o) /\ dir[o].refs \in Nat /\ Counted(o)
    BY <1>1 DEF CachedAt, RInv
  <2>. QED
    BY <2>1, HeldIsLive
<1>4. PICK l : l = LoadWork(o, dir[o], b)
  OBVIOUS
<1>5. l.dir = o /\ l.load_fileinfo = b /\ AtStart(l) /\ l \notin loads
  BY <1>2, <1>4, LoadWorkStarts, WorkIsNew
<1>6. /\ loads' = loads \cup {l}
      /\ dir'[o] = AsyncDirLoad(dir[o], b) /\ \A q \in Dirs \ {o} : dir'[q] = dir[q]
  BY <1>1, <1>2, <1>4 DEF StartLoad
<1>7. Changes(dir'[o], dir[o], LoadRefs(b))
  BY <1>2, <1>6, AsyncDirLoadChanges
<1>. QED
  BY <1>3, <1>5, <1>6, <1>7, BeginsCounted

LEMMA ReloadCounted ==
  ASSUME IInv, RInv, NEW p \in Paths, NEW b \in BOOLEAN, Reload(p, b) PROVE RInv'
BY StartLoadCounted DEF Reload, Op, RInv, OtherTypes

LEMMA AsyncDirCheckCounted ==
  ASSUME IInv, RInv, main = "loop", NEW p \in Paths, cache[p] # None,
         NEW k \in Checks, AsyncDirCheck(k, cache[p]), cache' = cache, lua' = lua,
         queue' = queue, loads' = loads, main' = main, event' = event, ops' \in Nat
  PROVE  RInv'
<1>1. PICK o \in Dirs : o = cache[p]
  BY DEF IInv, Shape
<1>2. /\ dir \in [Dirs -> DirShape] /\ check \in [Checks -> CheckRec]
      /\ cache \in [Paths -> Dirs \cup {None}]
  BY DEF IInv, Shape
<1>3. \A q \in Dirs : dir[q].refs \in Nat /\ Counted(q)
  BY DEF RInv
<1>4. dir[o].refs > 0
  <2>1. p \in CachedAt(o)
    BY <1>1 DEF CachedAt
  <2>. QED
    BY <1>3, <2>1, HeldIsLive
<1>5. PICK c : c = [IdleCheck EXCEPT !.stage = "queued", !.dir = o, !.seen = dir[o].version]
  OBVIOUS
<1>6. c.dir = o /\ c.stage = "queued"
  BY <1>5 DEF IdleCheck
<1>7. /\ check' = [check EXCEPT ![k] = c] /\ check[k].stage = "idle"
      /\ checking' = checking \cup {k}
  BY <1>1, <1>5 DEF AsyncDirCheck
<1>8. check[k].dir \notin Dirs
  BY <1>7, DirsAssumption DEF RInv, OtherTypes
<1>9. Moved(o, 0, 0, 0, 0, 0, 0, 1)
  <2>1. One(c.dir = o) = 1
    BY <1>6 DEF One
  <2>2. Moves(CheckedBy(o), CheckedBy(o)', One(c.dir = o))
    BY <1>2, <1>7, <1>8, CheckBegins
  <2>. QED
    BY <2>1, <2>2, Stays DEF Moved
<1>10. ASSUME NEW q \in Dirs \ {o} PROVE Unmoved(q)
  <2>1. One(c.dir = q) = 0
    BY <1>6 DEF One
  <2>. QED
    BY <1>2, <1>7, <1>8, <2>1, CheckBegins, Stays DEF Unmoved, Moved
<1>11. Changes(dir'[o], dir[o], 1) /\ \A q \in Dirs \ {o} : dir'[q] = dir[q]
  BY <1>1, <1>2, IncRefChanges DEF AsyncDirCheck
<1>12. \A q \in Dirs : dir'[q].refs \in Nat /\ Counted(q)' /\ dir'[q].path = dir[q].path
  BY <1>3, <1>4, <1>9, <1>10, <1>11, OneDirIsCounted
<1>13. OtherTypes'
  BY <1>2, <1>6, <1>7 DEF RInv, OtherTypes
<1>. QED
  BY <1>2, <1>12, <1>13, KeepsCache

LEMMA FromPathCachedCounted ==
  ASSUME IInv, RInv, NEW p \in Paths, NEW b \in BOOLEAN, FromPathCached(p, b)
  PROVE  RInv'
<1>1. /\ main = "loop" /\ cache[p] # None /\ cache' = cache /\ lua' = lua
      /\ queue' = queue /\ main' = main /\ event' = event /\ ops' \in Nat
  BY DEF FromPathCached, Op, RInv, OtherTypes
<1>2. CASE StartLoad(cache[p], FALSE) /\ UNCHANGED <<check, checking>>
  BY <1>1, <1>2, StartLoadCounted DEF RInv, OtherTypes
<1>3. CASE \E k \in Checks : AsyncDirCheck(k, cache[p]) /\ UNCHANGED loads
  BY <1>1, <1>3, AsyncDirCheckCounted
<1>. QED
  BY <1>2, <1>3 DEF FromPathCached

LEMMA TimerCounted ==
  ASSUME IInv, RInv, NEW o \in Dirs, TimerFires(o) PROVE RInv'
<1>1. /\ main = "loop" /\ cache' = cache /\ lua' = lua
      /\ queue' = queue /\ check' = check /\ checking' = checking
      /\ event' = event /\ ops' = ops
  BY DEF TimerFires
<1>2. dir[o] \in DirShape /\ dir \in [Dirs -> DirShape]
  BY DEF IInv, Shape
<1>3. CASE o \in Live
  <2>1. PICK d : d = [dir[o] EXCEPT !.is_scheduled = FALSE]
    OBVIOUS
  <2>2. /\ d \in DirShape /\ d.refs = dir[o].refs /\ d.alloc = dir[o].alloc
        /\ d.path = dir[o].path /\ d.status = dir[o].status
    BY <1>2, <2>1 DEF DirShape
  <2>3. PICK b \in BOOLEAN : b = WithFileinfo(dir[o])
    BY DEF WithFileinfo
  <2>4. WithFileinfo(d) = b
    BY <2>2, <2>3 DEF WithFileinfo
  <2>5. PICK l : l = LoadWork(o, dir[o], b)
    OBVIOUS
  <2>6. l.dir = o /\ l.load_fileinfo = b /\ AtStart(l) /\ l \notin loads
    BY <1>2, <2>5, LoadWorkStarts, WorkIsNew
  <2>7. /\ loads' = loads \cup {l} /\ main' = main
        /\ dir'[o] = Load(d) /\ \A q \in Dirs \ {o} : dir'[q] = dir[q]
    BY <1>2, <1>3, <2>1, <2>3, <2>5 DEF TimerFires
  <2>8. Changes(dir'[o], dir[o], LoadRefs(b))
    BY <2>2, <2>4, <2>7, LoadChanges DEF Changes
  <2>9. dir[o].refs > 0
    BY <1>1, <1>3 DEF Live, RInv, Counted
  <2>10. OtherTypes'
    BY <1>1, <2>7 DEF RInv, OtherTypes
  <2>. QED
    BY <1>1, <2>6, <2>7, <2>8, <2>9, <2>10, BeginsCounted
<1>4. CASE o \notin Live
  <2>1. main' = "undefined" /\ dir' = dir
    BY <1>4 DEF TimerFires
  <2>. QED
    BY <1>1, <2>1 DEF RInv, OtherTypes
<1>. QED
  BY <1>3, <1>4
-----------------------------------------------------------------------------
(* Steps that move no holder *)

LEMMA NoneCounted ==
  ASSUME IInv, RInv, cache' = cache, OtherTypes',
         main' # "undefined" => main # "undefined",
         \A q \in Dirs : /\ dir'[q].refs = dir[q].refs /\ dir'[q].alloc = dir[q].alloc
                         /\ dir'[q].path = dir[q].path,
         main # "undefined" => \A q \in Dirs : Unmoved(q)
  PROVE  RInv'
<1>1. \A q \in Dirs : dir[q].refs \in Nat /\ dir'[q].refs \in Nat
  BY DEF RInv
<1>2. ASSUME main # "undefined" PROVE \A q \in Dirs : Counted(q)'
  BY <1>1, <1>2, UnmovedIsCounted DEF RInv
<1>3. cache \in [Paths -> Dirs \cup {None}]
  BY DEF IInv, Shape
<1>. QED
  BY <1>1, <1>2, <1>3, KeepsCache

LEMMA InotifyCounted ==
  ASSUME IInv, RInv, NEW p \in Paths, InotifyEvent(p) PROVE RInv'
<1>1. /\ main = "loop" /\ main' = main /\ cache' = cache /\ lua' = lua
      /\ loads' = loads /\ queue' = queue /\ check' = check /\ OtherTypes'
  BY DEF InotifyEvent, RInv, OtherTypes
<1>2. ASSUME NEW q \in Dirs
      PROVE  /\ dir'[q].refs = dir[q].refs /\ dir'[q].alloc = dir[q].alloc
             /\ dir'[q].path = dir[q].path
  <2>1. dir[q] \in DirShape /\ dir \in [Dirs -> DirShape]
    BY DEF IInv, Shape
  <2>2. dir'[q] = dir[q] \/ dir'[q] = LoaderDirReload(dir[q])
    BY <2>1 DEF InotifyEvent
  <2>. QED
    BY <2>1, <2>2, ReloadChanges
<1>3. \A q \in Dirs : Unmoved(q)
  BY <1>1, Stays DEF Unmoved, Moved
<1>. QED
  BY <1>1, <1>2, <1>3, NoneCounted

LEMMA DiskCounted ==
  ASSUME IInv, RInv, NEW p \in Paths, DiskChanges(p) PROVE RInv'
<1>1. /\ main' = main /\ cache' = cache /\ lua' = lua /\ dir' = dir
      /\ loads' = loads /\ queue' = queue /\ check' = check /\ OtherTypes'
  BY DEF DiskChanges, RInv, OtherTypes
<1>2. \A q \in Dirs : Unmoved(q)
  BY <1>1, Stays DEF Unmoved, Moved
<1>. QED
  BY <1>1, <1>2, NoneCounted

LEMMA SettledCounted ==
  ASSUME IInv, RInv, UNCHANGED vars PROVE RInv'
<1>1. /\ main' = main /\ cache' = cache /\ lua' = lua /\ dir' = dir
      /\ loads' = loads /\ queue' = queue /\ check' = check /\ OtherTypes'
  BY DEF vars, RInv, OtherTypes
<1>2. \A q \in Dirs : Unmoved(q)
  BY <1>1, Stays DEF Unmoved, Moved
<1>. QED
  BY <1>1, <1>2, NoneCounted

-----------------------------------------------------------------------------
(* Steps that take a result from the queue *)

\* The result r of Dir o is taken; c3, c5 and c7 say what it does to the loads and
\* the checks of o, and n what to the count.
LEMMA TakenCounted ==
  ASSUME IInv, RInv, main # "undefined", queue # <<>>, queue' = Tail(queue),
         NEW o \in Dirs, \A q \in Dirs \ {o} : dir'[q] = dir[q],
         NEW r, r = Head(queue), r.kind # "check" => r.dir = o,
         NEW c3 \in Int, NEW c5 \in Int, NEW c7 \in Int,
         Moves(Starting(o), Starting(o)', c3), Moves(Delayed(o), Delayed(o)', c5),
         Moves(CheckedBy(o), CheckedBy(o)', c7),
         NEW n, n = c3 + c5 + c7 - One(IsUpdate(r, o)) - One(IsLastBatch(r, o)),
         Changes(dir'[o], dir[o], n), dir[o].refs > 0,
         \A q \in Dirs \ {o} : /\ Moves(Starting(q), Starting(q)', 0)
                               /\ Moves(Delayed(q), Delayed(q)', 0)
                               /\ Moves(CheckedBy(q), CheckedBy(q)', 0),
         cache' = cache, lua' = lua, main' = main, OtherTypes'
  PROVE  RInv'
<1>1. queue \in Seq(Result) /\ cache \in [Paths -> Dirs \cup {None}]
  BY DEF IInv, Shape
<1>2. \A q \in Dirs : dir[q].refs \in Nat /\ Counted(q)
  BY DEF RInv
<1>3. PICK c4 \in Int : c4 = 0 - One(IsUpdate(r, o))
  BY DEF One
<1>4. PICK c6 \in Int : c6 = 0 - One(IsLastBatch(r, o))
  BY DEF One
<1>5. Moved(o, 0, 0, c3, c4, c5, c6, c7)
  BY <1>1, <1>3, <1>4, ResultTaken, Stays DEF Moved
<1>6. ASSUME NEW q \in Dirs \ {o} PROVE Unmoved(q)
  <2>1. One(IsUpdate(r, q)) = 0 /\ One(IsLastBatch(r, q)) = 0
    BY <1>6 DEF One, IsUpdate, IsLastBatch
  <2>2. Moves(Updating(q), Updating(q)', 0) /\ Moves(Finishing(q), Finishing(q)', 0)
    BY <1>1, <2>1, ResultTaken
  <2>. QED
    BY <1>6, <2>2, Stays DEF Unmoved, Moved
<1>7. n = 0 + 0 + c3 + c4 + c5 + c6 + c7
  BY <1>3, <1>4 DEF One
<1>8. \A q \in Dirs : dir'[q].refs \in Nat /\ Counted(q)' /\ dir'[q].path = dir[q].path
  BY <1>2, <1>5, <1>6, <1>7, OneDirIsCounted
<1>. QED
  BY <1>1, <1>8, KeepsCache

\* The Dir of a result in the queue that counts is alive.
LEMMA QueuedIsLive ==
  ASSUME IInv, RInv, main # "undefined", queue # <<>>, NEW o \in Dirs,
         IsUpdate(Head(queue), o) \/ IsLastBatch(Head(queue), o)
  PROVE  dir[o].refs > 0
<1>1. 1 \in DOMAIN queue /\ Head(queue) = queue[1]
  BY DEF IInv, Shape
<1>2. 1 \in Updating(o) \/ 1 \in Finishing(o)
  BY <1>1 DEF Updating, Finishing, IsUpdate, IsLastBatch
<1>. QED
  BY <1>2, HeldIsLive DEF RInv

LEMMA HandleFileinfoCounted ==
  ASSUME IInv, RInv, HandleFileinfo PROVE RInv'
<1>. PICK r : r = Head(queue)
  OBVIOUS
<1>1. /\ main = "loop" /\ queue # <<>> /\ queue' = Tail(queue) /\ r.kind = "fileinfo"
      /\ cache' = cache /\ lua' = lua /\ loads' = loads /\ check' = check /\ main' = main
      /\ OtherTypes'
  BY DEF HandleFileinfo, Dispatch, FileinfoCallback, RInv, OtherTypes
<1>2. /\ queue \in Seq(Result) /\ r \in Result
      /\ dir \in [Dirs -> DirShape]
  BY <1>1, TailFacts DEF IInv, Shape
<1>3. PICK o \in Dirs : o = r.dir
  BY <1>1, <1>2, ResultTypes
<1>4. r.is_last_batch \in BOOLEAN /\ r.files \in Nat /\ dir[o] \in DirShape
  BY <1>1, <1>2, ResultTypes
<1>5. PICK u : u = IF dir[o].cookie = r.cookie THEN [dir[o] EXCEPT !.fileinfo = r.files]
                                               ELSE dir[o]
  OBVIOUS
<1>6. /\ u \in DirShape /\ u.refs = dir[o].refs /\ u.alloc = dir[o].alloc
      /\ u.path = dir[o].path
  BY <1>4, <1>5 DEF DirShape
<1>7. /\ dir'[o] = IF r.is_last_batch THEN DecRef(u, 1) ELSE u
      /\ \A q \in Dirs \ {o} : dir'[q] = dir[q]
  BY <1>2, <1>3, <1>5 DEF HandleFileinfo, FileinfoCallback
<1>8. CASE r.is_last_batch
  <2>1. Changes(dir'[o], dir[o], -1)
    BY <1>6, <1>7, <1>8, DecRefChanges DEF Changes
  <2>2. One(IsUpdate(r, o)) = 0 /\ One(IsLastBatch(r, o)) = 1 /\ IsLastBatch(r, o)
    BY <1>1, <1>3, <1>8 DEF One, IsUpdate, IsLastBatch
  <2>3. -1 = 0 + 0 + 0 - One(IsUpdate(r, o)) - One(IsLastBatch(r, o))
    BY <2>2
  <2>4. dir[o].refs > 0
    BY <1>1, <2>2, QueuedIsLive
  <2>. QED
    BY <1>1, <1>3, <1>7, <2>1, <2>3, <2>4, Stays, TakenCounted
<1>9. CASE ~r.is_last_batch
  <2>1. ASSUME NEW q \in Dirs PROVE Unmoved(q)
    <3>1. One(IsUpdate(r, q)) = 0 /\ One(IsLastBatch(r, q)) = 0
      BY <1>1, <1>9 DEF One, IsUpdate, IsLastBatch
    <3>2. Moves(Updating(q), Updating(q)', 0) /\ Moves(Finishing(q), Finishing(q)', 0)
      BY <1>1, <1>2, <3>1, ResultTaken
    <3>. QED
      BY <1>1, <3>2, Stays DEF Unmoved, Moved
  <2>. QED
    BY <1>1, <1>6, <1>7, <1>9, <2>1, NoneCounted
<1>. QED
  BY <1>4, <1>8, <1>9
LEMMA HandleUpdateCounted ==
  ASSUME IInv, RInv, HandleUpdate PROVE RInv'
<1>. PICK r : r = Head(queue)
  OBVIOUS
<1>1. /\ main = "loop" /\ queue # <<>> /\ queue' = Tail(queue) /\ r.kind = "update"
      /\ cache' = cache /\ lua' = lua /\ check' = check /\ main' = main
      /\ UpdateCallback(r) /\ OtherTypes'
  BY DEF HandleUpdate, Dispatch, RInv, OtherTypes
<1>2. /\ queue \in Seq(Result) /\ r \in Result
      /\ dir \in [Dirs -> DirShape]
  BY <1>1, TailFacts DEF IInv, Shape
<1>3. PICK o \in Dirs : o = r.dir
  BY <1>1, <1>2, ResultTypes
<1>4. One(IsUpdate(r, o)) = 1 /\ One(IsLastBatch(r, o)) = 0 /\ IsUpdate(r, o)
  BY <1>1, <1>3 DEF One, IsUpdate, IsLastBatch
<1>5. dir[o].refs > 0
  BY <1>1, <1>4, QueuedIsLive
<1>6. PICK d : d = [dir[o] EXCEPT !.in_progress = FALSE]
  OBVIOUS
<1>7. /\ d \in DirShape /\ d.refs = dir[o].refs /\ d.alloc = dir[o].alloc
      /\ d.path = dir[o].path /\ d.cookie = dir[o].cookie /\ dir[o] \in DirShape
  BY <1>2, <1>6 DEF DirShape
<1>8. ASSUME NEW m \in DirShape, NEW n \in Int, Changes(m, dir[o], n),
             m.alloc = dir[o].alloc, n >= 0
      PROVE  Changes(DecRef(UpdateWith(m, r), 1), dir[o], n - 1)
  <2>. PICK e : e = UpdateWith(m, r)
    OBVIOUS
  <2>1. /\ e \in DirShape /\ e.refs = m.refs /\ e.alloc = m.alloc /\ e.path = m.path
    BY <1>1, <1>2, UpdateWithFields, UpdateWithChanges
  <2>2. Changes(DecRef(e, 1), e, -1)
    BY <2>1, DecRefChanges
  <2>3. dir[o].refs \in Int /\ m.refs \in Int
    BY <1>7 DEF DirShape
  <2>. QED
    BY <1>8, <2>1, <2>2, <2>3 DEF Changes
<1>9. CASE dir' = [dir EXCEPT ![o] = DecRef(dir[o], 1)] /\ loads' = loads
  <2>1. dir'[o] = DecRef(dir[o], 1) /\ \A q \in Dirs \ {o} : dir'[q] = dir[q]
    BY <1>2, <1>9
  <2>2. Changes(dir'[o], dir[o], -1)
    BY <1>7, <2>1, DecRefChanges
  <2>3. -1 = 0 + 0 + 0 - One(IsUpdate(r, o)) - One(IsLastBatch(r, o))
    BY <1>4
  <2>. QED
    BY <1>1, <1>3, <1>5, <1>9, <2>1, <2>2, <2>3, Stays, TakenCounted
<1>10. CASE dir' = [dir EXCEPT ![o] = DecRef(UpdateWith(d, r), 1)] /\ loads' = loads
  <2>1. /\ dir'[o] = DecRef(UpdateWith(d, r), 1)
        /\ \A q \in Dirs \ {o} : dir'[q] = dir[q]
    BY <1>2, <1>10
  <2>2. Changes(d, dir[o], 0)
    BY <1>7, ChangesNot
  <2>3. Changes(dir'[o], dir[o], -1)
    BY <1>7, <1>8, <2>1, <2>2
  <2>4. -1 = 0 + 0 + 0 - One(IsUpdate(r, o)) - One(IsLastBatch(r, o))
    BY <1>4
  <2>. QED
    BY <1>1, <1>3, <1>5, <1>10, <2>1, <2>3, <2>4, Stays, TakenCounted
<1>11. CASE /\ dir' = [dir EXCEPT ![o] = DecRef(UpdateWith(Load(d), r), 1)]
            /\ loads' = loads \cup {LoadWork(o, d, WithFileinfo(d))}
  <2>1. /\ dir'[o] = DecRef(UpdateWith(Load(d), r), 1)
        /\ \A q \in Dirs \ {o} : dir'[q] = dir[q]
    BY <1>2, <1>11
  <2>2. PICK b \in BOOLEAN : b = WithFileinfo(d)
    BY DEF WithFileinfo
  <2>3. PICK l : l = LoadWork(o, d, b)
    OBVIOUS
  <2>4. l.dir = o /\ l.load_fileinfo = b /\ AtStart(l) /\ l \notin loads
    BY <1>7, <2>3, LoadWorkStarts, WorkIsNew
  <2>5. loads' = loads \cup {l}
    BY <1>11, <2>2, <2>3
  <2>6. LoadRefs(b) \in Int /\ LoadRefs(b) >= 0
    BY DEF LoadRefs
  <2>7. Changes(Load(d), dir[o], LoadRefs(b)) /\ Load(d) \in DirShape
        /\ Load(d).alloc = dir[o].alloc
    BY <1>7, <2>2, LoadChanges, LoadFields DEF Changes, Begun
  <2>8. Changes(dir'[o], dir[o], LoadRefs(b) - 1)
    BY <1>8, <2>1, <2>6, <2>7
  <2>9. /\ Moves(Starting(o), Starting(o)', 1) /\ Moves(Delayed(o), Delayed(o)', One(~b))
        /\ One(~b) \in Int
    <3>1. One(l.dir = o /\ AtStart(l)) = 1 /\ One(l.dir = o /\ ~l.load_fileinfo) = One(~b)
      BY <2>4 DEF One
    <3>2. /\ Moves(Starting(o), Starting(o)', One(l.dir = o /\ AtStart(l)))
          /\ Moves(Delayed(o), Delayed(o)', One(l.dir = o /\ ~l.load_fileinfo))
      BY <2>4, <2>5, LoadBegins
    <3>. QED
      BY <3>1, <3>2 DEF One
  <2>10. \A q \in Dirs \ {o} : /\ Moves(Starting(q), Starting(q)', 0)
                               /\ Moves(Delayed(q), Delayed(q)', 0)
    <3>1. SUFFICES ASSUME NEW q \in Dirs \ {o}
                   PROVE  /\ Moves(Starting(q), Starting(q)', 0)
                          /\ Moves(Delayed(q), Delayed(q)', 0)
      OBVIOUS
    <3>2. One(l.dir = q /\ AtStart(l)) = 0 /\ One(l.dir = q /\ ~l.load_fileinfo) = 0
      BY <2>4 DEF One
    <3>. QED
      BY <2>4, <2>5, <3>2, LoadBegins
  <2>11. LoadRefs(b) - 1 = 1 + One(~b) + 0 - One(IsUpdate(r, o)) - One(IsLastBatch(r, o))
    BY <1>4 DEF LoadRefs, One
  <2>. QED
    BY <1>1, <1>3, <1>5, <2>1, <2>8, <2>9, <2>10, <2>11, Stays, TakenCounted
<1>12. CASE /\ dir' = [dir EXCEPT ![o] = DecRef(UpdateWith(Schedule(d), r), 1)]
            /\ loads' = loads
  <2>1. /\ dir'[o] = DecRef(UpdateWith(Schedule(d), r), 1)
        /\ \A q \in Dirs \ {o} : dir'[q] = dir[q]
    BY <1>2, <1>12
  <2>2. /\ Schedule(d) \in DirShape /\ Schedule(d).refs = d.refs
        /\ Schedule(d).alloc = d.alloc /\ Schedule(d).path = d.path
    BY <1>7 DEF Schedule, DirShape
  <2>3. Changes(Schedule(d), dir[o], 0)
    BY <1>7, <2>2, ChangesNot
  <2>4. Changes(dir'[o], dir[o], -1)
    BY <1>7, <1>8, <2>1, <2>2, <2>3
  <2>5. -1 = 0 + 0 + 0 - One(IsUpdate(r, o)) - One(IsLastBatch(r, o))
    BY <1>4
  <2>. QED
    BY <1>1, <1>3, <1>5, <1>12, <2>1, <2>4, <2>5, Stays, TakenCounted
<1>. QED
  BY <1>1, <1>3, <1>6, <1>9, <1>10, <1>11, <1>12 DEF UpdateCallback

\* The check of a queued result has a Dir, and that is alive.
LEMMA CheckOfResult ==
  ASSUME IInv, RInv, main # "undefined", queue # <<>>, Head(queue).kind = "check",
         NEW k, k = Head(queue).check
  PROVE  k \in Checks /\ check[k].dir \in Dirs /\ dir[check[k].dir].refs > 0
<1>1. /\ 1 \in 1 .. Len(queue) /\ Head(queue) = queue[1] /\ Head(queue) \in Result
  BY DEF IInv, Shape
<1>2. k \in Checks /\ check[k].stage = "done"
  BY <1>1, ResultTypes DEF IInv, ChecksOnce
<1>3. check[k].dir \in Dirs
  BY <1>2 DEF IInv, Known, Used
<1>4. k \in CheckedBy(check[k].dir)
  BY <1>2 DEF CheckedBy
<1>. QED
  BY <1>2, <1>3, <1>4, HeldIsLive DEF RInv

LEMMA HandleCheckCounted ==
  ASSUME IInv, RInv, HandleCheck PROVE RInv'
<1>. PICK r : r = Head(queue)
  OBVIOUS
<1>. PICK k : k = r.check
  OBVIOUS
<1>1. /\ main = "loop" /\ queue # <<>> /\ queue' = Tail(queue) /\ r.kind = "check"
      /\ cache' = cache /\ lua' = lua /\ loads' = loads /\ main' = main
      /\ check' = [check EXCEPT ![k] = IdleCheck] /\ checking' = checking \ {k}
      /\ event' = event /\ ops' = ops
  BY DEF HandleCheck, Dispatch, CheckCallback
<1>2. /\ dir \in [Dirs -> DirShape] /\ check \in [Checks -> CheckRec]
  BY DEF IInv, Shape
<1>3. k \in Checks /\ check[k].dir \in Dirs /\ dir[check[k].dir].refs > 0
  BY <1>1, CheckOfResult
<1>4. PICK o \in Dirs : o = check[k].dir
  BY <1>3
<1>5. PICK d : d = IF check[k].reload /\ ~check[k].cancelled THEN LoaderDirReload(dir[o])
                                                              ELSE dir[o]
  OBVIOUS
<1>6. /\ d \in DirShape /\ d.refs = dir[o].refs /\ d.alloc = dir[o].alloc
      /\ d.path = dir[o].path
  BY <1>2, <1>5, ReloadChanges, ReloadFields
<1>7. dir'[o] = DecRef(d, 1) /\ \A q \in Dirs \ {o} : dir'[q] = dir[q]
  BY <1>2, <1>4, <1>5 DEF HandleCheck, CheckCallback
<1>8. Changes(dir'[o], dir[o], -1)
  BY <1>6, <1>7, DecRefChanges DEF Changes
<1>9. -1 = 0 + 0 + -1 - One(IsUpdate(r, o)) - One(IsLastBatch(r, o))
  BY <1>1 DEF One, IsUpdate, IsLastBatch
<1>10. Moves(CheckedBy(o), CheckedBy(o)', -1)
  <2>1. One(check[k].dir = o) = 1
    BY <1>4 DEF One
  <2>2. Moves(CheckedBy(o), CheckedBy(o)', 0 - One(check[k].dir = o))
    BY <1>1, <1>2, <1>3, CheckEnds
  <2>. QED
    BY <2>1, <2>2
<1>11. ASSUME NEW q \in Dirs \ {o} PROVE Moves(CheckedBy(q), CheckedBy(q)', 0)
  <2>1. One(check[k].dir = q) = 0
    BY <1>4 DEF One
  <2>2. Moves(CheckedBy(q), CheckedBy(q)', 0 - One(check[k].dir = q))
    BY <1>1, <1>2, <1>3, CheckEnds
  <2>. QED
    BY <2>1, <2>2
<1>12. OtherTypes'
  <2>1. \A c \in Checks : check'[c].stage = "idle" => check'[c].dir = None
    BY <1>1, <1>2 DEF RInv, OtherTypes, IdleCheck
  <2>. QED
    BY <1>1, <2>1 DEF RInv, OtherTypes
<1>. QED
  BY <1>1, <1>3, <1>4, <1>7, <1>8, <1>9, <1>10, <1>11, <1>12, Stays, TakenCounted
LEMMA DrainCounted ==
  ASSUME IInv, RInv, DrainResult PROVE RInv'
<1>. PICK r : r = Head(queue)
  OBVIOUS
<1>1. /\ main = "torn" /\ queue # <<>> /\ queue' = Tail(queue)
      /\ cache' = cache /\ lua' = lua /\ loads' = loads /\ main' = main
      /\ checking' = checking /\ event' = event /\ ops' = ops
  BY DEF DrainResult
<1>2. /\ dir \in [Dirs -> DirShape] /\ check \in [Checks -> CheckRec]
      /\ queue \in Seq(Result) /\ r \in Result
  BY <1>1, TailFacts DEF IInv, Shape
<1>3. CASE r.kind = "check"
  <2>1. PICK k \in Checks : k = r.check
    BY <1>2, <1>3, ResultTypes
  <2>2. check[k].dir \in Dirs /\ dir[check[k].dir].refs > 0
    BY <1>1, <1>3, <2>1, CheckOfResult
  <2>3. PICK o \in Dirs : o = check[k].dir
    BY <2>2
  <2>4. /\ check' = [check EXCEPT ![k] = IdleCheck]
        /\ dir'[o] = DecRef(dir[o], 1) /\ \A q \in Dirs \ {o} : dir'[q] = dir[q]
    BY <1>2, <1>3, <2>1, <2>3 DEF DrainResult
  <2>5. Changes(dir'[o], dir[o], -1)
    BY <1>2, <2>4, DecRefChanges
  <2>6. -1 = 0 + 0 + -1 - One(IsUpdate(r, o)) - One(IsLastBatch(r, o))
    BY <1>3 DEF One, IsUpdate, IsLastBatch
  <2>7. Moves(CheckedBy(o), CheckedBy(o)', -1)
    <3>1. One(check[k].dir = o) = 1
      BY <2>3 DEF One
    <3>2. Moves(CheckedBy(o), CheckedBy(o)', 0 - One(check[k].dir = o))
      BY <1>2, <2>4, CheckEnds
    <3>. QED
      BY <3>1, <3>2
  <2>8. ASSUME NEW q \in Dirs \ {o} PROVE Moves(CheckedBy(q), CheckedBy(q)', 0)
    <3>1. One(check[k].dir = q) = 0
      BY <2>3 DEF One
    <3>2. Moves(CheckedBy(q), CheckedBy(q)', 0 - One(check[k].dir = q))
      BY <1>2, <2>4, CheckEnds
    <3>. QED
      BY <3>1, <3>2
  <2>9. OtherTypes'
    <3>1. \A c \in Checks : check'[c].stage = "idle" => check'[c].dir = None
      BY <1>2, <2>4 DEF RInv, OtherTypes, IdleCheck
    <3>. QED
      BY <1>1, <3>1 DEF RInv, OtherTypes
  <2>. QED
    BY <1>1, <1>3, <2>2, <2>3, <2>4, <2>5, <2>6, <2>7, <2>8, <2>9, Stays, TakenCounted
<1>4. CASE r.kind # "check"
  <2>1. PICK o \in Dirs : o = r.dir
    BY <1>2, <1>4, ResultTypes
  <2>2. check' = check /\ OtherTypes'
    BY <1>1, <1>4 DEF DrainResult, RInv, OtherTypes
  <2>3. CASE r.kind = "fileinfo" /\ ~r.is_last_batch
    <3>1. dir' = dir
      BY <1>4, <2>3 DEF DrainResult
    <3>2. ASSUME NEW q \in Dirs PROVE Unmoved(q)
      <4>1. One(IsUpdate(r, q)) = 0 /\ One(IsLastBatch(r, q)) = 0
        BY <2>3 DEF One, IsUpdate, IsLastBatch
      <4>2. Moves(Updating(q), Updating(q)', 0) /\ Moves(Finishing(q), Finishing(q)', 0)
        BY <1>1, <1>2, <4>1, ResultTaken
      <4>. QED
        BY <1>1, <2>2, <4>2, Stays DEF Unmoved, Moved
    <3>. QED
      BY <1>1, <2>2, <3>1, <3>2, NoneCounted
  <2>4. CASE r.kind = "fileinfo" => r.is_last_batch
    <3>1. /\ dir'[o] = DecRef(dir[o], 1) /\ \A q \in Dirs \ {o} : dir'[q] = dir[q]
      BY <1>2, <1>4, <2>1, <2>4 DEF DrainResult
    <3>2. Changes(dir'[o], dir[o], -1)
      BY <1>2, <3>1, DecRefChanges
    <3>3. -1 = 0 + 0 + 0 - One(IsUpdate(r, o)) - One(IsLastBatch(r, o))
      BY <1>2, <1>4, <2>1, <2>4, ResultTypes DEF One, IsUpdate, IsLastBatch
    <3>4. dir[o].refs > 0
      <4>1. IsUpdate(r, o) \/ IsLastBatch(r, o)
        BY <1>2, <1>4, <2>1, <2>4, ResultTypes DEF IsUpdate, IsLastBatch
      <4>. QED
        BY <1>1, <4>1, QueuedIsLive
    <3>. QED
      BY <1>1, <2>1, <2>2, <3>1, <3>2, <3>3, <3>4, Stays, TakenCounted
  <2>. QED
    BY <2>3, <2>4
<1>. QED
  BY <1>3, <1>4

-----------------------------------------------------------------------------
(* Steps of the workers *)

\* A worker's step: what it does to the loads and the queue for each Dir is what
\* it does to the counts.
LEMMA WorkedCounted ==
  ASSUME IInv, RInv, main \in {"loop", "deinit"}, NEW o \in Dirs,
         \A q \in Dirs \ {o} : dir'[q] = dir[q],
         NEW c3 \in Int, NEW c4 \in Int, NEW c5 \in Int, NEW c6 \in Int,
         Moves(Starting(o), Starting(o)', c3), Moves(Updating(o), Updating(o)', c4),
         Moves(Delayed(o), Delayed(o)', c5), Moves(Finishing(o), Finishing(o)', c6),
         Changes(dir'[o], dir[o], c3 + c4 + c5 + c6), dir[o].refs > 0,
         \A q \in Dirs \ {o} : /\ Moves(Starting(q), Starting(q)', 0)
                               /\ Moves(Updating(q), Updating(q)', 0)
                               /\ Moves(Delayed(q), Delayed(q)', 0)
                               /\ Moves(Finishing(q), Finishing(q)', 0),
         WorkersOnly, check' = check, main' = main
  PROVE  RInv'
<1>1. cache' = cache /\ lua' = lua /\ OtherTypes'
  BY DEF WorkersOnly, RInv, OtherTypes
<1>2. \A q \in Dirs : dir[q].refs \in Nat /\ Counted(q)
  BY DEF RInv
<1>3. Moved(o, 0, 0, c3, c4, c5, c6, 0)
  BY <1>1, Stays DEF Moved
<1>4. \A q \in Dirs \ {o} : Unmoved(q)
  BY <1>1, Stays DEF Unmoved, Moved
<1>5. PICK n \in Int : n = c3 + c4 + c5 + c6
  OBVIOUS
<1>6. n = 0 + 0 + c3 + c4 + c5 + c6 + 0 /\ Changes(dir'[o], dir[o], n)
  BY <1>5
<1>7. \A q \in Dirs : dir'[q].refs \in Nat /\ Counted(q)' /\ dir'[q].path = dir[q].path
  BY <1>2, <1>3, <1>4, <1>6, OneDirIsCounted
<1>8. cache \in [Paths -> Dirs \cup {None}]
  BY DEF IInv, Shape
<1>. QED
  BY <1>1, <1>7, <1>8, KeepsCache

\* A load that is counted has a live Dir.
LEMMA LoadIsLive ==
  ASSUME IInv, RInv, main # "undefined", NEW l \in loads, AtStart(l) \/ ~l.load_fileinfo
  PROVE  l.dir \in Dirs /\ dir[l.dir].refs > 0
<1>1. l.dir \in Dirs
  BY LoadTypes DEF IInv, Shape
<1>2. l \in Starting(l.dir) \/ l \in Delayed(l.dir)
  BY DEF Starting, Delayed, AtStart
<1>. QED
  BY <1>1, <1>2, HeldIsLive DEF RInv

\* A load goes on to stage m and leaves the counts alone.
LEMMA OnlyMovesOnCounted ==
  ASSUME IInv, RInv, NEW l \in loads, NEW m, loads' = (loads \ {l}) \cup {m},
         m.dir = l.dir, m.cookie = l.cookie, m.load_fileinfo = l.load_fileinfo,
         AtStart(m) <=> AtStart(l), dir' = dir,
         \A q \in Dirs : /\ Moves(Updating(q), Updating(q)', 0)
                         /\ Moves(Finishing(q), Finishing(q)', 0),
         WorkersOnly, check' = check, main' = main
  PROVE  RInv'
<1>1. cache' = cache /\ lua' = lua /\ OtherTypes' /\ main # "undefined"
  BY DEF WorkersOnly, RInv, OtherTypes
<1>2. ASSUME NEW q \in Dirs PROVE Unmoved(q)
  <2>1. One(l.dir = q /\ AtStart(l) /\ ~AtStart(m)) = 0
    BY DEF One
  <2>2. Moves(Starting(q), Starting(q)', 0) /\ Moves(Delayed(q), Delayed(q)', 0)
    BY <2>1, LoadMovesOn DEF IInv
  <2>. QED
    BY <1>1, <2>2, Stays DEF Unmoved, Moved
<1>. QED
  BY <1>1, <1>2, NoneCounted

LEMMA LoadReadCounted ==
  ASSUME IInv, RInv, NEW l \in loads, LoadRead(l) PROVE RInv'
<1>1. PICK empty \in BOOLEAN :
        loads' = (loads \ {l}) \cup {[l EXCEPT !.stage = "read", !.empty = empty,
                                         !.version = disk[dir[l.dir].path]]}
  BY DEF LoadRead
<1>2. PICK m : m = [l EXCEPT !.stage = "read", !.empty = empty,
                             !.version = disk[dir[l.dir].path]]
  OBVIOUS
<1>3. l \in LoadRec
  BY DEF IInv, Shape
<1>4. /\ m.dir = l.dir /\ m.cookie = l.cookie /\ m.load_fileinfo = l.load_fileinfo
      /\ m.stage = "read" /\ l.stage = "queued"
  BY <1>2, <1>3 DEF LoadRec, LoadRead
<1>5. AtStart(m) <=> AtStart(l)
  BY <1>4 DEF AtStart
<1>6. dir' = dir /\ check' = check /\ queue' = queue /\ main' = main /\ WorkersOnly
  BY DEF LoadRead
<1>. QED
  BY <1>1, <1>2, <1>4, <1>5, <1>6, Stays, OnlyMovesOnCounted
\* The last look of load l at its work struct returns the extra reference of a
\* load that has no fileinfo to bring.
Returned(l) == IF ~l.load_fileinfo /\ l.empty THEN -1 ELSE 0

LEMMA LastLookMoves ==
  ASSUME IInv, NEW l \in loads, NEW s \in LoadRec, s.dir = l.dir, s.cookie = l.cookie,
         s.load_fileinfo = l.load_fileinfo, NEW c, LastLook(l, s, c), NEW o, o = l.dir
  PROVE  /\ Moves(Starting(o), Starting(o)', 0 - One(AtStart(l)))
         /\ Moves(Delayed(o), Delayed(o)', Returned(s))
         /\ Changes(dir'[o], dir[o], Returned(s))
         /\ \A q \in Dirs \ {o} : /\ dir'[q] = dir[q]
                                 /\ Moves(Starting(q), Starting(q)', 0)
                                 /\ Moves(Delayed(q), Delayed(q)', 0)
<1>1. /\ dir \in [Dirs -> DirShape] /\ o \in Dirs /\ l.load_fileinfo \in BOOLEAN
      /\ s.empty \in BOOLEAN
  BY LoadTypes DEF IInv, Shape
<1>2. /\ Changes(dir'[o], dir[o], Returned(s))
      /\ \A q \in Dirs \ {o} : dir'[q] = dir[q]
  <2>1. CASE ~s.load_fileinfo /\ s.empty
    <3>1. dir' = [dir EXCEPT ![o] = DecRef(dir[o], 1)]
      BY <2>1 DEF LastLook
    <3>. QED
      BY <1>1, <2>1, <3>1, DecRefChanges DEF Returned
  <2>2. CASE ~(~s.load_fileinfo /\ s.empty)
    <3>1. dir' = dir
      BY <2>2 DEF LastLook
    <3>. QED
      BY <1>1, <2>2, <3>1, ChangesNot DEF Returned
  <2>. QED
    BY <2>1, <2>2
<1>3. CASE s.load_fileinfo \/ s.empty
  <2>1. loads' = loads \ {l}
    BY <1>3 DEF LastLook
  <2>2. One(l.dir = o /\ AtStart(l)) = One(AtStart(l))
    BY DEF One
  <2>3. 0 - One(l.dir = o /\ ~l.load_fileinfo) = Returned(s)
    BY <1>3 DEF One, Returned
  <2>4. \A q \in Dirs \ {o} : /\ One(l.dir = q /\ AtStart(l)) = 0
                              /\ One(l.dir = q /\ ~l.load_fileinfo) = 0
    BY DEF One
  <2>5. \A q : /\ Moves(Starting(q), Starting(q)', 0 - One(l.dir = q /\ AtStart(l)))
               /\ Moves(Delayed(q), Delayed(q)', 0 - One(l.dir = q /\ ~l.load_fileinfo))
    BY <2>1, LoadEnds
  <2>. QED
    BY <1>2, <2>2, <2>3, <2>4, <2>5
<1>4. CASE ~(s.load_fileinfo \/ s.empty)
  <2>1. PICK m : m = [s EXCEPT !.stage = "info", !.seen = c]
    OBVIOUS
  <2>2. /\ m.dir = l.dir /\ m.cookie = l.cookie /\ m.load_fileinfo = l.load_fileinfo
        /\ m.stage = "info"
    BY <2>1 DEF LoadRec
  <2>3. ~AtStart(m)
    BY <2>2 DEF AtStart
  <2>4. loads' = (loads \ {l}) \cup {m}
    BY <1>4, <2>1 DEF LastLook
  <2>5. \A q : /\ Moves(Starting(q), Starting(q)',
                       0 - One(l.dir = q /\ AtStart(l) /\ ~AtStart(m)))
               /\ Moves(Delayed(q), Delayed(q)', 0)
    BY <2>2, <2>3, <2>4, LoadMovesOn DEF IInv
  <2>6. One(l.dir = o /\ AtStart(l) /\ ~AtStart(m)) = One(AtStart(l))
    BY <2>3 DEF One
  <2>7. \A q \in Dirs \ {o} : One(l.dir = q /\ AtStart(l) /\ ~AtStart(m)) = 0
    BY DEF One
  <2>8. Returned(s) = 0
    BY <1>4 DEF Returned
  <2>. QED
    BY <1>2, <2>5, <2>6, <2>7, <2>8
<1>. QED
  BY <1>3, <1>4

LEMMA LoadSubmitCounted ==
  ASSUME IInv, RInv, NEW l \in loads, LoadSubmit(l) PROVE RInv'
<1>. DEFINE b == l.empty \/ stop
<1>1. PICK r : r = [kind |-> "update", dir |-> l.dir, cookie |-> l.cookie,
                    version |-> l.version, load_fileinfo |-> l.load_fileinfo]
  OBVIOUS
<1>2. PICK s : s = [l EXCEPT !.stage = "submitted", !.empty = b]
  OBVIOUS
<1>3. /\ l.stage = "read" /\ queue' = Append(queue, r) /\ main' = main
      /\ main \in {"loop", "deinit"} /\ WorkersOnly /\ check' = check
      /\ IF Prompt THEN LastLook(l, s, s.cookie)
         ELSE loads' = (loads \ {l}) \cup {s} /\ UNCHANGED dir
  BY <1>1, <1>2 DEF LoadSubmit, WorkersOnly
<1>4. l \in LoadRec /\ b \in BOOLEAN
  BY DEF IInv, Shape, stop
<1>. HIDE DEF b
<1>5. /\ r \in Result /\ r.kind = "update" /\ r.dir = l.dir
  BY <1>1, <1>4, LoadTypes DEF Result
<1>6. /\ s \in LoadRec /\ s.dir = l.dir /\ s.cookie = l.cookie
      /\ s.load_fileinfo = l.load_fileinfo /\ s.stage = "submitted"
  BY <1>2, <1>4 DEF LoadRec
<1>7. PICK o \in Dirs : o = l.dir
  BY <1>4, LoadTypes
<1>8. dir[o].refs > 0 /\ One(AtStart(l)) = 1
  BY <1>3, <1>7, LoadIsLive DEF AtStart, One
<1>9. \A q \in Dirs : /\ Moves(Updating(q), Updating(q)', One(IsUpdate(r, q)))
                      /\ Moves(Finishing(q), Finishing(q)', One(IsLastBatch(r, q)))
  BY <1>3, <1>5, ResultQueued DEF IInv, Shape
<1>10. /\ One(IsUpdate(r, o)) = 1 /\ One(IsLastBatch(r, o)) = 0
       /\ \A q \in Dirs \ {o} : One(IsUpdate(r, q)) = 0 /\ One(IsLastBatch(r, q)) = 0
  BY <1>5, <1>7 DEF One, IsUpdate, IsLastBatch
<1>11. /\ Moves(Updating(o), Updating(o)', 1) /\ Moves(Finishing(o), Finishing(o)', 0)
       /\ \A q \in Dirs \ {o} : /\ Moves(Updating(q), Updating(q)', 0)
                               /\ Moves(Finishing(q), Finishing(q)', 0)
  BY <1>9, <1>10
<1>12. PICK n \in Int : n = IF Prompt THEN Returned(s) ELSE 0
  BY DEF Returned
<1>13. /\ Moves(Starting(o), Starting(o)', -1)
       /\ Moves(Delayed(o), Delayed(o)', n)
       /\ Changes(dir'[o], dir[o], n)
       /\ \A q \in Dirs \ {o} : /\ dir'[q] = dir[q]
                               /\ Moves(Starting(q), Starting(q)', 0)
                               /\ Moves(Delayed(q), Delayed(q)', 0)
  <2>1. CASE Prompt
    <3>1. LastLook(l, s, s.cookie)
      BY <1>3, <2>1
    <3>2. 0 - One(AtStart(l)) = -1 /\ n = Returned(s)
      BY <1>8, <1>12, <2>1
    <3>. QED
      BY <1>6, <1>7, <3>1, <3>2, LastLookMoves
  <2>2. CASE ~Prompt
    <3>1. loads' = (loads \ {l}) \cup {s} /\ dir' = dir /\ n = 0
      BY <1>3, <1>12, <2>2
    <3>2. ~AtStart(s) /\ AtStart(l)
      BY <1>3, <1>6 DEF AtStart
    <3>3. \A q : /\ Moves(Starting(q), Starting(q)',
                         0 - One(l.dir = q /\ AtStart(l) /\ ~AtStart(s)))
                 /\ Moves(Delayed(q), Delayed(q)', 0)
      BY <1>6, <3>1, <3>2, LoadMovesOn DEF IInv
    <3>4. /\ One(l.dir = o /\ AtStart(l) /\ ~AtStart(s)) = 1
          /\ \A q \in Dirs \ {o} : One(l.dir = q /\ AtStart(l) /\ ~AtStart(s)) = 0
      BY <1>3, <1>6, <1>7 DEF One, AtStart
    <3>5. 0 - 1 = -1 /\ 0 - 0 = 0
      OBVIOUS
    <3>6. Moves(Starting(o), Starting(o)', -1)
      BY <3>3, <3>4, <3>5
    <3>7. \A q \in Dirs \ {o} : Moves(Starting(q), Starting(q)', 0)
      BY <3>3, <3>4, <3>5
    <3>8. Changes(dir'[o], dir[o], 0)
      BY <3>1, ChangesNot DEF IInv, Shape
    <3>. QED
      BY <3>1, <3>3, <3>6, <3>7, <3>8
  <2>. QED
    BY <2>1, <2>2
<1>14. n = -1 + 1 + n + 0
  OBVIOUS
<1>15. Changes(dir'[o], dir[o], -1 + 1 + n + 0)
  BY <1>13, <1>14
<1>. QED
  BY <1>3, <1>8, <1>11, <1>13, <1>15, WorkedCounted

LEMMA LoadAfterSubmitCounted ==
  ASSUME IInv, RInv, NEW l \in loads, LoadAfterSubmit(l) PROVE RInv'
<1>1. /\ l.stage = "submitted" /\ queue' = queue /\ check' = check
      /\ WorkersOnly /\ main \in {"loop", "deinit"}
  BY DEF LoadAfterSubmit, WorkersOnly
<1>2. PICK o \in Dirs : o = l.dir
  BY LoadTypes DEF IInv, Shape
<1>3. l \in LoadRec /\ dir \in [Dirs -> DirShape]
  BY DEF IInv, Shape
<1>4. ASSUME NEW c, LastLook(l, l, c), main' = main PROVE RInv'
  <2>0. One(AtStart(l)) = 0
    BY <1>1 DEF AtStart, One
  <2>1. 0 - One(AtStart(l)) = 0
    BY <2>0
  <2>2. PICK n \in Int : n = Returned(l)
    BY DEF Returned
  <2>3. /\ Moves(Starting(o), Starting(o)', 0)
        /\ Moves(Delayed(o), Delayed(o)', n)
        /\ Changes(dir'[o], dir[o], n)
        /\ \A q \in Dirs \ {o} : /\ dir'[q] = dir[q]
                                /\ Moves(Starting(q), Starting(q)', 0)
                                /\ Moves(Delayed(q), Delayed(q)', 0)
    BY <1>2, <1>3, <1>4, <2>1, <2>2, LastLookMoves
  <2>4. CASE l.load_fileinfo
    <3>1. n = 0 /\ dir' = dir
      BY <1>4, <2>2, <2>4 DEF LastLook, Returned
    <3>2. \A q \in Dirs : Unmoved(q)
      BY <1>1, <2>3, <3>1, Stays DEF Unmoved, Moved, WorkersOnly
    <3>3. OtherTypes' /\ main # "undefined" /\ cache' = cache
      BY <1>1, <1>4 DEF WorkersOnly, RInv, OtherTypes
    <3>. QED
      BY <1>1, <1>4, <3>1, <3>2, <3>3, NoneCounted
  <2>5. CASE ~l.load_fileinfo
    <3>1. dir[o].refs > 0
        BY <1>1, <1>2, <2>5, LoadIsLive
    <3>2. n = 0 + 0 + n + 0
      OBVIOUS
    <3>3. Changes(dir'[o], dir[o], 0 + 0 + n + 0)
      BY <2>3, <3>2
    <3>. QED
      BY <1>1, <1>4, <2>3, <3>1, <3>3, Stays, WorkedCounted
  <2>. QED
    BY <2>4, <2>5
<1>5. CASE main' = "undefined" /\ UNCHANGED <<dir, loads>>
  BY <1>1, <1>5 DEF WorkersOnly, RInv, OtherTypes
<1>. QED
  BY <1>4, <1>5 DEF LoadAfterSubmit
LEMMA LoadFileinfoCounted ==
  ASSUME IInv, RInv, NEW l \in loads, LoadFileinfo(l) PROVE RInv'
<1>1. PICK m : m = [l EXCEPT !.batches = @ + 1]
  OBVIOUS
<1>2. /\ l.stage = "info" /\ loads' = (loads \ {l}) \cup {m} /\ dir' = dir
      /\ queue' = Append(queue, FileinfoResult(l, FALSE)) /\ check' = check
      /\ main' = main /\ WorkersOnly
  BY <1>1 DEF LoadFileinfo
<1>3. l \in LoadRec /\ queue \in Seq(Result)
  BY DEF IInv, Shape
<1>4. /\ m.dir = l.dir /\ m.cookie = l.cookie /\ m.load_fileinfo = l.load_fileinfo
      /\ m.stage = l.stage
  BY <1>1, <1>3 DEF LoadRec
<1>5. FileinfoResult(l, FALSE) \in Result
  BY <1>3, FileinfoResultFields
<1>6. ASSUME NEW q \in Dirs
      PROVE  Moves(Updating(q), Updating(q)', 0) /\ Moves(Finishing(q), Finishing(q)', 0)
  <2>1. /\ One(IsUpdate(FileinfoResult(l, FALSE), q)) = 0
        /\ One(IsLastBatch(FileinfoResult(l, FALSE), q)) = 0
    BY DEF FileinfoResult, IsUpdate, IsLastBatch, One
  <2>. QED
    BY <1>2, <1>3, <1>5, <2>1, ResultQueued
<1>7. AtStart(m) <=> AtStart(l)
  BY <1>4 DEF AtStart
<1>. QED
  BY <1>2, <1>4, <1>6, <1>7, OnlyMovesOnCounted

\* Only a load that brought no fileinfo along goes on to load it.
InfoIsDelayed == \A l \in loads : l.stage = "info" => ~l.load_fileinfo

LEMMA LoadLastFileinfoCounted ==
  ASSUME IInv, RInv, InfoIsDelayed, NEW l \in loads, LoadLastFileinfo(l) PROVE RInv'
<1>1. PICK r : r = FileinfoResult(l, TRUE)
  OBVIOUS
<1>2. /\ l.stage = "info" /\ loads' = loads \ {l} /\ dir' = dir
      /\ queue' = Append(queue, r) /\ check' = check
      /\ main' = main /\ WorkersOnly /\ main \in {"loop", "deinit"}
  BY <1>1 DEF LoadLastFileinfo, WorkersOnly
<1>3. l \in LoadRec /\ queue \in Seq(Result) /\ ~l.load_fileinfo
  BY <1>2 DEF IInv, Shape, InfoIsDelayed
<1>4. /\ r \in Result /\ r.dir = l.dir /\ r.kind = "fileinfo" /\ r.is_last_batch
  BY <1>1, <1>3, FileinfoResultFields DEF FileinfoResult
<1>5. PICK o \in Dirs : o = l.dir
  BY <1>3, LoadTypes
<1>6. /\ One(IsUpdate(r, o)) = 0 /\ One(IsLastBatch(r, o)) = 1
      /\ One(l.dir = o /\ AtStart(l)) = 0 /\ One(l.dir = o /\ ~l.load_fileinfo) = 1
  BY <1>2, <1>3, <1>4, <1>5 DEF One, IsUpdate, IsLastBatch, AtStart
<1>7. \A q \in Dirs \ {o} :
        /\ One(IsUpdate(r, q)) = 0 /\ One(IsLastBatch(r, q)) = 0
        /\ One(l.dir = q /\ AtStart(l)) = 0 /\ One(l.dir = q /\ ~l.load_fileinfo) = 0
  BY <1>4, <1>5 DEF One, IsUpdate, IsLastBatch
<1>8. \A q \in Dirs : /\ Moves(Updating(q), Updating(q)', One(IsUpdate(r, q)))
                      /\ Moves(Finishing(q), Finishing(q)', One(IsLastBatch(r, q)))
                      /\ Moves(Starting(q), Starting(q)', 0 - One(l.dir = q /\ AtStart(l)))
                      /\ Moves(Delayed(q), Delayed(q)',
                               0 - One(l.dir = q /\ ~l.load_fileinfo))
  BY <1>2, <1>3, <1>4, ResultQueued, LoadEnds
<1>9. 0 - 0 = 0 /\ 0 - 1 = -1
  OBVIOUS
<1>10. /\ Moves(Starting(o), Starting(o)', 0) /\ Moves(Updating(o), Updating(o)', 0)
       /\ Moves(Delayed(o), Delayed(o)', -1) /\ Moves(Finishing(o), Finishing(o)', 1)
  BY <1>6, <1>8, <1>9
<1>11. \A q \in Dirs \ {o} :
         /\ Moves(Starting(q), Starting(q)', 0) /\ Moves(Updating(q), Updating(q)', 0)
         /\ Moves(Delayed(q), Delayed(q)', 0) /\ Moves(Finishing(q), Finishing(q)', 0)
  BY <1>7, <1>8, <1>9
<1>12. 0 = 0 + 0 + -1 + 1 /\ Changes(dir'[o], dir[o], 0)
  BY <1>2, ChangesNot DEF IInv, Shape
<1>13. Changes(dir'[o], dir[o], 0 + 0 + -1 + 1)
  BY <1>12
<1>14. dir[o].refs > 0
  BY <1>2, <1>3, <1>5, LoadIsLive
<1>. QED
  BY <1>2, <1>10, <1>11, <1>13, <1>14, WorkedCounted

LEMMA CheckRunCounted ==
  ASSUME IInv, RInv, NEW k \in Checks, CheckRun(k) PROVE RInv'
<1>1. PICK r : r = [kind |-> "check", check |-> k]
  OBVIOUS
<1>2. /\ check[k].stage = "queued" /\ loads' = loads /\ dir' = dir
      /\ queue' = Append(queue, r) /\ cache' = cache /\ lua' = lua
      /\ main' = main /\ main # "undefined" /\ checking' = checking
      /\ event' = event /\ ops' = ops
  BY <1>1 DEF CheckRun, WorkersOnly
<1>3. queue \in Seq(Result) /\ check \in [Checks -> CheckRec]
  BY DEF IInv, Shape
<1>4. r \in Result /\ r.kind = "check"
  BY <1>1 DEF Result
<1>5. PICK reload \in BOOLEAN :
        check' = [check EXCEPT ![k].stage = "done", ![k].reload = reload]
  BY DEF CheckRun
<1>6. \A c \in Checks : /\ check'[c].dir = check[c].dir
                        /\ check'[c].stage = "idle" <=> check[c].stage = "idle"
  BY <1>2, <1>3, <1>5 DEF CheckRec
<1>7. OtherTypes'
  BY <1>2, <1>6 DEF RInv, OtherTypes
<1>8. ASSUME NEW q \in Dirs PROVE Unmoved(q)
  <2>1. One(IsUpdate(r, q)) = 0 /\ One(IsLastBatch(r, q)) = 0
    BY <1>4 DEF IsUpdate, IsLastBatch, One
  <2>2. Moves(Updating(q), Updating(q)', 0) /\ Moves(Finishing(q), Finishing(q)', 0)
    BY <1>2, <1>3, <1>4, <2>1, ResultQueued
  <2>. QED
    BY <1>2, <1>6, <2>2, Stays, ChecksStay DEF Unmoved, Moved
<1>. QED
  BY <1>2, <1>7, <1>8, NoneCounted

-----------------------------------------------------------------------------
(* The shutdown *)

LEMMA DeinitCounted ==
  ASSUME IInv, RInv, Deinit PROVE RInv'
<1>1. /\ main = "loop" /\ main' = "deinit" /\ loads' = loads /\ queue' = queue
      /\ check' = check /\ cache' = [p \in Paths |-> None] /\ lua' = {}
      /\ OtherTypes'
  BY DEF Deinit, RInv, OtherTypes
<1>2. ASSUME NEW o \in Dirs PROVE dir'[o].refs \in Nat /\ Counted(o)'
  <2>1. /\ Counted(o) /\ dir[o] \in DirShape /\ dir[o].refs \in Nat
    BY <1>1 DEF IInv, Shape, RInv
  <2>2. /\ IsFiniteSet(CachedAt(o)) /\ Cardinality(CachedAt(o)) \in Nat
        /\ IsFiniteSet(LuaHolds(o)) /\ Cardinality(LuaHolds(o)) \in Nat
    BY <2>1, FS_CardinalityType DEF Counted
  <2>3. PICK c1 \in Int : c1 = 0 - Cardinality(CachedAt(o))
    BY <2>2
  <2>4. PICK c2 \in Int : c2 = 0 - Cardinality(LuaHolds(o))
    BY <2>2
  <2>5. Moves(CachedAt(o), CachedAt(o)', c1)
    <3>1. CachedAt(o)' = {}
      BY <1>1, DirsAssumption DEF CachedAt
    <3>. QED
      BY <2>2, <2>3, <3>1, FS_EmptySet DEF Moves
  <2>6. Moves(LuaHolds(o), LuaHolds(o)', c2)
    <3>1. LuaHolds(o)' = {}
      BY <1>1 DEF LuaHolds
    <3>. QED
      BY <2>2, <2>4, <3>1, FS_EmptySet DEF Moves
  <2>7. Moved(o, c1, c2, 0, 0, 0, 0, 0)
    BY <1>1, <2>5, <2>6, Stays DEF Moved
  <2>0. /\ CacheRefs(o) = Cardinality(CachedAt(o))
        /\ LuaRefs(o) = Cardinality(LuaHolds(o))
    BY DEF CacheRefs, LuaRefs, CachedAt, LuaHolds
  <2>8. PICK h \in Nat : h = CacheRefs(o) + LuaRefs(o)
    BY <2>0, <2>2
  <2>9. dir'[o] = IF h = 0 THEN dir[o] ELSE DecRef(dir[o], h)
    BY <2>8 DEF Deinit
  <2>10. Changes(dir'[o], dir[o], 0 - h)
    BY <2>1, <2>9, ChangesNot, DecRefChanges
  <2>11. /\ 0 - h = c1 + c2 + 0 + 0 + 0 + 0 + 0
         /\ dir'[o].refs = dir[o].refs + (0 - h)
    BY <2>0, <2>2, <2>3, <2>4, <2>8, <2>10 DEF Changes
  <2>12. /\ dir'[o].refs \in Nat
         /\ (dir'[o].alloc = "live" <=> dir'[o].refs > 0) => Counted(o)'
    BY <2>1, <2>7, <2>11, Balance
  <2>13. dir'[o].alloc = "live" <=> dir'[o].refs > 0
    <3>1. CASE h = 0
      BY <2>1, <2>9, <3>1 DEF Counted
    <3>2. CASE h # 0
      <4>1. dir[o].refs - h >= 0
        BY <2>1, <2>8, <2>11, <2>12
      <4>2. dir[o].refs > 0 /\ dir[o].alloc = "live"
        BY <2>1, <3>2, <4>1 DEF Counted
      <4>. QED
        BY <2>1, <2>10, <4>1, <4>2 DEF Changes
    <3>. QED
      BY <3>1, <3>2
  <2>. QED
    BY <2>12, <2>13
<1>3. CachedByPath'
  BY <1>1 DEF CachedByPath
<1>. QED
  BY <1>1, <1>2, <1>3 DEF RInv

LEMMA TeardownCounted ==
  ASSUME IInv, RInv, PoolTeardown PROVE RInv'
<1>1. /\ main = "deinit" /\ main' = "torn" /\ dir' = dir /\ cache' = cache /\ lua' = lua
      /\ queue' = queue /\ checking' = checking /\ event' = event /\ ops' = ops
      /\ \A l \in loads : l.stage = "queued"
      /\ loads' = {[l EXCEPT !.stage = "dropped"] : l \in loads}
  BY DEF PoolTeardown
<1>2. \A k \in Checks : /\ check'[k].dir = check[k].dir
                        /\ check'[k].stage = "idle" => check[k].stage = "idle"
  <2>1. ASSUME NEW k \in Checks
        PROVE  /\ check'[k].dir = check[k].dir
               /\ check'[k].stage = "idle" => check[k].stage = "idle"
    <3>1. check[k] \in CheckRec
      BY DEF IInv, Shape
    <3>2. check'[k] = IF check[k].stage = "queued"
                      THEN [check[k] EXCEPT !.stage = "dropped"] ELSE check[k]
      BY DEF PoolTeardown
    <3>. QED
      BY <3>1, <3>2 DEF CheckRec
  <2>. QED
    BY <2>1
<1>3. OtherTypes'
  BY <1>1, <1>2 DEF RInv, OtherTypes
<1>4. PICK f : f = [l \in loads |-> [l EXCEPT !.stage = "dropped"]]
  OBVIOUS
<1>5. /\ \A l \in loads : /\ f[l] \in loads' /\ f[l].dir = l.dir /\ f[l].cookie = l.cookie
                         /\ f[l].load_fileinfo = l.load_fileinfo
                         /\ f[l].stage = "dropped"
      /\ \A m \in loads' : \E l \in loads : f[l] = m
  BY <1>1, <1>4 DEF IInv, Shape, LoadRec
<1>6. \A l, m \in loads : f[l] = f[m] => l = m
  BY <1>5 DEF IInv, CookiesUnique
<1>7. ASSUME NEW S, NEW T, S \subseteq loads, \A l \in S : f[l] \in T,
             \A m \in T : \E l \in S : f[l] = m
      PROVE  Moves(S, T, 0)
  <2>1. PICK g : g = [l \in S |-> f[l]]
    OBVIOUS
  <2>2. g \in [S -> T] /\ \A l \in S : g[l] = f[l]
    BY <1>7, <2>1
  <2>3. g \in Bijection(S, T)
    BY <1>6, <1>7, <2>2 DEF Bijection, Injection, IsInjective, Surjection
  <2>. QED
    BY <2>3, MovesMapped
<1>8. ASSUME NEW o \in Dirs PROVE Unmoved(o)
  <2>1. Moves(Starting(o), Starting(o)', 0)
    <3>1. /\ Starting(o) \subseteq loads /\ \A l \in Starting(o) : f[l] \in Starting(o)'
          /\ \A m \in Starting(o)' : \E l \in Starting(o) : f[l] = m
      BY <1>1, <1>5 DEF Starting
    <3>. QED
      BY <1>7, <3>1
  <2>2. Moves(Delayed(o), Delayed(o)', 0)
    <3>1. /\ Delayed(o) \subseteq loads /\ \A l \in Delayed(o) : f[l] \in Delayed(o)'
          /\ \A m \in Delayed(o)' : \E l \in Delayed(o) : f[l] = m
      BY <1>1, <1>5 DEF Delayed
    <3>. QED
      BY <1>7, <3>1
  <2>. QED
    BY <1>1, <1>2, <2>1, <2>2, Stays, ChecksStay DEF Unmoved, Moved
<1>. QED
  BY <1>1, <1>3, <1>8, NoneCounted
-----------------------------------------------------------------------------
(* Steps that create Dirs *)

LEMMA FirstLoadStarts ==
  ASSUME NEW o, NEW d
  PROVE  LET l == LoadWork(o, d, FALSE)
         IN  l.dir = o /\ ~l.load_fileinfo /\ AtStart(l)
BY DEF LoadWork, AtStart

\* A Dir that is created has the cache as its holder, and its first load, if any.
LEMMA NewIsCounted ==
  ASSUME NEW o \in Dirs, Counted(o), dir[o].refs \in Nat, dir[o].alloc = "unused",
         NEW p \in Paths, CachedAt(o)' = {p},
         lua' = lua, queue' = queue, CheckedBy(o)' = CheckedBy(o),
         \/ /\ Starting(o)' = Starting(o) /\ Delayed(o)' = Delayed(o)
            /\ dir'[o] = NewDir(p)
         \/ /\ \E w : Starting(o)' = {w} /\ Delayed(o)' = {w}
            /\ dir'[o] = AsyncDirLoad(NewDir(p), FALSE)
  PROVE  dir'[o].refs \in Nat /\ Counted(o)' /\ dir'[o].path = p
<1>1. /\ dir[o].refs = 0
      /\ CachedAt(o) = {} /\ Starting(o) = {} /\ Delayed(o) = {}
  BY NotHeld
<1>2. Moves(CachedAt(o), CachedAt(o)', 1)
  <2>1. CachedAt(o)' = CachedAt(o) \cup {p} /\ p \notin CachedAt(o)
    BY <1>1
  <2>. QED
    BY <2>1, MovesIn
<1>3. /\ Moves(LuaHolds(o), LuaHolds(o)', 0) /\ Moves(Updating(o), Updating(o)', 0)
      /\ Moves(Finishing(o), Finishing(o)', 0) /\ Moves(CheckedBy(o), CheckedBy(o)', 0)
  BY Stays, MovesNot
<1>4. /\ NewDir(p) \in DirShape /\ NewDir(p).alloc = "live" /\ NewDir(p).path = p
      /\ NewDir(p).refs = 1
  BY NewDirFields DEF NewDir
<1>5. CASE /\ Starting(o)' = Starting(o) /\ Delayed(o)' = Delayed(o)
           /\ dir'[o] = NewDir(p)
  <2>1. Moved(o, 1, 0, 0, 0, 0, 0, 0)
    BY <1>2, <1>3, <1>5, MovesNot DEF Moved
  <2>2. dir'[o].refs = dir[o].refs + 1 /\ 1 = 1 + 0 + 0 + 0 + 0 + 0 + 0
    BY <1>1, <1>4, <1>5
  <2>3. dir'[o].alloc = "live" <=> dir'[o].refs > 0
    BY <1>4, <1>5
  <2>. QED
    BY <1>4, <1>5, <2>1, <2>2, <2>3, Balance
<1>6. CASE /\ \E w : Starting(o)' = {w} /\ Delayed(o)' = {w}
           /\ dir'[o] = AsyncDirLoad(NewDir(p), FALSE)
  <2>1. PICK w : Starting(o)' = {w} /\ Delayed(o)' = {w}
    BY <1>6
  <2>2. Moves(Starting(o), Starting(o)', 1) /\ Moves(Delayed(o), Delayed(o)', 1)
    <3>1. /\ Starting(o)' = Starting(o) \cup {w} /\ w \notin Starting(o)
          /\ Delayed(o)' = Delayed(o) \cup {w} /\ w \notin Delayed(o)
      BY <1>1, <2>1
    <3>. QED
      BY <3>1, MovesIn
  <2>3. Moved(o, 1, 0, 1, 0, 1, 0, 0)
    BY <1>2, <1>3, <2>2 DEF Moved
  <2>4. Changes(dir'[o], NewDir(p), 2) /\ dir'[o].alloc = "live"
    BY <1>4, <1>6, AsyncDirLoadChanges DEF LoadRefs
  <2>5. dir'[o].refs = dir[o].refs + 3 /\ 3 = 1 + 0 + 1 + 0 + 1 + 0 + 0
    BY <1>1, <1>4, <2>4 DEF Changes
  <2>6. dir'[o].alloc = "live" <=> dir'[o].refs > 0
    BY <1>1, <2>4, <2>5
  <2>. QED
    BY <1>4, <2>3, <2>4, <2>5, <2>6, Balance DEF Changes
<1>. QED
  BY <1>5, <1>6

\* What the counts say of the Dirs a step may create and of those in the cache
LEMMA FreshAndCached ==
  ASSUME IInv, RInv, main # "undefined"
  PROVE  /\ \A o \in Fresh : /\ o \in Dirs /\ dir[o].alloc = "unused"
                            /\ Starting(o) = {} /\ Delayed(o) = {}
                            /\ \A p \in Paths : cache[p] # o
         /\ \A p \in Paths : cache[p] # None =>
              /\ cache[p] \in Dirs /\ cache[p] \notin Fresh /\ dir[cache[p]].refs > 0
         /\ \A p, q \in Paths : cache[p] # None /\ cache[p] = cache[q] => p = q
<1>1. ASSUME NEW o \in Fresh
      PROVE  /\ o \in Dirs /\ dir[o].alloc = "unused"
             /\ Starting(o) = {} /\ Delayed(o) = {}
             /\ \A p \in Paths : cache[p] # o
  <2>1. o \in Dirs /\ dir[o].alloc = "unused"
    BY DEF Fresh
  <2>2. Starting(o) = {} /\ Delayed(o) = {} /\ CachedAt(o) = {}
    BY <2>1, NotHeld DEF RInv
  <2>. QED
    BY <2>1, <2>2 DEF CachedAt
<1>2. ASSUME NEW p \in Paths, cache[p] # None
      PROVE  /\ cache[p] \in Dirs /\ cache[p] \notin Fresh /\ dir[cache[p]].refs > 0
  <2>1. cache[p] \in Dirs
    BY <1>2 DEF IInv, Shape
  <2>2. p \in CachedAt(cache[p])
    BY DEF CachedAt
  <2>3. dir[cache[p]].refs > 0
    BY <2>1, <2>2, HeldIsLive DEF RInv
  <2>. QED
    BY <1>1, <2>1, <2>3
<1>3. \A p, q \in Paths : cache[p] # None /\ cache[p] = cache[q] => p = q
  BY DEF RInv, CachedByPath
<1>. QED
  BY <1>1, <1>2, <1>3

LEMMA FromPathNewCounted ==
  ASSUME IInv, RInv, NEW p \in Paths, NEW b \in BOOLEAN, FromPathNew(p, b)
  PROVE  RInv'
<1>1. PICK o \in Fresh :
        /\ cache' = [cache EXCEPT ![p] = o]
        /\ dir' = [dir EXCEPT ![o] = IF b THEN AsyncDirLoad(NewDir(p), FALSE) ELSE NewDir(p)]
        /\ loads' = IF b THEN loads \cup {LoadWork(o, NewDir(p), FALSE)} ELSE loads
  BY DEF FromPathNew
<1>2. /\ main = "loop" /\ cache[p] = None /\ lua' = lua /\ queue' = queue
      /\ check' = check /\ main' = main /\ OtherTypes'
  BY DEF FromPathNew, Op, RInv, OtherTypes
<1>3. /\ dir \in [Dirs -> DirShape] /\ cache \in [Paths -> Dirs \cup {None}]
      /\ \A q \in Dirs : dir[q].refs \in Nat /\ Counted(q)
  BY <1>2 DEF IInv, Shape, RInv
<1>4. /\ o \in Dirs /\ dir[o].alloc = "unused" /\ Starting(o) = {} /\ Delayed(o) = {}
      /\ \A q \in Paths : cache[q] # o
  BY <1>2, FreshAndCached
<1>5. /\ cache'[p] = o /\ \A q \in Paths \ {p} : cache'[q] = cache[q]
      /\ \A q \in Dirs \ {o} : dir'[q] = dir[q]
  BY <1>1, <1>3
<1>6. PICK w : w = LoadWork(o, NewDir(p), FALSE)
  OBVIOUS
<1>7. w.dir = o /\ ~w.load_fileinfo /\ AtStart(w)
  BY <1>6, FirstLoadStarts
<1>8. loads' = IF b THEN loads \cup {w} ELSE loads
  BY <1>1, <1>6
<1>9. dir'[o].refs \in Nat /\ Counted(o)' /\ dir'[o].path = p
  <2>1. CachedAt(o)' = {p}
    BY <1>4, <1>5 DEF CachedAt
  <2>2. CheckedBy(o)' = CheckedBy(o)
    BY <1>2 DEF CheckedBy
  <2>3. CASE b
    <3>1. Starting(o)' = {w} /\ Delayed(o)' = {w}
      BY <1>4, <1>7, <1>8, <2>3 DEF Starting, Delayed, AtStart
    <3>2. dir'[o] = AsyncDirLoad(NewDir(p), FALSE)
      BY <1>1, <1>3, <1>4, <2>3
    <3>. QED
      BY <1>2, <1>3, <1>4, <2>1, <2>2, <3>1, <3>2, NewIsCounted
  <2>4. CASE ~b
    <3>1. Starting(o)' = Starting(o) /\ Delayed(o)' = Delayed(o)
      BY <1>8, <2>4 DEF Starting, Delayed
    <3>2. dir'[o] = NewDir(p)
      BY <1>1, <1>3, <1>4, <2>4
    <3>. QED
      BY <1>2, <1>3, <1>4, <2>1, <2>2, <3>1, <3>2, NewIsCounted
  <2>. QED
    BY <2>3, <2>4
<1>10. ASSUME NEW q \in Dirs \ {o} PROVE dir'[q].refs \in Nat /\ Counted(q)'
  <2>1. CachedAt(q)' = CachedAt(q)
    BY <1>2, <1>5, DirsAssumption DEF CachedAt
  <2>2. Starting(q)' = Starting(q) /\ Delayed(q)' = Delayed(q)
    BY <1>7, <1>8 DEF Starting, Delayed
  <2>3. Unmoved(q)
    BY <1>2, <2>1, <2>2, MovesNot, Stays DEF Unmoved, Moved
  <2>. QED
    BY <1>3, <1>5, <2>3, UnmovedIsCounted
<1>11. CachedByPath'
  <2>1. ASSUME NEW q \in Paths, cache'[q] # None PROVE dir'[cache'[q]].path = q
    <3>1. CASE q = p
      BY <1>5, <1>9, <3>1
    <3>2. CASE q # p
      <4>1. cache'[q] = cache[q] /\ cache[q] \in Dirs \ {o}
        BY <1>3, <1>4, <1>5, <2>1, <3>2
      <4>. QED
        BY <1>2, <1>5, <2>1, <4>1 DEF RInv, CachedByPath
    <3>. QED
      BY <3>1, <3>2
  <2>. QED
    BY <2>1 DEF CachedByPath
<1>. QED
  BY <1>2, <1>9, <1>10, <1>11 DEF RInv

LEMMA DropCacheCounted ==
  ASSUME IInv, RInv, DropCache PROVE RInv'
<1>1. PICK new \in [Shown -> Fresh] :
        /\ \A p, q \in Shown : new[p] = new[q] => p = q
        /\ cache' = [p \in Paths |-> IF p \in Shown THEN new[p] ELSE None]
        /\ dir' = [o \in Dirs |->
             IF \E p \in Shown : new[p] = o
             THEN AsyncDirLoad(NewDir(CHOOSE p \in Shown : new[p] = o), FALSE)
             ELSE IF \E p \in Paths : cache[p] = o
             THEN DecRef([dir[o] EXCEPT !.is_disowned = TRUE], 1)
             ELSE dir[o]]
        /\ loads' = loads \cup {LoadWork(new[p], NewDir(p), FALSE) : p \in Shown}
  BY DEF DropCache
<1>2. /\ main = "loop" /\ main' = main /\ lua' = lua /\ queue' = queue
      /\ checking' = {} /\ event' = event /\ ops' \in Nat
  BY DEF DropCache, Op, RInv, OtherTypes
<1>3. /\ dir \in [Dirs -> DirShape] /\ cache \in [Paths -> Dirs \cup {None}]
      /\ \A q \in Dirs : dir[q].refs \in Nat /\ Counted(q)
  BY <1>2 DEF IInv, Shape, RInv
<1>4. \A k \in Checks : check'[k].stage = check[k].stage /\ check'[k].dir = check[k].dir
  <2>. SUFFICES ASSUME NEW k \in Checks
                PROVE  check'[k].stage = check[k].stage /\ check'[k].dir = check[k].dir
    OBVIOUS
  <2>1. PICK v : v = (check[k].cancelled \/ k \in checking)
    OBVIOUS
  <2>2. check[k] \in CheckRec
    BY DEF IInv, Shape
  <2>3. check'[k] = [check[k] EXCEPT !.cancelled = v]
    BY <2>1 DEF DropCache
  <2>. QED
    BY <2>2, <2>3 DEF CheckRec
<1>5. OtherTypes'
  BY <1>2, <1>4 DEF RInv, OtherTypes
<1>6. \A q \in Dirs : CheckedBy(q)' = CheckedBy(q)
  BY <1>4 DEF CheckedBy
<1>7. PICK W : W = {LoadWork(new[p], NewDir(p), FALSE) : p \in Shown}
  OBVIOUS
<1>8. /\ loads' = loads \cup W
      /\ \A p \in Shown : LoadWork(new[p], NewDir(p), FALSE) \in W
      /\ \A l \in W : /\ ~l.load_fileinfo /\ AtStart(l)
                     /\ \E p \in Shown : /\ l.dir = new[p]
                                         /\ l = LoadWork(new[p], NewDir(p), FALSE)
  <2>1. /\ loads' = loads \cup W
        /\ \A p \in Shown : LoadWork(new[p], NewDir(p), FALSE) \in W
    BY <1>1, <1>7
  <2>2. ASSUME NEW l \in W
        PROVE  /\ ~l.load_fileinfo /\ AtStart(l)
               /\ \E p \in Shown : /\ l.dir = new[p]
                                   /\ l = LoadWork(new[p], NewDir(p), FALSE)
    <3>1. PICK p \in Shown : l = LoadWork(new[p], NewDir(p), FALSE)
      BY <1>7
    <3>. QED
      BY <3>1, FirstLoadStarts
  <2>. QED
    BY <2>1, <2>2
<1>9. ASSUME NEW p \in Shown
      PROVE  LET o == new[p] IN dir'[o].refs \in Nat /\ Counted(o)' /\ dir'[o].path = p
  <2>. PICK o : o = new[p]
    OBVIOUS
  <2>1. /\ o \in Dirs /\ dir[o].alloc = "unused" /\ Starting(o) = {} /\ Delayed(o) = {}
        /\ p \in Paths
    BY <1>2, FreshAndCached, DirsAssumption
  <2>2. \A q \in Shown : new[q] = o => q = p
    BY <1>1
  <2>3. CachedAt(o)' = {p}
    BY <1>1, <2>1, <2>2, DirsAssumption DEF CachedAt
  <2>4. PICK w : w = LoadWork(o, NewDir(p), FALSE)
    OBVIOUS
  <2>5. w.dir = o /\ ~w.load_fileinfo /\ AtStart(w) /\ w \in W
    BY <1>8, <2>4, FirstLoadStarts
  <2>6. \A l \in W : l.dir = o => l = w
    BY <1>8, <2>2, <2>4
  <2>7. Starting(o)' = {w} /\ Delayed(o)' = {w}
    BY <1>8, <2>1, <2>5, <2>6 DEF Starting, Delayed, AtStart
  <2>8. dir'[o] = AsyncDirLoad(NewDir(p), FALSE)
    <3>1. (CHOOSE q \in Shown : new[q] = o) = p
      BY <2>2
    <3>. QED
      BY <1>1, <2>1, <3>1
  <2>. QED
    BY <1>2, <1>3, <1>6, <2>1, <2>3, <2>7, <2>8, NewIsCounted
<1>10. ASSUME NEW o \in Dirs, \A p \in Shown : new[p] # o
       PROVE  dir'[o].refs \in Nat /\ Counted(o)'
  <2>1. CachedAt(o)' = {}
    BY <1>1, <1>10, DirsAssumption DEF CachedAt
  <2>2. Starting(o)' = Starting(o) /\ Delayed(o)' = Delayed(o)
    BY <1>8, <1>10 DEF Starting, Delayed
  <2>3. CASE \E p \in Paths : cache[p] = o
    <3>1. PICK p \in Paths : cache[p] = o
      BY <2>3
    <3>2. CachedAt(o) = {p} /\ dir[o].refs > 0
      BY <1>2, <3>1, FreshAndCached, DirsAssumption DEF CachedAt
    <3>3. Moves(CachedAt(o), CachedAt(o)', -1)
      <4>1. CachedAt(o)' = CachedAt(o) \ {p} /\ p \in CachedAt(o)
        BY <2>1, <3>2
      <4>. QED
        BY <4>1, MovesOut
    <3>4. Moved(o, -1, 0, 0, 0, 0, 0, 0)
      BY <1>2, <1>6, <2>2, <3>3, MovesNot, Stays DEF Moved
    <3>5. PICK d : d = [dir[o] EXCEPT !.is_disowned = TRUE]
      OBVIOUS
    <3>6. /\ d \in DirShape /\ d.refs = dir[o].refs /\ d.alloc = dir[o].alloc
          /\ d.path = dir[o].path
      BY <1>3, <3>5 DEF DirShape
    <3>7. dir'[o] = DecRef(d, 1)
      BY <1>1, <1>10, <2>3, <3>5
    <3>8. Changes(dir'[o], dir[o], -1)
      BY <3>6, <3>7, DecRefChanges DEF Changes
    <3>9. dir'[o].refs = dir[o].refs + (-1) /\ -1 = -1 + 0 + 0 + 0 + 0 + 0 + 0
      BY <3>8 DEF Changes
    <3>10. /\ dir'[o].refs \in Nat
           /\ (dir'[o].alloc = "live" <=> dir'[o].refs > 0) => Counted(o)'
      BY <1>3, <3>4, <3>9, Balance
    <3>11. dir'[o].alloc = "live" <=> dir'[o].refs > 0
      BY <1>3, <3>2, <3>8, <3>9, <3>10 DEF Changes, Counted
    <3>. QED
      BY <3>10, <3>11
  <2>4. CASE ~\E p \in Paths : cache[p] = o
    <3>1. CachedAt(o)' = CachedAt(o) /\ dir'[o] = dir[o]
      BY <1>1, <1>10, <2>1, <2>4 DEF CachedAt
    <3>2. Unmoved(o)
      BY <1>2, <1>6, <2>2, <3>1, MovesNot, Stays DEF Unmoved, Moved
    <3>. QED
      BY <1>3, <3>1, <3>2, UnmovedIsCounted
  <2>. QED
    BY <2>3, <2>4
<1>11. CachedByPath'
  BY <1>1, <1>9 DEF CachedByPath
<1>12. \A o \in Dirs : dir'[o].refs \in Nat /\ Counted(o)'
  BY <1>9, <1>10
<1>. QED
  BY <1>2, <1>5, <1>11, <1>12 DEF RInv
-----------------------------------------------------------------------------
(* The theorems *)

LEMMA InitCounted == Init => RInv /\ InfoIsDelayed
<1>. SUFFICES ASSUME Init PROVE RInv /\ InfoIsDelayed
  OBVIOUS
<1>1. /\ OtherTypes /\ InfoIsDelayed
  BY DEF Init, OtherTypes, InfoIsDelayed, IdleCheck
<1>2. ASSUME NEW o \in Dirs PROVE dir[o].refs \in Nat /\ Counted(o)
  <2>1. dir[o].refs = 0 /\ dir[o].alloc = "unused"
    BY DEF Init, NewDir
  <2>2. /\ CachedAt(o) = {} /\ LuaHolds(o) = {} /\ Starting(o) = {} /\ Updating(o) = {}
        /\ Delayed(o) = {} /\ Finishing(o) = {} /\ CheckedBy(o) = {}
    BY DirsAssumption DEF Init, IdleCheck, CachedAt, LuaHolds, Starting, Updating, Delayed,
       Finishing, CheckedBy
  <2>3. Holders(o) = Cardinality(CachedAt(o)) + Cardinality(LuaHolds(o))
                     + Cardinality(Starting(o)) + Cardinality(Updating(o))
                     + Cardinality(Delayed(o)) + Cardinality(Finishing(o))
                     + Cardinality(CheckedBy(o))
    BY DEF Holders, CacheRefs, LuaRefs, CachedAt, LuaHolds, Starting, Updating,
           Delayed, Finishing, CheckedBy
  <2>4. Holders(o) = 0
    BY <2>2, <2>3, FS_EmptySet
  <2>. QED
    BY <2>1, <2>2, <2>4, FS_EmptySet DEF Counted
<1>3. CachedByPath
  BY DEF Init, CachedByPath
<1>. QED
  BY <1>1, <1>2, <1>3 DEF RInv

\* Loads enter stage "info" by the last look at the work struct only.
LEMMA InfoStep == ASSUME IInv, InfoIsDelayed, [Next]_vars PROVE InfoIsDelayed'
<1>1. \A o, d, b : LoadWork(o, d, b).stage = "queued"
  BY DEF LoadWork
<1>2. ASSUME loads' = loads PROVE InfoIsDelayed'
  BY <1>2 DEF InfoIsDelayed
<1>3. ASSUME NEW o, NEW d, NEW b, loads' = loads \cup {LoadWork(o, d, b)}
      PROVE  InfoIsDelayed'
  BY <1>1, <1>3 DEF InfoIsDelayed
<1>4. CASE Calls
  <2>1. ASSUME NEW p \in Paths, NEW b \in BOOLEAN, FromPathNew(p, b)
        PROVE  InfoIsDelayed'
    BY <1>2, <1>3, <2>1 DEF FromPathNew
  <2>2. ASSUME NEW p \in Paths, NEW b \in BOOLEAN, FromPathCached(p, b) \/ Reload(p, b)
        PROVE  InfoIsDelayed'
    <3>1. (loads' = loads) \/ \E c \in BOOLEAN : StartLoad(cache[p], c)
      BY <2>2 DEF FromPathCached, Reload
    <3>. QED
      BY <1>2, <1>3, <3>1 DEF StartLoad
  <2>3. ASSUME DropCache PROVE InfoIsDelayed'
    <3>1. PICK new \in [Shown -> Fresh] :
            loads' = loads \cup {LoadWork(new[p], NewDir(p), FALSE) : p \in Shown}
      BY <2>3 DEF DropCache
    <3>. QED
      BY <1>1, <3>1 DEF InfoIsDelayed
  <2>4. ASSUME NEW p \in Paths, LuaPush(p) PROVE InfoIsDelayed'
    BY <1>2, <2>4 DEF LuaPush
  <2>. QED
    BY <1>4, <2>1, <2>2, <2>3, <2>4 DEF Calls
<1>5. CASE Worker \/ LooksAtWork
  <2>1. ASSUME NEW l \in loads, NEW s \in LoadRec, s.load_fileinfo = l.load_fileinfo,
               NEW c, LastLook(l, s, c)
        PROVE  InfoIsDelayed'
    <3>1. PICK m : m = [s EXCEPT !.stage = "info", !.seen = c]
      OBVIOUS
    <3>2. m.load_fileinfo = s.load_fileinfo
      BY <3>1 DEF LoadRec
    <3>3. loads' = (loads \ {l}) \cup IF s.load_fileinfo \/ s.empty THEN {} ELSE {m}
      BY <2>1, <3>1 DEF LastLook
    <3>. QED
      BY <3>2, <3>3 DEF InfoIsDelayed
  <2>2. ASSUME NEW l \in loads, LoadRead(l) PROVE InfoIsDelayed'
    <3>1. PICK empty \in BOOLEAN :
            loads' = (loads \ {l}) \cup {[l EXCEPT !.stage = "read", !.empty = empty,
                                             !.version = disk[dir[l.dir].path]]}
      BY <2>2 DEF LoadRead
    <3>2. PICK m : m = [l EXCEPT !.stage = "read", !.empty = empty,
                                 !.version = disk[dir[l.dir].path]]
      OBVIOUS
    <3>3. l \in LoadRec
      BY DEF IInv, Shape
    <3>4. m.stage = "read"
      BY <3>2, <3>3 DEF LoadRec
    <3>. QED
      BY <3>1, <3>2, <3>4 DEF InfoIsDelayed
  <2>3. ASSUME NEW l \in loads, LoadSubmit(l) PROVE InfoIsDelayed'
    <3>1. PICK b \in BOOLEAN : b = (l.empty \/ stop)
      BY DEF stop
    <3>2. PICK s : s = [l EXCEPT !.stage = "submitted", !.empty = b]
      OBVIOUS
    <3>3. l \in LoadRec
      BY DEF IInv, Shape
    <3>4. s \in LoadRec /\ s.load_fileinfo = l.load_fileinfo /\ s.stage = "submitted"
      BY <3>2, <3>3 DEF LoadRec
    <3>5. LastLook(l, s, s.cookie) \/ loads' = (loads \ {l}) \cup {s}
      BY <2>3, <3>1, <3>2 DEF LoadSubmit
    <3>. QED
      BY <2>1, <3>4, <3>5 DEF InfoIsDelayed
  <2>4. ASSUME NEW l \in loads, LoadFileinfo(l) PROVE InfoIsDelayed'
    <3>1. PICK m : m = [l EXCEPT !.batches = @ + 1]
      OBVIOUS
    <3>2. loads' = (loads \ {l}) \cup {m}
      BY <2>4, <3>1 DEF LoadFileinfo
    <3>3. m.stage = l.stage /\ m.load_fileinfo = l.load_fileinfo
      BY <3>1 DEF IInv, Shape, LoadRec
    <3>. QED
      BY <3>2, <3>3 DEF InfoIsDelayed
  <2>5. ASSUME NEW l \in loads, LoadLastFileinfo(l) PROVE InfoIsDelayed'
    BY <2>5 DEF LoadLastFileinfo, InfoIsDelayed
  <2>6. ASSUME NEW k \in Checks, CheckRun(k) PROVE InfoIsDelayed'
    BY <1>2, <2>6 DEF CheckRun
  <2>7. ASSUME NEW l \in loads, LoadAfterSubmit(l) PROVE InfoIsDelayed'
    <3>1. l \in LoadRec
      BY DEF IInv, Shape
    <3>2. (loads' = loads) \/ \E c : LastLook(l, l, c)
      BY <2>7 DEF LoadAfterSubmit
    <3>. QED
      BY <1>2, <2>1, <3>1, <3>2
  <2>. QED
    BY <1>5, <2>2, <2>3, <2>4, <2>5, <2>6, <2>7 DEF Worker, LooksAtWork
<1>6. CASE Timers
  BY <1>2, <1>3, <1>6 DEF Timers, TimerFires
<1>7. CASE HandleResult
  <2>1. CASE HandleUpdate
    BY <1>2, <1>3, <2>1 DEF HandleUpdate, UpdateCallback
  <2>2. CASE HandleFileinfo \/ HandleCheck
    BY <1>2, <2>2 DEF HandleFileinfo, FileinfoCallback, HandleCheck
  <2>. QED
    BY <1>7, <2>1, <2>2 DEF HandleResult
<1>8. CASE PoolTeardown
  <2>1. \A m \in loads' : m.stage = "dropped"
    BY <1>8 DEF PoolTeardown, IInv, Shape, LoadRec
  <2>. QED
    BY <2>1 DEF InfoIsDelayed
<1>9. CASE LuaCollects \/ Events \/ Deinit \/ DrainResult \/ UNCHANGED vars
           \/ \E p \in Paths : DiskChanges(p)
  <2>1. loads' = loads
    BY <1>9 DEF LuaCollects, LuaGc, Events, InotifyEvent, Deinit, DrainResult, DiskChanges,
                vars
  <2>. QED
    BY <1>2, <2>1
<1>. QED
  BY <1>4, <1>5, <1>6, <1>7, <1>8, <1>9 DEF Next, Settled

LEMMA NextCounted ==
  ASSUME IInv, RInv, InfoIsDelayed, [Next]_vars PROVE RInv'
<1>1. CASE Calls
  <2>1. ASSUME NEW p \in Paths, NEW b \in BOOLEAN,
               FromPathNew(p, b) \/ FromPathCached(p, b) \/ Reload(p, b)
        PROVE  RInv'
    BY <2>1, FromPathNewCounted, FromPathCachedCounted, ReloadCounted
  <2>2. ASSUME NEW p \in Paths, LuaPush(p) PROVE RInv'
    BY <2>2, LuaPushCounted
  <2>. QED
    BY <1>1, <2>1, <2>2, DropCacheCounted DEF Calls
<1>2. CASE LuaCollects
  BY <1>2, LuaGcCounted DEF LuaCollects
<1>3. CASE Worker
  <2>1. ASSUME NEW l \in loads,
               \/ LoadRead(l) \/ LoadSubmit(l)
               \/ LoadFileinfo(l) \/ LoadLastFileinfo(l)
        PROVE  RInv'
    BY <2>1, LoadReadCounted, LoadSubmitCounted, LoadFileinfoCounted,
       LoadLastFileinfoCounted
  <2>2. ASSUME NEW k \in Checks, CheckRun(k) PROVE RInv'
    BY <2>2, CheckRunCounted
  <2>. QED
    BY <1>3, <2>1, <2>2 DEF Worker
<1>4. CASE LooksAtWork
  BY <1>4, LoadAfterSubmitCounted DEF LooksAtWork
<1>5. CASE Timers
  BY <1>5, TimerCounted DEF Timers
<1>6. CASE Events
  BY <1>6, InotifyCounted DEF Events
<1>7. CASE HandleResult
  BY <1>7, HandleUpdateCounted, HandleFileinfoCounted, HandleCheckCounted DEF HandleResult
<1>8. CASE Deinit \/ PoolTeardown \/ DrainResult
  BY <1>8, DeinitCounted, TeardownCounted, DrainCounted
<1>9. CASE \E p \in Paths : DiskChanges(p)
  BY <1>9, DiskCounted
<1>10. CASE UNCHANGED vars
  BY <1>10, SettledCounted
<1>. QED
  BY <1>1, <1>2, <1>3, <1>4, <1>5, <1>6, <1>7, <1>8, <1>9, <1>10 DEF Next, Settled

\* Every Dir has as many references as holders, and lives as long as it has one,
\* across overlapping loads, cache drops, what Lua keeps and the shutdown, for
\* any number of Dirs, paths, checks and loads.
THEOREM RefcountsExact == Spec => []RefcountExact
<1>1. IInv /\ RInv /\ InfoIsDelayed /\ [Next]_vars => (RInv /\ InfoIsDelayed)'
  BY NextCounted, InfoStep
<1>2. RInv => RefcountExact
  BY DEF RInv, Counted, RefcountExact, Live
<1>. QED
  BY InitCounted, Invariant, <1>1, <1>2, PTL DEF Spec

\* Type correctness, with counts that are never negative; exact counts; and no
\* Dir that waits for a load that is not underway.
THEOREM HoldingsAccountedFor == Spec => []LoadsAccountedFor
<1>1. IInv /\ RInv /\ InfoIsDelayed /\ [Next]_vars => (RInv /\ InfoIsDelayed)'
  BY NextCounted, InfoStep
<1>2. IInv /\ RInv => TypeOK
  <2>. SUFFICES ASSUME IInv, RInv PROVE TypeOK
    OBVIOUS
  <2>1. \A o \in Dirs : dir[o] \in DirRec
    BY DEF IInv, Shape, RInv, DirShape, DirRec
  <2>. QED
    BY <2>1 DEF IInv, Shape, RInv, OtherTypes, TypeOK
<1>. QED
  BY InitCounted, Invariant, RefcountsExact, NoReloadBlockedForEver, <1>1, <1>2, PTL
     DEF Spec, LoadsAccountedFor
=============================================================================
