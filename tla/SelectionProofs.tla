--------------------------- MODULE SelectionProofs ---------------------------
(***************************************************************************)
(* Proofs about Selection, for every set of listings, every listing and    *)
(* every distance the cursor moves.                                        *)
(***************************************************************************)
EXTENDS Selection, TLAPS

LEMMA ListingIsSeq ==
  ASSUME NEW f \in Listings
  PROVE  /\ f \in Seq(Paths) /\ Len(f) \in Nat
         /\ \A i \in 1..Len(f) : f[i] \in Paths
         /\ \A i, j \in 1..Len(f) : f[i] = f[j] => i = j
  BY ListingsAssumption

\* The nearest position is on a file, if there is one.
LEMMA NearestIsListed ==
  ASSUME NEW f \in Listings, NEW i \in Nat
  PROVE  /\ Nearest(i, f) \in Nat
         /\ Len(f) > 0 => Nearest(i, f) < Len(f)
  BY ListingIsSeq DEF Nearest, Smaller

LEMMA MovedIsListed ==
  ASSUME TypeOK, NEW ct \in Counts
  PROVE  /\ Moved(ct) \in Nat
         /\ Len(files) > 0 => Moved(ct) < Len(files)
<1>1. Len(files) \in Nat /\ ind \in Nat /\ ct \in Int
  BY ListingIsSeq, InputsAssumption DEF TypeOK
<1> QED
  BY <1>1 DEF Moved, Nearest, Smaller

\* Files of the listing are paths.
LEMMA FilesArePaths ==
  ASSUME TypeOK, NEW I \in SUBSET Nat, \A i \in I : i < Len(files)
  PROVE  {File(i) : i \in I} \subseteq Paths
<1>1. \A i \in I : i + 1 \in 1..Len(files)
  BY ListingIsSeq DEF TypeOK
<1> QED
  BY <1>1, ListingIsSeq DEF TypeOK, File

LEMMA CurrentFileIsPath ==
  ASSUME TypeOK
  PROVE  CurrentFile \subseteq Paths
<1>1. ind \in Nat
  BY ListingIsSeq DEF TypeOK
<1>2. ind < Len(files) => ind + 1 \in 1..Len(files)
  BY <1>1, ListingIsSeq DEF TypeOK
<1> QED
  BY <1>2, ListingIsSeq DEF TypeOK, CurrentFile, File

-----------------------------------------------------------------------------
(* Type correctness *)

LEMMA TouchedIsNat ==
  ASSUME NEW from \in Nat, NEW to \in Nat, anchor \in Nat
  PROVE  Touched(from, to) \subseteq Nat
  BY DEF Touched

LEMMA MoveTyped ==
  ASSUME TypeOK, NEW ct \in Counts, MoveCursor(ct)
  PROVE  TypeOK'
<1>1. ind' \in Nat /\ (Len(files') > 0 => ind' < Len(files'))
  BY MovedIsListed DEF MoveCursor
<1>2. ind \in Nat /\ Moved(ct) \in Nat
  BY MovedIsListed DEF TypeOK
<1>3. current' \subseteq Paths /\ overread' \in BOOLEAN
  <2>1. CASE ~active
    BY <2>1 DEF MoveCursor, TypeOK
  <2>2. CASE active /\ \E i \in Touched(ind, Moved(ct)) : i >= Len(files)
    BY <2>2 DEF MoveCursor, UpdateSelection, TypeOK
  <2>3. CASE active /\ ~\E i \in Touched(ind, Moved(ct)) : i >= Len(files)
    <3>1. Touched(ind, Moved(ct)) \subseteq Nat
      BY <1>2, TouchedIsNat DEF TypeOK
    <3>2. \A i \in Touched(ind, Moved(ct)) : i < Len(files)
      BY <2>3, <3>1, ListingIsSeq DEF TypeOK
    <3>3. {File(i) : i \in Touched(ind, Moved(ct))} \subseteq Paths
      BY <3>1, <3>2, FilesArePaths
    <3> QED
      BY <2>3, <3>3 DEF MoveCursor, UpdateSelection, Toggle, TypeOK
  <2> QED
    BY <2>1, <2>2, <2>3
<1> QED
  BY <1>1, <1>3 DEF MoveCursor, visualmode, TypeOK

\* Leaving visual mode, or not, keeps the types of its state.
LEMMA VisualModeTyped ==
  ASSUME TypeOK, UNCHANGED visualmode \/ ExitVisual
  PROVE  /\ keep' \subseteq Paths /\ anchor' \in Nat
         /\ active' \in BOOLEAN /\ visual' \in BOOLEAN
<1>1. CASE UNCHANGED visualmode
  BY <1>1 DEF visualmode, TypeOK
<1>2. CASE ExitVisual
  <2>1. /\ keep' = {} /\ anchor' = 0 /\ active' = FALSE /\ visual' = FALSE
    BY <1>2 DEF ExitVisual
  <2> QED
    BY <2>1
<1> QED
  BY <1>1, <1>2

\* A new listing leaves the cursor on a file.
LEMMA NewListingTyped ==
  ASSUME TypeOK, NEW f \in Listings,
         Resort(f) \/ Reload(f) \/ Updir(f) \/ Chdir(f)
  PROVE  TypeOK'
<1>1. files' = f
  BY DEF Resort, Reload, Updir, Chdir, Enter
<1>2. Len(f) \in Nat /\ ind \in Nat
  BY ListingIsSeq DEF TypeOK
<1>3. ind' \in Nat /\ (Len(f) > 0 => ind' < Len(f))
  <2>1. Follows(f) => ind' \in 0 .. Len(f) - 1
    BY <1>2 DEF Follows
  <2>2. Nearest(ind, f) \in Nat /\ (Len(f) > 0 => Nearest(ind, f) < Len(f))
    BY <1>2, NearestIsListed
  <2>3. CASE Resort(f)
    BY <2>1, <2>2, <2>3, <1>2 DEF Resort
  <2>4. CASE Reload(f)
    BY <2>1, <2>2, <2>4, <1>2 DEF Reload
  <2>5. CASE Updir(f) \/ Chdir(f)
    <3>1. ind' \in 0 .. Nearest(Len(f), f)
      BY <2>5 DEF Updir, Chdir, Enter
    <3> QED
      BY <3>1, <1>2, NearestIsListed
  <2> QED
    BY <2>3, <2>4, <2>5
<1>4. sel' \in BOOLEAN
  <2>1. CASE Resort(f)
    BY <2>1 DEF Resort, TypeOK
  <2>2. CASE Reload(f) /\ UNCHANGED sel
    BY <2>2 DEF TypeOK
  <2>3. CASE Reload(f) /\ sel' = FALSE
    BY <2>3
  <2>4. CASE Updir(f) \/ Chdir(f)
    <3>1. sel' \in BOOLEAN \/ sel' = TRUE \/ sel' = FALSE
      BY <2>4 DEF Updir, Chdir
    <3> QED
      BY <3>1
  <2> QED
    BY <2>1, <2>2, <2>3, <2>4 DEF Reload
<1>5. /\ UNCHANGED visualmode \/ ExitVisual
      /\ UNCHANGED <<selection, buffer, overread>>
  BY DEF Resort, Reload, Updir, Chdir
<1>6. /\ keep' \subseteq Paths /\ anchor' \in Nat
      /\ active' \in BOOLEAN /\ visual' \in BOOLEAN
  BY <1>5, VisualModeTyped
<1> QED
  BY <1>1, <1>3, <1>4, <1>5, <1>6 DEF selection, TypeOK

LEMMA VisualTyped ==
  ASSUME TypeOK, EnterVisual \/ LeaveVisual
  PROVE  TypeOK'
<1>1. CurrentFile \subseteq Paths
  BY CurrentFileIsPath
<1>2. CASE EnterVisual
  <2>1. /\ current' \subseteq Paths /\ keep' \subseteq Paths /\ anchor' \in Nat
        /\ UNCHANGED <<cursor, previous, buffer>>
    BY <1>1, <1>2 DEF EnterVisual, TypeOK
  <2>2. /\ visual' = TRUE
        /\ UNCHANGED active \/ active' = TRUE
        /\ UNCHANGED overread \/ overread' = TRUE
    BY <1>2 DEF EnterVisual
  <2>3. /\ visual' \in BOOLEAN /\ active' \in BOOLEAN /\ overread' \in BOOLEAN
    BY <2>2 DEF TypeOK
  <2> QED
    BY <2>1, <2>3 DEF cursor, TypeOK
<1>3. CASE LeaveVisual
  <2>1. ExitVisual /\ UNCHANGED <<cursor, selection, buffer, overread>>
    BY <1>3 DEF LeaveVisual
  <2>2. /\ keep' \subseteq Paths /\ anchor' \in Nat
        /\ active' \in BOOLEAN /\ visual' \in BOOLEAN
    BY <2>1, VisualModeTyped
  <2> QED
    BY <2>1, <2>2 DEF cursor, selection, TypeOK
<1> QED
  BY <1>2, <1>3

LEMMA JumpTyped ==
  ASSUME TypeOK, JumpCursor \/ SelectName
  PROVE  TypeOK'
<1>1. Len(files) \in Nat
  BY ListingIsSeq DEF TypeOK
<1>2. CASE JumpCursor
  BY <1>1, <1>2 DEF JumpCursor, selection, visualmode, TypeOK
<1>3. CASE SelectName
  <2>1. ind' \in Nat /\ (Len(files) > 0 => ind' < Len(files))
    BY <1>1, <1>3 DEF SelectName, TypeOK
  <2>2. sel' = TRUE \/ UNCHANGED sel
    BY <1>3 DEF SelectName
  <2>3. sel' \in BOOLEAN
    BY <2>2 DEF TypeOK
  <2> QED
    BY <1>3, <2>1, <2>3 DEF SelectName, selection, visualmode, TypeOK
<1> QED
  BY <1>2, <1>3

LEMMA SelectTyped ==
  ASSUME TypeOK,
         ToggleSelection \/ ReverseSelection \/ Adds \/ Sets \/ RestoreSelection
  PROVE  TypeOK'
<1>1. \A paths \in Picks : paths \subseteq Paths
  BY InputsAssumption
<1>2. /\ CurrentFile \subseteq Paths
      /\ {files[i] : i \in 1..Len(files)} \subseteq Paths
  BY CurrentFileIsPath, ListingIsSeq DEF TypeOK
<1>3. /\ current' \subseteq Paths /\ previous' \subseteq Paths
      /\ UNCHANGED <<cursor, buffer, overread>>
  BY <1>1, <1>2
  DEF ToggleSelection, ReverseSelection, Adds, AddSelection, Sets, SetSelection,
      Cleared, RestoreSelection, Toggle, TypeOK
<1>4. UNCHANGED visualmode \/ ExitVisual
  BY DEF ToggleSelection, ReverseSelection, Adds, AddSelection, Sets, SetSelection,
         RestoreSelection
<1>5. /\ keep' \subseteq Paths /\ anchor' \in Nat
      /\ active' \in BOOLEAN /\ visual' \in BOOLEAN
  BY <1>4, VisualModeTyped
<1> QED
  BY <1>3, <1>5 DEF cursor, TypeOK

LEMMA PasteTyped ==
  ASSUME TypeOK, Take \/ PasteSets \/ Escape
  PROVE  TypeOK'
<1>1. \A paths \in Picks : paths \subseteq Paths
  BY InputsAssumption
<1>2. CurrentFile \subseteq Paths
  BY CurrentFileIsPath
<1>3. /\ current' \subseteq Paths /\ previous' \subseteq Paths
      /\ buffer' \subseteq Paths /\ UNCHANGED <<cursor, overread>>
  BY <1>1, <1>2 DEF Take, PasteSets, SetPasteBuffer, Escape, Cleared, TypeOK
<1>4. UNCHANGED visualmode \/ ExitVisual
  BY DEF Take, PasteSets, SetPasteBuffer, Escape
<1>5. /\ keep' \subseteq Paths /\ anchor' \in Nat
      /\ active' \in BOOLEAN /\ visual' \in BOOLEAN
  BY <1>4, VisualModeTyped
<1> QED
  BY <1>3, <1>5 DEF cursor, TypeOK

\* Type correctness: in particular, the cursor is on a file whenever there
\* are files.
THEOREM TypeCorrect == Spec => []TypeOK
<1>1. Init => TypeOK
  <2> SUFFICES ASSUME Init
               PROVE  TypeOK
    OBVIOUS
  <2>1. /\ files \in Listings /\ ind \in Nat /\ anchor \in Nat
        /\ Len(files) > 0 => ind < Len(files)
        /\ sel \in BOOLEAN
    BY ListingIsSeq DEF Init
  <2>2. /\ current = {} /\ previous = {} /\ keep = {} /\ buffer = {}
        /\ active = FALSE /\ visual = FALSE /\ overread = FALSE
    BY DEF Init
  <2> QED
    BY <2>1, <2>2 DEF TypeOK
<1>2. TypeOK /\ [Next]_vars => TypeOK'
  <2> SUFFICES ASSUME TypeOK, [Next]_vars
               PROVE  TypeOK'
    OBVIOUS
  <2>1. CASE CursorMoves
    BY <2>1, MoveTyped DEF CursorMoves
  <2>2. CASE Resorts \/ Reloads \/ Updirs \/ Chdirs
    BY <2>2, NewListingTyped DEF Resorts, Reloads, Updirs, Chdirs
  <2>3. CASE UNCHANGED vars
    BY <2>3 DEF TypeOK, vars
  <2> QED
    BY <2>1, <2>2, <2>3, VisualTyped, JumpTyped, SelectTyped, PasteTyped DEF Next
<1> QED
  BY <1>1, <1>2, PTL DEF Spec

-----------------------------------------------------------------------------
(* Visual mode *)

\* The positions from the anchor to x.
Span(x) == IF anchor <= x THEN anchor .. x ELSE x .. anchor

\* The positions that visual_update_selection touches are those passed and, the
\* anchor apart, those of one of the two spans only.
LEMMA TouchedIsDifference ==
  ASSUME anchor \in Nat, NEW from \in Nat, NEW to \in Nat, from # to, NEW i \in Nat
  PROVE  /\ i \in Touched(from, to) =>
              i \in IF from <= to THEN from .. to ELSE to .. from
         /\ i # anchor =>
              (i \in Touched(from, to) <=> ~(i \in Span(from) <=> i \in Span(to)))
<1>1. CASE from >= anchor
  <2>1. CASE to > from
    BY <1>1, <2>1 DEF Touched, Span
  <2>2. CASE to < anchor
    BY <1>1, <2>2 DEF Touched, Span
  <2>3. CASE to < from /\ to >= anchor
    BY <1>1, <2>3 DEF Touched, Span
  <2> QED
    BY <2>1, <2>2, <2>3
<1>2. CASE from < anchor
  <2>1. CASE to < from
    BY <1>2, <2>1 DEF Touched, Span
  <2>2. CASE to > anchor
    BY <1>2, <2>2 DEF Touched, Span
  <2>3. CASE to > from /\ to <= anchor
    BY <1>2, <2>3 DEF Touched, Span
  <2> QED
    BY <2>1, <2>2, <2>3
<1> QED
  BY <1>1, <1>2

\* With files in the listing, a move in visual mode reads no position beyond it.
LEMMA MoveTouches ==
  ASSUME TypeOK, NEW ct \in Counts, MoveCursor(ct), active, Len(files) > 0
  PROVE  /\ \A i \in Touched(ind, Moved(ct)) : i \in Nat /\ i < Len(files)
         /\ current' = Toggle(current,
                               {File(i) : i \in Touched(ind, Moved(ct))} \ keep)
<1>1. /\ ind \in Nat /\ Moved(ct) \in Nat /\ Len(files) \in Nat /\ anchor \in Nat
      /\ ind < Len(files) /\ Moved(ct) < Len(files) /\ ind # Moved(ct)
  BY MovedIsListed, ListingIsSeq DEF TypeOK, MoveCursor
<1>2. \A i \in Touched(ind, Moved(ct)) : i \in Nat
  BY <1>1, TouchedIsNat
<1>3. \A i \in Touched(ind, Moved(ct)) : i < Len(files)
  <2> SUFFICES ASSUME NEW i \in Touched(ind, Moved(ct))
               PROVE  i < Len(files)
    OBVIOUS
  <2>1. i \in IF ind <= Moved(ct) THEN ind .. Moved(ct) ELSE Moved(ct) .. ind
    BY <1>1, <1>2, TouchedIsDifference
  <2> QED
    BY <1>1, <2>1
<1>4. ~\E i \in Touched(ind, Moved(ct)) : i >= Len(files)
  BY <1>1, <1>2, <1>3
<1> QED
  BY <1>2, <1>3, <1>4 DEF MoveCursor, UpdateSelection

\* Different positions list different files.
LEMMA FilesDiffer ==
  ASSUME TypeOK, NEW i \in Nat, NEW j \in Nat, i < Len(files), j < Len(files),
         File(i) = File(j)
  PROVE  i = j
<1>1. i + 1 \in 1..Len(files) /\ j + 1 \in 1..Len(files)
  BY ListingIsSeq DEF TypeOK
<1>2. files[i + 1] = files[j + 1]
  BY DEF File
<1> QED
  BY <1>1, <1>2, ListingIsSeq DEF TypeOK

LEMMA MoveKeepsExact ==
  ASSUME TypeOK, NEW ct \in Counts, MoveCursor(ct), active, Exact
  PROVE  Exact'
<1> DEFINE to == Moved(ct)
           T == Touched(ind, to)
           F(I) == {File(i) : i \in I}
<1>1. /\ ind \in Nat /\ to \in Nat /\ anchor \in Nat /\ Len(files) \in Nat
      /\ ind # to /\ ind < Len(files) /\ to < Len(files) /\ anchor < Len(files)
  BY MovedIsListed, ListingIsSeq DEF TypeOK, MoveCursor, Exact
<1>2. /\ ind' = to /\ UNCHANGED <<files, anchor, keep>>
  BY DEF MoveCursor, visualmode
<1>3. /\ \A i \in T : i \in Nat /\ i < Len(files)
      /\ current' = Toggle(current, F(T) \ keep)
  <2>1. Len(files) > 0
    BY <1>1
  <2>2. /\ \A i \in Touched(ind, Moved(ct)) : i \in Nat /\ i < Len(files)
        /\ current' = Toggle(current,
                              {File(i) : i \in Touched(ind, Moved(ct))} \ keep)
    BY <2>1, MoveTouches, Zenon
  <2> QED
    BY <2>2
<1>4. current = keep \cup F(Span(ind)) /\ File(anchor) \in keep
  BY DEF Exact, Between, Span
<1>5. \A x \in {ind, to} : \A i \in Span(x) : i \in Nat /\ i < Len(files)
  BY <1>1 DEF Span
<1>6. current' = keep \cup F(Span(to))
  <2>1. ASSUME NEW p, p \in keep
        PROVE  p \in current'
    BY <1>3, <1>4, <2>1 DEF Toggle
  <2>2. ASSUME NEW i \in Nat, i < Len(files), File(i) \notin keep
        PROVE  File(i) \in current' <=> i \in Span(to)
    <3>1. i # anchor
      BY <1>4, <2>2
    <3>2. File(i) \in F(T) <=> i \in T
      BY <1>3, <2>2, FilesDiffer
    <3>3. File(i) \in current <=> i \in Span(ind)
      BY <1>4, <1>5, <2>2, FilesDiffer
    <3>4. File(i) \in current' <=> ~(File(i) \in current <=> File(i) \in F(T))
      BY <1>3, <2>2 DEF Toggle
    <3>5. i \in T <=> ~(i \in Span(ind) <=> i \in Span(to))
      BY <1>1, <2>2, <3>1, TouchedIsDifference
    <3> QED
      BY <3>2, <3>3, <3>4, <3>5
  <2>3. ASSUME NEW p \in current', p \notin keep
        PROVE  p \in F(Span(to))
    <3>1. p \in F(Span(ind)) \/ p \in F(T)
      BY <1>3, <1>4, <2>3 DEF Toggle
    <3>2. PICK i \in Nat : i < Len(files) /\ p = File(i)
      BY <1>3, <1>5, <3>1
    <3> QED
      BY <2>2, <2>3, <3>2
  <2>4. ASSUME NEW i \in Span(to), File(i) \notin keep
        PROVE  File(i) \in current'
    BY <1>5, <2>2, <2>4
  <2> HIDE DEF F
  <2> QED
    <3>1. \A p \in F(Span(to)) : p \in keep \/ p \in current'
      BY <2>4 DEF F
    <3> QED
      BY <2>1, <2>3, <3>1
<1>7. Span(to) = IF anchor <= to THEN anchor .. to ELSE to .. anchor
  BY DEF Span
<1>8. current' = keep' \cup {files'[i + 1] : i \in Between'}
  BY <1>2, <1>6, <1>7 DEF Between, File
<1>9. File(anchor)' \in keep'
  BY <1>2, <1>4 DEF File
<1> QED
  BY <1>1, <1>2, <1>8, <1>9 DEF Exact, File

LEMMA EnterIsExact ==
  ASSUME TypeOK, EnterVisual, ~active, active'
  PROVE  Exact'
<1>1. Len(files) # 0 /\ CurrentFile # {}
  BY DEF EnterVisual
<1>2. /\ anchor' = ind /\ keep' = current' /\ current' = current \cup CurrentFile
      /\ UNCHANGED <<files, ind>>
  BY <1>1 DEF EnterVisual, cursor
<1>3. ind \in Nat /\ ind < Len(files) /\ Len(files) \in Nat
  BY <1>1, ListingIsSeq DEF TypeOK
<1>4. CurrentFile = {File(ind)}
  BY <1>3 DEF CurrentFile
<1>5. Between' = {ind}
  BY <1>2, <1>3 DEF Between
<1>6. File(anchor)' = File(ind)
  BY <1>2 DEF File
<1>7. current' = keep' \cup {files'[i + 1] : i \in Between'}
  BY <1>2, <1>4, <1>5 DEF File
<1> QED
  BY <1>2, <1>3, <1>4, <1>6, <1>7 DEF Exact, File

\* In visual mode the selection is that from before and the files from the anchor
\* to the cursor, for every listing and distance.
THEOREM SelectionFollows == Spec => VisualFollowsCursor
<1>1. TypeOK => [/\ EnterVisual /\ ~active /\ active' => Exact'
                 /\ CursorMoves /\ active /\ Exact => Exact']_vars
  BY EnterIsExact, MoveKeepsExact DEF CursorMoves
<1> QED
  BY <1>1, TypeCorrect, PTL DEF VisualFollowsCursor

\* A move of the cursor in visual mode toggles files that it passed.
LEMMA MoveTogglesPassed ==
  ASSUME TypeOK, NEW ct \in Counts, MoveCursor(ct), active,
         NEW p \in Toggle(current, current')
  PROVE  p \notin keep /\ \E i \in Passed : i < Len(files) /\ p = File(i)
<1> DEFINE T == Touched(ind, Moved(ct))
<1>1. /\ ind \in Nat /\ Moved(ct) \in Nat /\ Len(files) \in Nat /\ anchor \in Nat
      /\ ind # Moved(ct)
  BY MovedIsListed, ListingIsSeq DEF TypeOK, MoveCursor
<1>2. ~UNCHANGED current
  BY DEF Toggle
<1>3. /\ ~\E i \in T : i >= Len(files)
      /\ current' = Toggle(current, {File(i) : i \in T} \ keep)
  BY <1>2 DEF MoveCursor, UpdateSelection
<1>4. p \in {File(i) : i \in T} /\ p \notin keep
  BY <1>3 DEF Toggle
<1>5. PICK i \in T : p = File(i)
  BY <1>4
<1>6. i \in Nat
  BY <1>1, TouchedIsNat
<1>7. i \in IF ind <= Moved(ct) THEN ind .. Moved(ct) ELSE Moved(ct) .. ind
  BY <1>1, <1>6, TouchedIsDifference
<1>8. i \in Passed
  BY <1>7 DEF Passed, MoveCursor
<1>9. i < Len(files)
  BY <1>1, <1>3, <1>6
<1> QED
  BY <1>4, <1>5, <1>8, <1>9

THEOREM MovesTouchPassed == Spec => MovesTouchPassedOnly
<1>1. TypeOK /\ [Next]_vars =>
        [active /\ ind' # ind /\ files' = files =>
           \A p \in Toggle(current, current') :
             p \notin keep /\ \E i \in Passed : i < Len(files) /\ p = File(i)]_vars
  <2> SUFFICES ASSUME TypeOK, Next, active, ind' # ind,
                      NEW p \in Toggle(current, current')
               PROVE  p \notin keep /\ \E i \in Passed : i < Len(files) /\ p = File(i)
    BY DEF vars
  <2>1. ~UNCHANGED current /\ ~UNCHANGED cursor
    BY DEF Toggle, cursor
  <2>2. CursorMoves
    BY <2>1
    DEF Next, cursor, selection, JumpCursor, SelectName, EnterVisual,
        LeaveVisual, Resorts, Resort, Reloads, Reload, Updirs, Updir, Chdirs, Chdir,
        ToggleSelection, ReverseSelection, Adds, AddSelection, Sets, SetSelection,
        RestoreSelection, Take, PasteSets, SetPasteBuffer, Escape
  <2> QED
    BY <2>2, MoveTogglesPassed DEF CursorMoves
<1> QED
  BY <1>1, TypeCorrect, PTL DEF Spec, MovesTouchPassedOnly

-----------------------------------------------------------------------------
(* Clearing *)

\* A list of paths that is cleared is kept in the previous selection or the paste
\* buffer, but for the exceptions of ClearedCanBeRestored.
THEOREM ClearedIsKept == Spec => ClearedCanBeRestored
<1>1. TypeOK /\ [Next]_vars =>
        [/\ \/ current \subseteq current' \cup previous' \cup buffer'
            \/ buffer # {} /\ previous' = buffer
            \/ /\ UNCHANGED <<previous, buffer>>
               /\ current \ current' \subseteq {files[i] : i \in 1..Len(files)}
         /\ \/ buffer \subseteq buffer' \cup previous'
            \/ Take]_vars
  <2> SUFFICES ASSUME TypeOK, Next
               PROVE  /\ \/ current \subseteq current' \cup previous' \cup buffer'
                         \/ buffer # {} /\ previous' = buffer
                         \/ /\ UNCHANGED <<previous, buffer>>
                            /\ current \ current' \subseteq
                                 {files[i] : i \in 1..Len(files)}
                      /\ \/ buffer \subseteq buffer' \cup previous'
                         \/ Take
    BY DEF vars
  <2>1. CASE CursorMoves
    <3>1. PICK ct \in Counts : MoveCursor(ct)
      BY <2>1 DEF CursorMoves
    <3>2. UNCHANGED <<previous, buffer>>
      BY <3>1 DEF MoveCursor
    <3>3. ASSUME NEW p \in current \ current'
          PROVE  p \in {files[i] : i \in 1..Len(files)}
      <4>1. active /\ p \in Toggle(current, current')
        BY <3>1, <3>3 DEF MoveCursor, Toggle
      <4>2. PICK i \in Passed : i < Len(files) /\ p = File(i)
        BY <3>1, <4>1, MoveTogglesPassed
      <4>3. i \in Nat
        BY <3>1, <4>2, MovedIsListed, ListingIsSeq DEF MoveCursor, Passed, TypeOK
      <4>4. i + 1 \in 1..Len(files)
        BY <4>2, <4>3, ListingIsSeq DEF TypeOK
      <4> QED
        BY <4>2, <4>4 DEF File
    <3> QED
      BY <3>2, <3>3
  <2>2. CASE JumpCursor \/ SelectName \/ EnterVisual \/ LeaveVisual
    BY <2>2 DEF JumpCursor, SelectName, EnterVisual, LeaveVisual, selection
  <2>3. CASE Resorts \/ Reloads \/ Updirs \/ Chdirs
    BY <2>3
    DEF Resorts, Resort, Reloads, Reload, Updirs, Updir, Chdirs, Chdir, selection
  <2>4. CASE ToggleSelection \/ ReverseSelection
    <3>1. CurrentFile \subseteq {files[i] : i \in 1..Len(files)}
      <4>1. ind < Len(files) => ind + 1 \in 1..Len(files)
        BY ListingIsSeq DEF TypeOK
      <4> QED
        BY <4>1 DEF CurrentFile, File
    <3> QED
      BY <2>4, <3>1 DEF ToggleSelection, ReverseSelection, Toggle
  <2>5. CASE Adds \/ Sets \/ RestoreSelection
    BY <2>5 DEF Adds, AddSelection, Sets, SetSelection, Cleared, RestoreSelection
  <2>6. CASE Take
    BY <2>6 DEF Take
  <2>7. CASE PasteSets \/ Escape
    BY <2>7 DEF PasteSets, SetPasteBuffer, Escape, Cleared
  <2> QED
    BY <2>1, <2>2, <2>3, <2>4, <2>5, <2>6, <2>7 DEF Next
<1> QED
  BY <1>1, TypeCorrect, PTL DEF Spec, ClearedCanBeRestored
=============================================================================
