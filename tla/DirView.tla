------------------------------- MODULE DirView -------------------------------
(***************************************************************************)
(* What is shown of a directory and where its cursor stands (dir.c, sort.c,*)
(* the ordering and hiding half of filter.c, search.c, and the drawing of  *)
(* a listing in ui.c), as Lua (lua/dir.c, lua/fmlib.c), the loader and the *)
(* terminal drive it.                                                      *)
(*                                                                         *)
(* A directory is a record, an operator of the code that changes it one    *)
(* that returns the changed record.  Indices are those of C, from 0.  The  *)
(* unsigned ind and pos are read through min and max of signed integers,   *)
(* so that a negative number stands for one that wrapped around.           *)
(***************************************************************************)
EXTENDS Integers, Sequences, FiniteSets, SequencesExt, TLC

CONSTANTS Entries,     \* files that may be found on disk
          Name, Ino,   \* of each; entries of a directory differ in their name
          Hidden,      \* those whose name starts with a dot
          Folders,     \* those that are a directory, followed if it is a link
          Links,       \* symbolic links: what they lead to is read later
          Rank,        \* per type of order: what each is compared by
          Salts,       \* of the random order
          Disks,       \* sets of entries that a load may read
          ReadOrder,   \* of readdir: the entries in a sequence
          Orders,      \* [type, dirfirst, reverse] that the user asks for
          Filters,     \* [match |-> entries, score |-> None or a number of each]
          Searches,    \* per search string: entries whose name has it
          Heights, Scrolloffs,
          Steps,       \* how far Lua moves the cursor
          Selectable,  \* that Lua, or a change of directory, selects
          None

DisksAssumption == \A s \in Disks : \A e, f \in s : Name[e] = Name[f] => e = f
SizesAssumption == Heights \subseteq Nat \ {0} /\ Scrolloffs \subseteq Nat

VARIABLES dir,        \* the Dir
          scrolloff,  \* cfg.scrolloff
          resorted    \* ghost: sorted since links were resolved

vars == <<dir, scrolloff, resorted>>

min(i, j) == IF i < j THEN i ELSE j
max(i, j) == IF i > j THEN i ELSE j
\* i < j of unsigned numbers
Below(i, j) == IF (i < 0) = (j < 0) THEN i < j ELSE j < 0

Settings == [type : {"natural", "size", "random"}, dirfirst : BOOLEAN, reverse : BOOLEAN, hidden : BOOLEAN,
             salt : Salts \cup {None}]

\* The files shown, and the one under the cursor
Listed(d) == SubSeq(d.data, 1, d.size)
CurrentFile(d) == IF d.ind >= d.size THEN None ELSE d.data[d.ind + 1]
\* Index of the first entry that satisfies P, or -1
Find(s, P(_)) == SelectInSeq(s, P) - 1

-----------------------------------------------------------------------------
(* Order and selection *)

IsDir(d, e) == e \in Folders /\ (e \in Links => d.resolved)
\* compare_natural, compare_size, compare_key
SortValue(d, e) ==
  CASE d.settings.type = "random" -> d.key[e]
    [] d.settings.type = "size" /\ e \in Links /\ ~d.resolved -> 0
    [] OTHER -> Rank[d.settings.type][e]
Before(d, e, f) == \/ SortValue(d, e) < SortValue(d, f)
                   \/ SortValue(d, e) = SortValue(d, f) /\ Ino[e] < Ino[f]

\* apply_filters writes over the front of files: what was behind stays in the array.
ApplyFiltersTo(d, files) ==
  LET kept == SelectSeq(files, LAMBDA e : d.filter # None => e \in d.filter.match)
      listed == IF d.filter # None /\ d.filter.score # None
                THEN SortSeq(kept, LAMBDA e, f : d.filter.score[e] > d.filter.score[f])
                ELSE kept
  IN [d EXCEPT !.data = listed \o SubSeq(@, Len(listed) + 1, Len(@)), !.size = Len(listed),
               !.ind = max(min(@, Len(listed) - 1), 0)]
ApplyFiltersAgain(d) == ApplyFiltersTo(d, IF d.filter = None THEN d.sorted ELSE Listed(d))
ApplyFilters(d) == ApplyFiltersTo(d, d.sorted)

\* dir_apply_random_keys: for the files listed, the salt staying if none is given
RandomKeys(d, salt) ==
  [d EXCEPT !.key = [e \in Entries |-> IF Contains(Listed(d), e) THEN Rank["random"][salt][e]
                                       ELSE @[e]]]

DirSort(d, force) ==
  IF d.all = <<>> THEN [d EXCEPT !.inOrder = TRUE] ELSE
  LET all == IF force \/ ~d.inOrder THEN SortSeq(d.all, LAMBDA e, f : Before(d, e, f))
             ELSE d.all
      set == d.settings
      \* with hidden files and no grouping the array of the listed files is copied
      shown == IF set.hidden /\ ~set.dirfirst THEN d.data
               ELSE SelectSeq(all, LAMBDA e : set.hidden \/ e \notin Hidden)
      dirs == SelectSeq(shown, LAMBDA e : set.dirfirst /\ IsDir(d, e))
      rest == SelectSeq(shown, LAMBDA e : ~(set.dirfirst /\ IsDir(d, e)))
  IN ApplyFilters([d EXCEPT !.all = all, !.inOrder = TRUE,
                            !.sorted = IF set.reverse THEN Reverse(dirs) \o Reverse(rest)
                                       ELSE dirs \o rest])

-----------------------------------------------------------------------------
(* Cursor *)

MoveCursorToEdge(d, ct) ==
  LET ind == max(min(d.ind + ct, d.size - 1), 0)
  IN [d EXCEPT !.ind = ind,
               !.pos = IF ct < 0 THEN min(max(0, @ + ct), ind)
                       ELSE max(min(d.height - 1 - d.scrolloff, @ + ct),
                                d.height - d.size + ind)]

MoveCursor(d, ct) ==
  LET ind == max(min(d.ind + ct, d.size - 1), 0)
  IN [d EXCEPT !.ind = ind,
               !.pos = IF ct < 0 THEN min(max(d.scrolloff, @ + ct), ind)
                       ELSE max(min(d.height - 1 - d.scrolloff, @ + ct),
                                d.height - d.size + ind)]
SetCursor(d, ind) == MoveCursor(d, ind - d.ind)
\* Where a file was looked for: to it, or not at all
MoveTo(d, i) == IF i >= 0 THEN SetCursor(d, i) ELSE [d EXCEPT !.ind = min(@, d.size)]

MoveToName(d, name) == IF d.size = 0 THEN [d EXCEPT !.sel = name]
                       ELSE MoveTo(d, Find(Listed(d), LAMBDA e : Name[e] = name))
MoveToPtr(d, file) == IF file = None THEN d
                      ELSE MoveTo(d, Find(Listed(d), LAMBDA e : e = file))
MoveToSel(d) == IF d.size = 0 THEN d
                ELSE [MoveTo(d, Find(Listed(d), LAMBDA e : Name[e] = d.sel)) EXCEPT !.sel = None]
MoveToIno(d, ino) == MoveTo(d, Find(Listed(d), LAMBDA e : Ino[e] = ino))

ApplyNoScroll(d) == d
ApplyScroll(d) ==
  LET above == d.ind - d.pos
      space == d.height - d.pos - (d.size - d.ind - 1) - 1
  IN [d EXCEPT !.pos = IF above > 0 /\ space > 0 THEN @ + min(above, space) ELSE @]

\* dir_scroll moves the cursor, and first the view against it if it may
DirScroll(d, ct) ==
  MoveCursor([d EXCEPT !.pos = IF \/ ct < 0 /\ Below(@, d.height - d.scrolloff - 1)
                                  \/ ct > 0 /\ Below(d.scrolloff, @)
                               THEN @ - ct ELSE @], ct)

\* What the listing shows: the row of the cursor, and the first file
Row(d) == min(min(d.pos, d.height - 1), d.ind)
Offset(d) == IF d.size <= d.height THEN 0 ELSE max(d.ind - Row(d), 0)

-----------------------------------------------------------------------------
(* A load *)

\* dir_update_with, and the keys that dir_update_callback gives to the files first
UpdateWith(d, files, resolved) ==
  LET ino == IF d.sel = None /\ d.ind < d.size THEN Ino[CurrentFile(d)] ELSE None
      read == SelectSeq(ReadOrder, LAMBDA e : e \in files)
      new == [d EXCEPT !.all = read, !.sorted = read, !.data = read, !.size = Len(read),
                       !.resolved = resolved, !.loaded = TRUE,
                       !.key = [e \in Entries |-> 0]]
      keyed == IF d.settings.type = "random" THEN RandomKeys(new, d.settings.salt) ELSE new
      sorted == DirSort(keyed, TRUE)
  IN ApplyScroll(IF d.sel # None THEN MoveToSel(sorted) ELSE MoveToIno(sorted, ino))

\* fileinfo_callback with the last batch: the links are resolved
WithFileInfo(d) ==
  LET sorted == DirSort([d EXCEPT !.resolved = TRUE], FALSE)
      file == CurrentFile(d)
  IN IF d.ind # 0 /\ file # None /\ CurrentFile(sorted) # file
     THEN MoveToName(sorted, Name[file]) ELSE sorted

-----------------------------------------------------------------------------
(* The steps of the program *)

NewDir(set, h, s) ==
  [all |-> <<>>, sorted |-> <<>>, data |-> <<>>, size |-> 0, inOrder |-> FALSE,
   settings |-> set, filter |-> None, sel |-> None, key |-> [e \in Entries |-> 0],
   resolved |-> FALSE, loaded |-> FALSE,
   ind |-> 0, pos |-> 0, height |-> h, scrolloff |-> s]

\* dir_create: scrolloff is that of the configuration, whatever the height
Init == /\ scrolloff \in Scrolloffs
        /\ \E hidden \in BOOLEAN, h \in Heights :
             dir = NewDir([type |-> "natural", dirfirst |-> TRUE, reverse |-> FALSE,
                           hidden |-> hidden, salt |-> None], h, scrolloff)
        /\ resorted = TRUE

Update(files, resolved) ==
  /\ dir' = UpdateWith(dir, files, resolved)
  /\ resorted' = TRUE
  /\ UNCHANGED scrolloff

FileInfo == /\ dir.loaded /\ ~dir.resolved
            /\ dir' = WithFileInfo(dir)
            /\ resorted' = FALSE
            /\ UNCHANGED scrolloff

\* sort_dir
Sort(order, salt) ==
  LET set == [type |-> order.type, dirfirst |-> order.dirfirst, reverse |-> order.reverse,
              hidden |-> dir.settings.hidden,
              salt |-> IF order.type = "random" THEN salt ELSE None]
      keyed == [IF order.type = "random" THEN RandomKeys(dir, salt) ELSE dir EXCEPT !.settings = set]
      sorted == DirSort(keyed, TRUE)
      file == CurrentFile(dir)
  IN /\ dir' = IF file = None THEN sorted ELSE MoveToName(sorted, Name[file])
     /\ resorted' = TRUE
     /\ UNCHANGED scrolloff

\* dir_set_hidden of a directory that is asked for; sort_and_reselect of one that is shown
SetHidden(hidden) ==
  /\ dir' = MoveToPtr(DirSort([dir EXCEPT !.settings.hidden = hidden], FALSE), CurrentFile(dir))
  /\ UNCHANGED <<scrolloff, resorted>>

Filter(filter) ==
  /\ dir' = MoveToPtr(ApplyFilters([dir EXCEPT !.filter = filter]), CurrentFile(dir))
  /\ UNCHANGED <<scrolloff, resorted>>

Cursor(d) == /\ dir' = d
             /\ UNCHANGED <<scrolloff, resorted>>
\* up, down, top, bottom, index = i, and the moves by scrolling
Move(ct) == Cursor(MoveCursor(dir, ct))
Jump(ind) == Cursor(SetCursor(dir, ind))
Scroll(ct) == Cursor(DirScroll(dir, ct))
Select(name) == Cursor(MoveToName(dir, name))

\* search_next_forward and search_next_backwards: the distance to the match
Match(d, found, sign, inclusive) ==
  LET at(i) == (d.ind + d.size + sign * i) % d.size
      hits == {i \in (IF inclusive THEN 0 ELSE 1)..d.size - 1 : d.data[at(i) + 1] \in found}
  IN IF hits = {} THEN -1 ELSE at(CHOOSE i \in hits : \A j \in hits : i <= j)
SearchNext(found, sign, inclusive) ==
  LET i == Match(dir, found, sign, inclusive)
  IN i >= 0 /\ Cursor(SetCursor(dir, i))

\* plane_draw_dir
Draw == dir.size > 0 /\ Cursor([dir EXCEPT !.pos = Row(dir)])

\* fm_on_resize, also called when the option scrolloff changes
Resized(d, h, s) ==
  LET off == IF h < 2 * s THEN h \div 2 ELSE s
      top == min(d.ind, off)
      low == IF Below(d.pos, h - d.size + d.ind) /\ d.size <= h + d.ind
             THEN h - d.size + d.ind ELSE d.pos
      pos == IF h >= d.height
             THEN IF d.size > h /\ Below(low, top) THEN top ELSE low
             ELSE IF off >= d.size - d.ind THEN h - (d.size - d.ind)
             ELSE IF Below(d.pos + off, h) THEN d.pos
             ELSE h - off - 1
  IN MoveCursor([d EXCEPT !.height = h, !.scrolloff = off, !.pos = pos], 0)
Resize(h, s) ==
  /\ dir' = Resized(dir, h, s)
  /\ scrolloff' = s
  /\ UNCHANGED resorted

Next == \/ \E files \in Disks, resolved \in BOOLEAN :
             (files \cap Links # {} \/ resolved) /\ Update(files, resolved)
        \/ FileInfo
        \/ \E order \in Orders, salt \in Salts : Sort(order, salt)
        \/ \E hidden \in BOOLEAN : SetHidden(hidden)
        \/ \E filter \in Filters \cup {None} : Filter(filter)
        \/ \E ct \in Steps : Move(ct) \/ Scroll(ct)
        \/ \E ind \in 0..dir.size : Jump(ind)
        \/ \E name \in Selectable : Select(name)
        \/ \E found \in Searches, sign \in {1, -1}, inclusive \in BOOLEAN :
             SearchNext(found, sign, inclusive)
        \/ Draw
        \/ \E h \in Heights : Resize(h, scrolloff)
        \/ \E s \in Scrolloffs : Resize(dir.height, s)

Spec == Init /\ [][Next]_vars

-----------------------------------------------------------------------------
(* Properties *)

TypeOK ==
  /\ dir.settings \in Settings
  /\ \A s \in {dir.all, dir.sorted, dir.data} : ToSet(s) \subseteq Entries
  /\ dir.size \in 0..Len(dir.data) /\ Len(dir.data) = Len(dir.all)
  /\ dir.filter \in Filters \cup {None}
  /\ dir.sel \in Selectable \cup {None}
  /\ dir.ind \in Nat /\ dir.pos \in Int /\ dir.height \in Heights /\ dir.scrolloff \in Nat
  /\ {dir.inOrder, dir.resolved, dir.loaded, resorted} \subseteq BOOLEAN
  /\ scrolloff \in Scrolloffs

\* e comes before f in what the user asked for.
Precedes(d, e, f) ==
  IF d.filter # None /\ d.filter.score # None THEN d.filter.score[e] > d.filter.score[f]
  ELSE LET group == d.settings.dirfirst /\ IsDir(d, e) # IsDir(d, f)
       IN IF group THEN IsDir(d, e)
          ELSE IF d.settings.reverse THEN Before(d, f, e) ELSE Before(d, e, f)

Exact(d) ==
  LET s == Listed(d)
      wanted == {e \in ToSet(d.all) :
                   /\ d.settings.hidden \/ e \notin Hidden
                   /\ d.filter # None => e \in d.filter.match}
  IN /\ ToSet(s) = wanted /\ Len(s) = Cardinality(wanted)
     /\ \A i, j \in 1..Len(s) : i < j => Precedes(d, s[i], s[j])
\* The listing is exactly the files that were read, without those hidden or
\* filtered out, each once, and in the order asked for, whatever orders,
\* filters and loads came before (dir_sort, apply_filters).  Three cases are
\* left out, see the README: hidden files shown without grouping (dir.c:185),
\* links resolved after the sort, and files that have no random key yet.
ListingIsExact ==
  LET excused == \/ dir.settings.hidden /\ ~dir.settings.dirfirst
                 \/ dir.settings.type = "size" /\ ~resorted
                 \/ dir.settings.type = "random" /\ \E e \in ToSet(dir.all) :
                      dir.key[e] # Rank["random"][dir.settings.salt][e]
  IN ~excused => Exact(dir)

\* dir.h:174 of dir_sort: "Sort `dir` with respect to `dir->hidden`,
\* `dir->dirfirst`, `dir->reverse`, `dir->sorttype`."
SortsAsAsked == dir.settings.type # "random" /\ resorted => Exact(dir)

\* The cursor stands at a file whenever there is one to stand at.
CursorAtFile == dir.size > 0 => dir.ind \in 0..dir.size - 1

\* The row highlighted is that of the current file (plane_draw_dir).
HighlightIsCurrent ==
  dir.size > 0 => Row(dir) >= 0 /\ Offset(dir) + Row(dir) = dir.ind

\* Positions in listing s of the files that satisfy P
At(s, P(_)) == {i \in 0..Len(s) - 1 : P(s[i + 1])}

\* A load that takes place now leaves the cursor on its file, renamed or not,
\* or takes it to the file to select, wherever that is in the new order; the
\* current file is highlighted, and no row is left empty while there are files
\* above the first row (dir_update_with, dir_cursor_move_to_sel, apply_scroll).
LoadKeepsPlace ==
  \A files \in Disks, resolved \in BOOLEAN :
    LET new == UpdateWith(dir, files, resolved)
        file == CurrentFile(dir)
        target == IF dir.sel # None THEN At(Listed(new), LAMBDA e : Name[e] = dir.sel)
                  ELSE IF file = None THEN {}
                  ELSE At(Listed(new), LAMBDA e : Ino[e] = Ino[file])
    IN new.size > 0 => /\ target # {} => new.ind \in target
                       /\ Row(new) >= 0 /\ Offset(new) + Row(new) = new.ind
                       /\ Offset(new) = 0 \/ new.size - Offset(new) >= new.height

\* dir.c:550: "will try to select the file the cursor is on, dev/inode take
\* priority in case of a rename. Otherwise, we use the name."
LoadFollowsName ==
  \A files \in Disks :
    LET new == UpdateWith(dir, files, TRUE)
        file == CurrentFile(dir)
    IN /\ dir.sel = None /\ file # None
       /\ At(Listed(new), LAMBDA e : Ino[e] = Ino[file]) = {}
       /\ At(Listed(new), LAMBDA e : Name[e] = Name[file]) # {}
       => Name[CurrentFile(new)] = Name[file]

\* Sorting, hiding, filtering and resolving links leave the cursor on its file
\* as long as that is listed (dir_move_cursor_to_ptr, sort_dir,
\* fileinfo_callback).  Only the first row stays put when links are resolved.
CursorKeepsFile ==
  [][LET file == CurrentFile(dir)
         target == At(Listed(dir'), LAMBDA e : e = file)
     IN file # None /\ target # {} /\ dir'.ind \notin target
        => /\ UNCHANGED <<dir.settings, dir.filter>>
           /\ FileInfo => dir.ind = 0]_vars

\* Once the highlight is on the current file it stays there while the listing
\* does not get shorter (dir_move_cursor, dir_scroll, fm_on_resize).
HighlightStays ==
  [][HighlightIsCurrent /\ dir'.size >= dir.size /\ dir.size > 0 => HighlightIsCurrent']_vars

\* Rows between the cursor and the edges of a listing longer than the screen
Margin(d) == d.size > d.height /\ d.height > 2 * d.scrolloff =>
  /\ d.pos >= min(d.scrolloff, d.ind)
  /\ d.pos <= max(d.height - 1 - d.scrolloff, d.height - d.size + d.ind)
\* Moving about keeps scrolloff lines around the cursor, where there are as many.
MovesKeepMargin ==
  [][/\ Margin(dir) /\ UNCHANGED <<dir.height, dir.scrolloff, dir.size, dir.data>>
     => Margin(dir')]_vars

\* From match to match the search goes through all of them in turn, forwards
\* and backwards being inverse (search_next_forward, search_next_backwards).
SearchCycles ==
  \A found \in Searches :
    LET matches == {i \in 0..dir.size - 1 : dir.data[i + 1] \in found}
        Goes(i, sign) == LET j == Match([dir EXCEPT !.ind = i], found, sign, FALSE)
                         IN IF j < 0 THEN i ELSE j
    IN /\ {Goes(i, 1) : i \in matches} = matches
       /\ \A i \in matches : Goes(Goes(i, 1), -1) = i
       /\ \A i \in 0..dir.size - 1 : matches # {} => Goes(i, -1) \in matches
=============================================================================
