------------------------------ MODULE Selection ------------------------------
(***************************************************************************)
(* The selection of files, visual mode and the paste buffer                *)
(* (selection.c, visual.c, pathlist.c, and their callers in lua/fmlib.c,   *)
(* lua/dir.c and input.c).                                                 *)
(*                                                                         *)
(* A path list is the set of its paths; the order, which is that of the    *)
(* additions, is left out, and so are the mode of the paste buffer (copy    *)
(* or move) and the hooks that announce changes.                           *)
(* Positions count from 0, as in the code.                                 *)
(***************************************************************************)
EXTENDS Integers, Sequences

CONSTANTS Paths,
          Listings,   \* what the current directory may list, in which order
          Counts,     \* arguments of up and down
          Picks       \* sets of paths that Lua passes

ASSUME ListingsAssumption ==
         Listings \subseteq {f \in Seq(Paths) :
                              \A i, j \in 1..Len(f) : f[i] = f[j] => i = j}
ASSUME InputsAssumption == Counts \subseteq Int /\ Picks \subseteq SUBSET Paths

VARIABLES files,      \* dir->files of the current directory
          ind,        \* dir->ui.ind, the cursor
          sel,        \* dir->view.sel is set: a file to select once it is there
          current,    \* selection.current
          previous,   \* selection.previous
          keep,       \* selection.keep_in_visual
          active,     \* visual.active
          anchor,     \* visual.anchor
          visual,     \* is "visual" the current mode?
          buffer,     \* paste.buffer
          overread    \* a position beyond the listing was read

vars == <<files, ind, sel, current, previous, keep, active, anchor, visual, buffer,
          overread>>
cursor == <<files, ind, sel>>
selection == <<current, previous>>
visualmode == <<keep, active, anchor, visual>>

File(i) == files[i + 1]
Smaller(a, b) == IF a < b THEN a ELSE b

\* dir_current_file, as the set of it
CurrentFile == IF ind < Len(files) THEN {File(ind)} ELSE {}

Toggle(set, paths) == (set \ paths) \cup (paths \ set)

\* the nearest position there is, the first if there is none
Nearest(i, f) == IF Len(f) = 0 THEN 0 ELSE Smaller(i, Len(f) - 1)

Init == /\ files \in Listings /\ ind = 0 /\ sel \in BOOLEAN
        /\ current = {} /\ previous = {} /\ keep = {}
        /\ active = FALSE /\ anchor = 0 /\ visual = FALSE
        /\ buffer = {}
        /\ overread = FALSE

-----------------------------------------------------------------------------
(* Visual mode *)

\* mutant: the range goes one file too far when it shrinks
TouchedTooFar(from, to) ==
  IF from >= anchor
  THEN IF to > from THEN from + 1 .. to
       ELSE IF to < anchor THEN to .. from ELSE to .. from
  ELSE IF to < from THEN to .. from - 1
       ELSE IF to > anchor THEN from .. to ELSE from .. to - 1

\* the positions lo..hi of visual_update_selection
Touched(from, to) ==
  IF from >= anchor
  THEN IF to > from THEN from + 1 .. to
       ELSE IF to < anchor THEN to .. from ELSE to + 1 .. from
  ELSE IF to < from THEN to .. from - 1
       ELSE IF to > anchor THEN from .. to ELSE from .. to - 1

\* mutant: files of the old selection are toggled like others
UpdateSelectionAll(from, to) ==
  IF \E i \in Touched(from, to) : i >= Len(files)
  THEN overread' = TRUE /\ UNCHANGED current
  ELSE /\ current' = Toggle(current, {File(i) : i \in Touched(from, to)})
       /\ UNCHANGED overread

\* visual_update_selection
UpdateSelection(from, to) ==
  IF \E i \in Touched(from, to) : i >= Len(files)
  THEN overread' = TRUE /\ UNCHANGED current
  ELSE /\ current' = Toggle(current, {File(i) : i \in Touched(from, to)} \ keep)
       /\ UNCHANGED overread

\* dir_move_cursor
Moved(ct) == IF ind + ct < 0 THEN 0 ELSE Nearest(ind + ct, files)

\* l_up, l_down, l_top, l_bot, move_cursor in lua/dir.c
MoveCursor(ct) ==
  /\ Moved(ct) # ind
  /\ ind' = Moved(ct)
  /\ IF active THEN UpdateSelection(ind, Moved(ct))
               ELSE UNCHANGED <<current, overread>>
  /\ UNCHANGED <<files, sel, previous, visualmode, buffer>>

\* l_scroll_up, l_scroll_down, search_next: the selection is left alone
JumpCursor ==
  /\ \/ \E i \in 0 .. Len(files) - 1 : ind' = i
     \/ Len(files) = 0 /\ ind' = 0
  /\ UNCHANGED <<files, sel, selection, visualmode, buffer, overread>>

\* dir_move_cursor_to_name; the name of a file that is not listed
\* is kept if nothing is
SelectName ==
  /\ IF Len(files) = 0
     THEN sel' = TRUE /\ UNCHANGED ind
     ELSE ind' \in 0 .. Len(files) - 1 /\ UNCHANGED sel
  /\ UNCHANGED <<files, selection, visualmode, buffer, overread>>

\* lfm_mode_enter for "visual", visual_on_enter
EnterVisual ==
  /\ ~visual /\ visual' = TRUE
  /\ IF active \/ Len(files) = 0
     THEN UNCHANGED <<current, keep, active, anchor, overread>>
     ELSE IF CurrentFile = {}   \* file_path(NULL)
     THEN overread' = TRUE /\ UNCHANGED <<current, keep, active, anchor>>
     ELSE /\ active' = TRUE
          /\ anchor' = ind
          /\ current' = current \cup CurrentFile
          /\ keep' = current'
          /\ UNCHANGED overread
  /\ UNCHANGED <<cursor, previous, buffer>>

\* visual_on_exit, if the mode is "visual"
ExitVisual == /\ visual' = FALSE
              /\ active' = FALSE
              /\ anchor' = 0
              /\ keep' = {}

LeaveVisual ==
  /\ visual
  /\ ExitVisual
  /\ UNCHANGED <<cursor, selection, buffer, overread>>

-----------------------------------------------------------------------------
(* The listing changes *)

\* The position in f of the file of the cursor, if it is in f
Follows(f) == \E i \in 1..Len(f) : f[i] \in CurrentFile /\ ind' = i - 1
Lost(f) == \A i \in 1..Len(f) : f[i] \notin CurrentFile

\* dir_sort or dir_filter, then dir_move_cursor_to_ptr: the same files are
\* arranged, hidden or filtered differently
Resort(f) ==
  /\ files' = f
  /\ Follows(f) \/ (Lost(f) /\ ind' = Nearest(ind, f))
  /\ UNCHANGED <<sel, selection, visualmode, buffer, overread>>

\* dir_update_with: there may be other files.  If there are none at all and a
\* file is to be selected, dir_sort and dir_cursor_move_to_sel leave the cursor.
Reload(f) ==
  /\ files' = f
  /\ IF sel /\ Len(f) > 0
     THEN ind' \in 0 .. Len(f) - 1 /\ sel' = FALSE
     ELSE /\ \/ Follows(f)
             \/ Lost(f) /\ ind' = Nearest(ind, f)
             \/ sel /\ UNCHANGED ind
          /\ UNCHANGED sel
  /\ UNCHANGED <<selection, visualmode, buffer, overread>>

\* the current directory is another one, with a cursor of its own
Enter(f) == /\ files' = f
            /\ ind' \in 0 .. Nearest(Len(f), f)

\* l_updir: the directory that is left is selected
Updir(f) ==
  /\ Enter(f)
  /\ sel' = TRUE \/ (Len(f) > 0 /\ sel' = FALSE)
  /\ UNCHANGED <<selection, visualmode, buffer, overread>>

\* l_chdir, l_open
Chdir(f) ==
  /\ Enter(f) /\ sel' \in BOOLEAN
  /\ ExitVisual
  /\ UNCHANGED <<selection, buffer, overread>>

-----------------------------------------------------------------------------
(* Selecting *)

\* l_toggle_selection
ToggleSelection ==
  /\ CurrentFile # {}
  /\ current' = Toggle(current, CurrentFile)
  /\ UNCHANGED <<cursor, previous, visualmode, buffer, overread>>

\* selection_reverse
ReverseSelection ==
  /\ current' = Toggle(current, {files[i] : i \in 1..Len(files)})
  /\ UNCHANGED <<cursor, previous, visualmode, buffer, overread>>

\* l_add_selection; less is added if it meets a path that is too long
AddSelection(paths) ==
  /\ current' = current \cup paths
  /\ UNCHANGED <<cursor, previous, visualmode, buffer, overread>>

\* previous after selection_clear
Cleared == IF current = {} THEN previous ELSE current

\* mutant: what was selected is not kept
SetSelectionForgetting(paths) ==
  /\ previous' = previous
  /\ ExitVisual
  /\ current' = paths
  /\ UNCHANGED <<cursor, buffer, overread>>

\* l_set_selection; less is set if it meets a path that is too long
SetSelection(paths) ==
  /\ previous' = Cleared
  /\ ExitVisual
  /\ current' = paths
  /\ UNCHANGED <<cursor, buffer, overread>>

\* l_restore_selection
RestoreSelection ==
  /\ current' = previous
  /\ previous' = current
  /\ UNCHANGED <<cursor, visualmode, buffer, overread>>

-----------------------------------------------------------------------------
(* The paste buffer *)

\* l_copy, l_cut: paste_mode_set
Take ==
  /\ ExitVisual
  /\ buffer' = IF current = {} THEN CurrentFile ELSE current
  /\ current' = {}
  /\ UNCHANGED <<cursor, previous, overread>>

\* l_set_paste_buffer; nothing is set if the mode is not one
SetPasteBuffer(paths) ==
  /\ previous' = IF buffer = {} THEN previous ELSE buffer
  /\ buffer' = paths
  /\ UNCHANGED <<cursor, current, visualmode, overread>>

\* handle_esc_idle: the selection is cleared, then the paste buffer
Escape ==
  /\ current' = {}
  /\ previous' = IF buffer = {} THEN Cleared ELSE buffer
  /\ buffer' = {}
  /\ ExitVisual
  /\ UNCHANGED <<cursor, overread>>

-----------------------------------------------------------------------------
CursorMoves == \E ct \in Counts : MoveCursor(ct)
Resorts == \E f \in Listings : Resort(f)
Reloads == \E f \in Listings : Reload(f)
Updirs == \E f \in Listings : Updir(f)
Chdirs == \E f \in Listings : Chdir(f)
Adds == \E paths \in Picks : AddSelection(paths)
Sets == \E paths \in Picks : SetSelection(paths)
PasteSets == \E paths \in Picks : SetPasteBuffer(paths)

Next ==
  \/ CursorMoves \/ JumpCursor \/ SelectName \/ EnterVisual \/ LeaveVisual
  \/ Resorts \/ Reloads \/ Updirs \/ Chdirs
  \/ ToggleSelection \/ ReverseSelection \/ Adds \/ Sets \/ RestoreSelection
  \/ Take \/ PasteSets \/ Escape

Spec == Init /\ [][Next]_vars
-----------------------------------------------------------------------------
(* Properties *)

\* The cursor is on a file whenever there are files.
TypeOK == /\ files \in Listings /\ ind \in Nat /\ sel \in BOOLEAN
          /\ Len(files) > 0 => ind < Len(files)
          /\ current \subseteq Paths /\ previous \subseteq Paths
          /\ keep \subseteq Paths /\ buffer \subseteq Paths
          /\ active \in BOOLEAN /\ visual \in BOOLEAN /\ overread \in BOOLEAN
          /\ anchor \in Nat

\* The positions from the anchor to the cursor
Between == IF anchor <= ind THEN anchor .. ind ELSE ind .. anchor

\* What visual mode is meant to show: the files that were selected before it and
\* those from the anchor to the cursor, the file at the anchor being of both.
Exact == /\ ind < Len(files) /\ anchor < Len(files) /\ File(anchor) \in keep
         /\ current = keep \cup {File(i) : i \in Between}

\* Visual mode starts with an exact selection, and each move of the cursor, by
\* however much and to whichever side of the anchor, makes it exact again.
VisualFollowsCursor ==
  [][/\ EnterVisual /\ ~active /\ active' => Exact'
     /\ CursorMoves /\ active /\ Exact => Exact']_vars

\* Whatever became of the listing and the selection in visual mode, a move of
\* the cursor changes the state of no file it did not pass, and of no file that
\* was selected before ("never unselect the old selection").
Passed == IF ind <= ind' THEN ind .. ind' ELSE ind' .. ind
MovesTouchPassedOnly ==
  [][active /\ ind' # ind /\ files' = files =>
       \A p \in Toggle(current, current') :
         p \notin keep /\ \E i \in Passed : i < Len(files) /\ p = File(i)]_vars

\* No list of paths is lost by a clear: a selection goes to the previous selection
\* or the paste buffer, a paste buffer to the previous selection.  Escape clears
\* both, which leaves the paste buffer only; copy and cut replace a paste buffer;
\* toggling files of the listing is no clear.
ClearedCanBeRestored ==
  [][/\ \/ current \subseteq current' \cup previous' \cup buffer'
        \/ buffer # {} /\ previous' = buffer
        \/ /\ UNCHANGED <<previous, buffer>>
           /\ current \ current' \subseteq {files[i] : i \in 1..Len(files)}
     /\ \/ buffer \subseteq buffer' \cup previous'
        \/ Take]_vars

\* vec.h:200: the positions of the listing that visual mode reads exist.
NoOverread == ~overread
=============================================================================
