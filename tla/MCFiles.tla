------------------------------- MODULE MCFiles -------------------------------
(***************************************************************************)
(* Model-checking instance of FileManager, DirView, DirReading, Matching,  *)
(* Paths and Rifle.  The components share nothing here: a behaviour is one *)
(* of the component in focus, while the others stay in an initial state.   *)
(* Paths, command lines and rules are texts typed in Matching.             *)
(***************************************************************************)
EXTENDS FileManager, TLC

VARIABLES focus,
          dir, scrolloff, resorted,
          onDisk, mtime, clock, changes, reader, listing, stop, disturbed, sloppy,
          kind, text, filter

CONSTANTS Entries, Name, Ino, Hidden, Folders, Links, Rank, Salts, Disks, ReadOrder, Orders,
          Filters, Searches, Heights, Scrolloffs, Steps, Selectable,
          Changing, Unreadable, Levels, TrimAbove, MaxChanges, MaxTime, MaxLoads,
          Typed, MaxLen, Files, Names, Garbage, Digits, Spaces, Upper, Letters, Fold, Value, Unit,
          Home, Pwd, BufSize, Behind,
          a, b, d, h, l, a2, a3

MCIn == "d" :> "r" @@ "u" :> "r" @@ "l" :> "r" @@ "f" :> "d" @@ "s" :> "d" @@ "t" :> "s"
        @@ "g" :> "u"
MCTarget == "l" :> "s"

D == INSTANCE DirView
R == INSTANCE DirReading WITH exists <- onDisk, Entries <- DOMAIN MCIn, Folders <- {"d", "u", "s"},
                              Links <- {"l"}, In <- MCIn, Target <- MCTarget, Root <- "r",
                              Hidden <- {"d"}
M == INSTANCE Matching
P == INSTANCE Paths

Cond(func, arg, not) == [func |-> func, arg |-> arg, not |-> not]
MCWritten ==
  "!X" :> Cond("X", None, TRUE) @@ "file" :> Cond("file", None, FALSE)
  @@ "else" :> Cond("else", None, FALSE) @@ "has" :> Cond("has", None, FALSE)
  @@ "ext f" :> Cond("ext", "f", FALSE) @@ "!mime t" :> Cond("mime", "t", TRUE)
  @@ "mime t" :> Cond("mime", "t", FALSE) @@ "mime (" :> Cond("mime", "(", FALSE)
  @@ "number 2" :> Cond("number", 2, FALSE) @@ "label e" :> Cond("label", "e", FALSE)
  @@ "flag fT" :> Cond("flag", {"f", "T"}, FALSE) @@ "flag Ft" :> Cond("flag", {"F", "t"}, FALSE)
L == INSTANCE Rifle WITH
       Written <- MCWritten,
       Hits <- <<"any", "t">> :> {"text"} @@ <<"ending", "f">> :> {"/d.f"},
       Exported <- {"DISPLAY"}, Installed <- {}, Terminal <- TRUE,
       KindOf <- "" :> "none" @@ "/d.f" :> "file" @@ "/d" :> "directory",
       Path <- "" :> "" @@ "/d.f" :> "/d.f" @@ "/d" :> "/d",
       Mime <- "/d.f" :> "text" @@ "/d" :> "inode",
       NameOf <- "" :> "" @@ "/d.f" :> "/d.f" @@ "/d" :> "/d",
       Lower <- "F" :> "f" @@ "T" :> "t"

ASSUME TreeAssumption /\ ColumnsAssumption
ASSUME D!DisksAssumption /\ D!SizesAssumption
ASSUME R!TreeAssumption /\ P!HomeAssumption

MCUp == "a" :> "/" @@ "b" :> "/" @@ "a/c" :> "a"
MCInode == "/" :> 1 @@ "a" :> 2 @@ "b" :> 1 @@ "a/c" :> 3

MCEntries == {a, b, d, h, l, a2, a3}
MCName == (a :> "a" @@ b :> "b" @@ d :> "d" @@ h :> ".h" @@ l :> "l" @@ a2 :> "x" @@ a3 :> "a")
MCIno == (a :> 5 @@ b :> 2 @@ d :> 3 @@ h :> 4 @@ l :> 1 @@ a2 :> 5 @@ a3 :> 6)
MCRank == [t \in {"natural", "size", "random"} |->
  CASE t = "natural" -> (h :> 0 @@ a :> 1 @@ a3 :> 1 @@ b :> 2 @@ d :> 3 @@ l :> 4 @@ a2 :> 5)
    [] t = "size" -> (h :> 2 @@ a :> 2 @@ a3 :> 3 @@ b :> 1 @@ d :> 4 @@ l :> 3 @@ a2 :> 2)
    [] t = "random" ->
         1 :> (h :> 2 @@ a :> 6 @@ a3 :> 6 @@ b :> 1 @@ d :> 5 @@ l :> 3 @@ a2 :> 4)]
MCOrders == {[type |-> "size", dirfirst |-> FALSE, reverse |-> TRUE],
             [type |-> "random", dirfirst |-> TRUE, reverse |-> TRUE]}
MCDisks == {{}, {a, d, h, l}, {a2, d, h}}
MCSaved == {{a, d}, {a3, d}}
MCFilters == {[match |-> {a, d, h}, score |-> None],
              [match |-> {d, a, l}, score |-> (a :> 1 @@ d :> 2 @@ l :> 3)]}
MCReadOrder == <<l, a, d, h, b, a2, a3>>
MCSteps == {-1, 2}
MCSearches == {{a, l, d}, {h, a}}

Strings(chars, n) == UNION {[1..k -> chars] : k \in 0..n}
MCTyped == ("general" :> {"!", "|", " ", "s", ">", "=", "2", "k", "x"}
            @@ "fuzzy" :> {"a", "A", "b", "-"} @@ "natural" :> {"0", "1", "a", " "}
            @@ "path" :> {"/", ".", "~", "a"} @@ "line" :> {"a", " ", "\"", "\\"}
            @@ "rules" :> DOMAIN MCWritten \cup {";"})
MCMaxLen == ("general" :> 5 @@ "fuzzy" :> 3 @@ "natural" :> 3 @@ "path" :> 7 @@ "line" :> 6 @@ "rules" :> 4)
MCFiltered == {[name |-> <<"x">>, size |-> 2], [name |-> <<"s", "x">>, size |-> 3],
            [name |-> <<"k", "x", "k">>, size |-> 9], [name |-> <<"2">>, size |-> 1]}
MCMatched == ("general" :> {} @@ "natural" :> Strings({"0", "1", "a", " "}, 3)
            @@ "fuzzy" :> [1..4 -> {"a", "A", "b", "-"}])
Chars == {"!", "|", " ", "s", ">", "=", "2", "k", "x", "a", "A", "b", "-", "0", "1", "end"}
MCFold == [c \in Chars |-> IF c = "A" THEN "a" ELSE c]
MCValue == [c \in Chars |-> CASE c = "end" -> -2 [] c = " " -> -1 [] c = "0" -> 0 [] c = "1" -> 1
                              [] c = "2" -> 2 [] OTHER -> 9]

MCHome == <<"/", "a", "a">>
MCPwd == <<"/", "a", "/", ".", "a">>
MCBehind == {<<>>, <<".", ".", "/">>}

dirVars == <<dir, scrolloff, resorted>>
readVars == <<onDisk, mtime, clock, changes, reader, listing, stop, disturbed, sloppy>>
textVars == <<kind, text, filter>>
allVars == <<focus, vars, dirVars, readVars, textVars>>

InitAll ==
  /\ focus \in {"manager", "view", "reading", "matching"}
  /\ Init /\ D!Init /\ R!Init /\ M!Init
  /\ fm.pwd = IF focus = "manager" THEN "a" ELSE Root
  /\ focus # "view" => dir.height = 2 /\ ~dir.settings.hidden
  /\ focus # "matching" => kind = "general"

NextAll ==
  /\ UNCHANGED focus
  /\ \/ focus = "manager" /\ Next /\ UNCHANGED <<dirVars, readVars, textVars>>
     \/ focus = "view" /\ D!Next /\ UNCHANGED <<vars, readVars, textVars>>
     \/ focus = "reading" /\ R!Next /\ UNCHANGED <<vars, dirVars, textVars>>
     \/ focus = "matching" /\ M!Next /\ UNCHANGED <<vars, dirVars, readVars>>

SpecAll == InitAll /\ [][NextAll]_allVars

\* The properties of FileManager are checked by their own names, those of the others
\* by the names below.
\* The panes hold directories, and in each the listing is what was asked for, with the
\* cursor in it, and the search finds every match.
ViewConsistent ==
  /\ TypeOK
  /\ focus = "view" => D!TypeOK /\ D!ListingIsExact /\ D!CursorAtFile /\ D!SearchCycles
LoadKeepsPlace == focus = "view" => D!LoadKeepsPlace
\* Sorting, filtering, scrolling and moving keep the cursor on its file, in sight and
\* off the edges.
MovesKeepPlace == D!CursorKeepsFile /\ D!HighlightStays /\ D!MovesKeepMargin
\* What is read is what is below the directory, and its counts are right.
ReadingIsExact ==
  focus = "reading" => R!TypeOK /\ R!FilesAreThoseBelow /\ R!CountsAreRight
\* A filter, a fuzzy match, the order of names, the words of a command line and the
\* rules that open files mean what is written.
MatchesAsWritten ==
  focus = "matching" => /\ M!TypeOK /\ M!FilterMeansText /\ M!ScoreIsBest /\ M!NaturalIsOrder
                        /\ kind = "line" => P!LineIsTokenized(text)
                        /\ kind = "rules" => L!RulesAsWritten(text)
PathsAreResolved == focus = "matching" /\ kind = "path" => P!PathIsResolved(text)
=============================================================================
