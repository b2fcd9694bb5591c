-------------------------------- MODULE Rifle --------------------------------
(***************************************************************************)
(* Which programs open a file: the rules of lua/riflelib.c.  A rule is a   *)
(* line of conditions with a command; its conditions are tests of the file *)
(* and settings of the rule itself.  The algorithms are operators; a line  *)
(* is a sequence of conditions as they are written, and a command is known *)
(* by the number of its line.                                              *)
(***************************************************************************)
EXTENDS Integers, Sequences, FiniteSets, SequencesExt

CONSTANTS None,     \* an argument that is not there
          Written,  \* what is written: of each word its function, argument and "!"
          Hits,     \* texts that each pattern matches; others do not compile
          Exported, \* variables of the environment that are not empty
          Installed, \* what "command -v" finds
          Terminal, \* lfm runs in one
          KindOf,   \* of a file: "file", "directory", or "none" if there is none
          Path, Mime, \* realpath and mime type of a file
          NameOf,   \* the file from its last slash on
          Lower     \* lower-case letter of each upper-case flag

Bare == {"file", "directory", "terminal", "X", "W", "else"}
Patterns == {"ext", "path", "mime", "name", "match"}
Settings == {"label", "number", "flag"}

-----------------------------------------------------------------------------
(* Rules *)

\* rule_set_flags
SetFlags(flags, letters) ==
  (flags \cup (letters \ DOMAIN Lower)) \ {Lower[c] : c \in letters \cap DOMAIN Lower}

\* condition_create
Condition(rule, c) == [rule EXCEPT !.conditions = Append(@, c)]

\* The pattern of an extension is one of names, and not as it is written
Pattern(c) == <<IF c.func = "ext" THEN "ending" ELSE "any", c.arg>>
Compiles(c) == Pattern(c) \in DOMAIN Hits

\* condition_create_re: without a check it is not kept
WithPattern(rule, c) == IF Compiles(c) THEN Condition(rule, c) ELSE rule

\* rule_add_condition
AddCondition(rule, c) ==
  CASE ~rule.ok -> rule
    [] c.func \in Bare -> Condition(rule, c)
    [] c.arg = None \/ c.func \notin Settings \cup Patterns \cup {"env", "has"} ->
         [rule EXCEPT !.ok = FALSE]
    [] c.func = "label" -> [rule EXCEPT !.label = c.arg]
    [] c.func = "number" -> [rule EXCEPT !.number = c.arg]
    [] c.func = "flag" -> [rule EXCEPT !.flags = SetFlags(@, c.arg)]
    [] c.func = "mime" /\ ~c.not -> [WithPattern(rule, c) EXCEPT !.has_mime = TRUE]
    [] c.func \in Patterns -> WithPattern(rule, c)
    [] OTHER -> Condition(rule, c)

\* rule_init
Rule(line, command) ==
  FoldLeft(AddCondition,
           [ok |-> TRUE, command |-> command, conditions |-> <<>>, label |-> "", number |-> -1,
            has_mime |-> FALSE, flags |-> {}], line)

\* llua_parse_rules: those that are understood; commands are numbered from first on
Rules(lines, first) ==
  SelectSeq([i \in DOMAIN lines |-> Rule(lines[i], first - 1 + i)], LAMBDA r : r.ok)

\* load_rules: a line without a command, such as a comment, is no rule
FromFile(rules, lines, first) == rules \o Rules(lines, first)

\* l_rifle_setup
Setup(table, file) == FromFile(Rules(table, 1), file, Len(table) + 1)

-----------------------------------------------------------------------------
(* Queries *)

\* l_rifle_fileinfo; a query by mime type has no file
FileInfo(file) == [file |-> file, path |-> Path[file], mime |-> Mime[file]]
MimeOnly(mime) == [file |-> "", path |-> "", mime |-> mime]

\* The functions check_fn_*
Check(c, info) ==
  LET found == CASE c.func \in {"file", "directory"} -> KindOf[info.file] = c.func
                 [] c.func = "terminal" -> Terminal
                 [] c.func = "X" -> "DISPLAY" \in Exported
                 [] c.func = "W" -> "WAYLAND_DISPLAY" \in Exported
                 [] c.func = "env" -> c.arg \in Exported
                 [] c.func = "has" -> c.arg \in Installed
                 [] c.func = "else" -> TRUE
                 [] c.func = "path" -> info.path \in Hits[Pattern(c)]
                 [] c.func = "mime" -> info.mime \in Hits[Pattern(c)]
                 [] c.func \in {"name", "ext"} -> NameOf[info.file] \in Hits[Pattern(c)]
                 [] c.func = "match" -> info.file \in Hits[Pattern(c)]
  IN found # c.not

\* rule_check
RuleCheck(rule, info) == \A i \in DOMAIN rule.conditions : Check(rule.conditions[i], info)

\* l_rifle_query, l_rifle_query_mime: pick is a number, a label, or "" for all; a limit
\* of 0 is none
Picked(pick, rule, number) ==
  CASE pick.by = "number" -> number = pick.number
    [] pick.by = "label" -> rule.label = pick.label
    [] OTHER -> TRUE
Query(rules, info, mimeOnly, pick, limit) ==
  LET Step(s, rule) ==
        IF s.full \/ (mimeOnly /\ ~rule.has_mime) \/ ~RuleCheck(rule, info) THEN s
        ELSE LET number == IF rule.number > 0 THEN rule.number ELSE s.count
                 match == [command |-> rule.command, flags |-> rule.flags, number |-> number]
                 found == Append(s.found, match)
             IN IF ~Picked(pick, rule, number) THEN [s EXCEPT !.count = number + 1]
                ELSE [count |-> number + 1, found |-> found,
                      full |-> limit > 0 /\ Len(found) >= limit]
  IN FoldLeft(Step, [count |-> 0, found |-> <<>>, full |-> FALSE], rules).found

-----------------------------------------------------------------------------
(* Properties of rules that are typed *)

\* Conditions are typed one by one; ";" ends a line
Lines(text) ==
  FoldLeft(LAMBDA lines, w : IF w = ";" THEN Append(lines, <<>>)
                             ELSE Append(Front(lines), Append(Last(lines), Written[w])),
           << <<>> >>, text)
\* The first line is in the table given to setup, the others are in the file
Loaded(lines) == Setup(SubSeq(lines, 1, 1), Tail(lines))
All == [by |-> "all"]
Understood(line) ==
  \A i \in DOMAIN line :
    \/ line[i].func \in Bare
    \/ line[i].func \in Settings \cup Patterns \cup {"env", "has"} /\ line[i].arg # None
Tests(line) ==
  {line[i] : i \in {j \in DOMAIN line :
                      /\ line[j].func \notin Settings
                      /\ line[j].func \in Patterns => Compiles(line[j])}}
Sets(line, func) == {i \in DOMAIN line : line[i].func = func}

\* A file is opened by every line that is understood and whose tests all hold, in the
\* order of the lines, with the flags that were set last: a capital takes one back
\* wherever it stands.  A test whose pattern does not compile is as if it were not
\* there (see the README).
MatchesAreThoseMeant(lines, file) ==
  LET found == Query(Loaded(lines), FileInfo(file), FALSE, All, 0)
      Meant(n) == /\ Understood(lines[n])
                  /\ \A c \in Tests(lines[n]) : Check(c, FileInfo(file))
      Flag(line, f) == \E i \in Sets(line, "flag") :
        /\ f \in line[i].arg
        /\ \A j \in Sets(line, "flag") : j >= i => ~\E u \in line[j].arg \cap DOMAIN Lower : Lower[u] = f
  IN /\ {found[k].command : k \in DOMAIN found} = {n \in DOMAIN lines : Meant(n)}
     /\ \A k \in DOMAIN found :
          /\ \A j \in 1..k - 1 : found[j].command < found[k].command
          /\ \A f \in {Lower[u] : u \in DOMAIN Lower} :
               f \in found[k].flags <=> Flag(lines[found[k].command], f)

\* The menu offers the matches with their numbers (ask in rifle.lua); a number of it, or
\* a label, that is given to open is that match and no other with another number or
\* label, and a limit keeps the first.
PicksAreThoseOffered(lines, file) ==
  LET rules == Loaded(lines)
      Of(pick, limit) == Query(rules, FileInfo(file), FALSE, pick, limit)
      menu == Of(All, 0)
      picks == {[by |-> "number", number |-> menu[k].number] : k \in DOMAIN menu}
               \cup {[by |-> "label", label |-> l] : l \in {rules[i].label : i \in DOMAIN rules} \ {""}}
  IN \A pick \in picks :
       /\ Of(pick, 0) = SelectSeq(menu, LAMBDA m :
            IF pick.by = "number" THEN m.number = pick.number
            ELSE \E i \in DOMAIN rules : rules[i].command = m.command /\ rules[i].label = pick.label)
       /\ \A limit \in 1..2 : Of(pick, limit) = SubSeq(Of(pick, 0), 1, Min({limit, Len(Of(pick, 0))}))

\* A query by mime type alone answers with rules that ask for one, and that hold for
\* any file of that type unless they look at the file; its numbers count those rules.
MimeIsAsked(lines, file) ==
  LET found == Query(Loaded(lines), MimeOnly(Mime[file]), TRUE, All, 0)
      any == Query(Loaded(lines), FileInfo(file), FALSE, All, 0)
      LooksAtFile(line) == \E c \in Tests(line) : c.func \in
                             {"file", "directory", "path", "name", "ext", "match"}
      AsksMime(line) == \E i \in Sets(line, "mime") : ~line[i].not
  IN {found[k].command : k \in {j \in DOMAIN found : ~LooksAtFile(lines[found[j].command])}}
       = {any[k].command : k \in {j \in DOMAIN any :
            AsksMime(lines[any[j].command]) /\ ~LooksAtFile(lines[any[j].command])}}

\* Rules mean what is written.
RulesAsWritten(text) ==
  \A file \in DOMAIN Path \ {""} : /\ MatchesAreThoseMeant(Lines(text), file)
                                   /\ PicksAreThoseOffered(Lines(text), file)
                                   /\ MimeIsAsked(Lines(text), file)
==============================================================================
