-------------------------------- MODULE Paths --------------------------------
(***************************************************************************)
(* How paths and command lines are taken apart and put together (path.c,   *)
(* tokenize.c, remove_trailing_slash of loader.c).  The algorithms are     *)
(* operators; a path is a sequence of characters, an index counts from 1.  *)
(***************************************************************************)
EXTENDS Integers, Sequences, SequencesExt

CONSTANTS Home,    \* the environment variable HOME
          Pwd,     \* the directory relative paths start from
          BufSize, \* of the buffers paths are written to
          Behind   \* what memory may hold behind a path without a NUL

HomeAssumption == Head(Home) = "/" /\ Last(Home) # "/" /\ Head(Pwd) = "/"

Slash == <<"/">>
CharAt(s, i) == IF i \in 1..Len(s) THEN s[i] ELSE "end"
LastSlash(path) == SelectLastInSeq(path, LAMBDA c : c = "/")

-----------------------------------------------------------------------------
(* Paths *)

\* path_clean: what is read character by character is written to out, /. skipped and
\* /.. taking the last component back; behind the path the buffer goes on
CleanAnyDots(path, behind) ==
  LET At(i) == CharAt(path \o behind, i)
      Ends(i) == At(i) \in {"/", "end"}
      Step(s, i) ==
        CASE s.skip > 0 -> [s EXCEPT !.skip = @ - 1]
          [] path[i] # "/" -> [s EXCEPT !.out = Append(@, path[i])]
          [] At(i + 1) = "/" -> s
          [] At(i + 1) = "." /\ Ends(i + 2) -> [s EXCEPT !.skip = 1]
          [] At(i + 1) = "." /\ At(i + 2) = "." ->
               [skip |-> 2, out |-> SubSeq(s.out, 1, LastSlash(s.out) - 1)]
          [] OTHER -> [s EXCEPT !.out = Append(@, "/")]
      out == FoldLeft(Step, [skip |-> 0, out |-> <<>>], [i \in 1..Len(path) |-> i]).out
  IN IF out = <<>> THEN Slash ELSE IF Len(out) > 1 /\ Last(out) = "/" THEN Front(out) ELSE out
Clean(path, behind) ==
  LET At(i) == CharAt(path \o behind, i)
      Ends(i) == At(i) \in {"/", "end"}
      Step(s, i) ==
        CASE s.skip > 0 -> [s EXCEPT !.skip = @ - 1]
          [] path[i] # "/" -> [s EXCEPT !.out = Append(@, path[i])]
          [] At(i + 1) = "/" -> s
          [] At(i + 1) = "." /\ Ends(i + 2) -> [s EXCEPT !.skip = 1]
          [] At(i + 1) = "." /\ At(i + 2) = "." /\ Ends(i + 3) ->
               [skip |-> 2, out |-> SubSeq(s.out, 1, LastSlash(s.out) - 1)]
          [] OTHER -> [s EXCEPT !.out = Append(@, "/")]
      out == FoldLeft(Step, [skip |-> 0, out |-> <<>>], [i \in 1..Len(path) |-> i]).out
  IN IF out = <<>> THEN Slash ELSE IF Len(out) > 1 /\ Last(out) = "/" THEN Front(out) ELSE out

\* path_normalize3; the NUL counts for absolute paths only.  Empty: too long
Normalize(path, behind) ==
  CASE path = <<"~">> -> IF Len(Home) > BufSize THEN <<>> ELSE Clean(Home, behind)
    [] CharAt(path, 1) = "~" /\ CharAt(path, 2) = "/" ->
         IF Len(Home) + Len(path) - 1 > BufSize THEN <<>> ELSE Clean(Home \o Tail(path), <<>>)
    [] CharAt(path, 1) = "/" -> IF Len(path) + 1 > BufSize THEN <<>> ELSE Clean(path, <<>>)
    [] OTHER -> IF Len(Pwd) + Len(path) + 1 > BufSize THEN <<>>
                ELSE Clean(Pwd \o Slash \o path, <<>>)

\* path_replace_tilde
ReplaceTilde(path) == IF CharAt(path, 1) = "~" /\ CharAt(path, 2) = "/"
                      THEN Home \o Tail(path) ELSE path

\* basename_zv
Basename(path) == IF path = <<>> THEN <<".">>
                  ELSE SubSeq(path, LastSlash(path) + 1, Len(path))
\* dirname_cstr, and dirname of a path that does not end with a slash
Dirname(path) == LET n == LastSlash(path)
                 IN IF n = 0 THEN <<".">> ELSE IF n = 1 THEN Slash ELSE SubSeq(path, 1, n - 1)
\* path_parent_zv
Parent(path) == IF path \in {<<>>, Slash} THEN <<>> ELSE Dirname(path)

\* path_concat; empty: too long
Concat(dir, name) == IF Len(dir) + Len(name) + 2 > BufSize THEN <<>>
                     ELSE dir \o (IF Len(dir) > 1 THEN Slash ELSE <<>>) \o name

\* remove_trailing_slash, of one slash
RemoveTrailingSlash(path) == IF Len(path) > 1 /\ Last(path) = "/" THEN Front(path) ELSE path

\* name_ext: from the last dot, unless that is the first character
Extension(name) == LET dot == SelectLastInSeq(name, LAMBDA c : c = ".")
                   IN IF dot > 1 THEN SubSeq(name, dot, Len(name)) ELSE <<>>

-----------------------------------------------------------------------------
(* Command lines *)

\* tokenize, called until nothing is left: a closing quote ends a token, a backslash
\* keeps a space
Tokens(line) ==
  LET Done(s) == [s EXCEPT !.tokens = Append(@, s.token), !.token = <<>>, !.in = "gap"]
      Add(s, chars) == [s EXCEPT !.token = @ \o chars, !.in = "token"]
      Step(s, c) ==
        CASE s.in = "quotes" -> IF c = "\"" THEN Done(s) ELSE [Add(s, <<c>>) EXCEPT !.in = "quotes"]
          [] s.in = "escape" -> Add(s, IF c = " " THEN <<c>> ELSE <<"\\", c>>)
          [] c = " " -> IF s.in = "gap" THEN s ELSE Done(s)
          [] c = "\"" -> [s EXCEPT !.in = "quotes"]
          [] c = "\\" -> [s EXCEPT !.in = "escape"]
          [] OTHER -> Add(s, <<c>>)
      end == FoldLeft(Step, [in |-> "gap", token |-> <<>>, tokens |-> <<>>], line)
  IN IF end.in = "gap" THEN end.tokens ELSE Done(end).tokens

-----------------------------------------------------------------------------
(* Properties of a text *)

\* The parts of s between separators, empty ones among them
Split(s, sep) ==
  FoldLeft(LAMBDA parts, c : IF c = sep THEN Append(parts, <<>>)
                             ELSE Append(Front(parts), Append(Last(parts), c)),
           << <<>> >>, s)
Join(parts) == FoldLeft(LAMBDA path, part : path \o Slash \o part, <<>>, parts)

Whole(text) == CASE text = <<"~">> -> Home
                 [] CharAt(text, 1) = "~" /\ CharAt(text, 2) = "/" -> Home \o Tail(text)
                 [] CharAt(text, 1) = "/" -> text
                 [] OTHER -> Pwd \o Slash \o text
\* The directories and files on the way, without those that are left again
Resolved(text) ==
  LET Go(way, part) == CASE part \in {<<>>, <<".">>} -> way
                         [] part = <<".", ".">> -> IF way = <<>> THEN way ELSE Front(way)
                         [] OTHER -> Append(way, part)
      way == FoldLeft(Go, <<>>, Split(Whole(text), "/"))
  IN IF way = <<>> THEN Slash ELSE Join(way)

\* A path that is typed, absolute, relative or in the home directory, becomes the one
\* that leads there without detours, whatever . and .. and slashes it has, in place and
\* with what is left in memory behind it; that one is stable, and its directory and its
\* name make it up again, which the cache of directories, its parents and the names of
\* files rely on.
PathIsResolved(text) ==
  \A behind \in Behind :
    LET path == Normalize(text, behind)
    IN /\ Len(Whole(text)) < BufSize => path # <<>>
       /\ path # <<>> =>
            /\ path = Resolved(text)
            /\ Normalize(path, behind) \in {path, <<>>}
            /\ RemoveTrailingSlash(path) = path
            /\ path # Slash => /\ Concat(Parent(path), Basename(path)) \in {path, <<>>}
                              /\ Basename(path) \notin {<<".">>, <<".", ".">>, <<>>}
                              /\ Len(Parent(path)) < Len(path)
            /\ Resolved(ReplaceTilde(text)) = path
            /\ Resolved(RemoveTrailingSlash(Whole(text))) = path
            /\ LET ext == Extension(Basename(path))
               IN ext # <<>> => /\ Last(Split(Basename(path), ".")) = Tail(ext)
                                /\ Len(ext) < Len(Basename(path))

\* Words of a command line are found wherever spaces and quotes are, nothing between
\* them is lost, and quoted they are found again.  A line that ends with a backslash is
\* left out: what is behind it in memory is read.
LineIsTokenized(text) ==
  LET tokens == Tokens(text)
      Quoted(t) == <<"\"">> \o t \o <<"\"">>
      Plain(s) == SelectSeq(s, LAMBDA c : c \notin {" ", "\"", "\\"})
  IN text = <<>> \/ Last(text) # "\\" =>
       /\ Plain(FlattenSeq(tokens)) = Plain(text)
       /\ Plain(text) = text \/ SelectSeq(text, LAMBDA c : c \in {"\"", "\\"}) = <<>>
            => tokens = SelectSeq(Split(text, " "), LAMBDA t : t # <<>>)
       /\ (\A t \in ToSet(tokens) : ~Contains(t, "\"")) =>
            Tokens(FlattenSeq([i \in DOMAIN tokens |-> Quoted(tokens[i])])) = tokens
==============================================================================
