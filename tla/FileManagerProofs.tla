-------------------------- MODULE FileManagerProofs --------------------------
(***************************************************************************)
(* Proofs about FileManager, for every tree of directories, every number   *)
(* of columns, every sharing of inodes, and whatever may be watched or     *)
(* entered.                                                                *)
(***************************************************************************)
EXTENDS FileManager, WellFoundedInduction, TLAPS

-----------------------------------------------------------------------------
(* Ancestors are what their recursive definition says *)

\* A set of numbers has a least one.
LEMMA NatMin ==
  ASSUME NEW T \in SUBSET Nat, T # {}
  PROVE  \E n \in T : \A m \in T : ~(m < n)
<1> DEFINE R == OpToRel(<, Nat)
<1>1. IsWellFoundedOn(R, Nat)
  BY NatLessThanWellFounded
<1>2. PICK n \in T : \A m \in T : ~(<<m, n>> \in R)
  <2> HIDE DEF R
  <2> QED
    BY <1>1, WFMin
<1>3. \A m \in T : m < n => <<m, n>> \in R
  BY DEF OpToRel
<1> QED
  BY <1>2, <1>3

\* g is Ancestors as far as m.
AsFar(g, m) == g = [n \in 0..m |-> IF n = 0 THEN [d \in Dirs |-> <<>>] ELSE Further(g[n - 1])]

\* What is so far agrees with what is further.
LEMMA AsFarUnique ==
  ASSUME NEW g, NEW h, NEW m \in Nat, NEW n \in Nat, AsFar(g, m), AsFar(h, n),
         NEW i \in Nat, i <= m, i <= n
  PROVE  g[i] = h[i]
<1> DEFINE T == {j \in Nat : j <= i /\ g[j] # h[j]}
<1>1. SUFFICES ASSUME T # {} PROVE FALSE
  OBVIOUS
<1>2. PICK j \in T : \A k \in T : ~(k < j)
  BY <1>1, NatMin
<1>3. g[j] # h[j] /\ j \in 0..m /\ j \in 0..n
  OBVIOUS
<1>4. j # 0
  BY <1>3 DEF AsFar
<1>5. g[j - 1] = h[j - 1]
  BY <1>2, <1>4
<1>6. g[j] = Further(g[j - 1]) /\ h[j] = Further(h[j - 1])
  BY <1>3, <1>4 DEF AsFar
<1> QED
  BY <1>3, <1>5, <1>6

\* However far, there is such a function.
LEMMA AsFarExists ==
  \A m \in Nat : \E g : AsFar(g, m)
<1> DEFINE T == {m \in Nat : ~\E g : AsFar(g, m)}
<1>1. SUFFICES ASSUME T # {} PROVE FALSE
  OBVIOUS
<1>2. PICK m \in T : \A k \in T : ~(k < m)
  BY <1>1, NatMin
<1>3. m # 0
  <2>1. AsFar([n \in 0..0 |-> [d \in Dirs |-> <<>>]], 0)
    BY DEF AsFar
  <2> QED
    BY <2>1
<1>4. PICK g : AsFar(g, m - 1)
  BY <1>2, <1>3
<1> DEFINE h == [n \in 0..m |-> IF n < m THEN g[n] ELSE Further(g[m - 1])]
<1>5. \A n \in 0..m : h[n] = IF n = 0 THEN [d \in Dirs |-> <<>>] ELSE Further(h[n - 1])
  <2> TAKE n \in 0..m
  <2>1. CASE n < m
    <3>1. n \in 0..(m - 1) /\ h[n] = g[n] /\ (n # 0 => h[n - 1] = g[n - 1])
      BY <2>1
    <3> QED
      BY <1>4, <3>1 DEF AsFar
  <2>2. CASE n = m
    BY <1>3, <2>2
  <2> QED
    BY <2>1, <2>2
<1>6. AsFar(h, m)
  <2> HIDE DEF h
  <2>1. h = [n \in 0..m |-> h[n]]
    BY DEF h
  <2> QED
    BY <1>5, <2>1 DEF AsFar
<1> QED
  BY <1>6

\* The recursive definition is an equation.
LEMMA AncestorsUnfold ==
  Ancestors = [n \in Nat |-> IF n = 0 THEN [d \in Dirs |-> <<>>] ELSE Further(Ancestors[n - 1])]
<1> DEFINE At(n) == CHOOSE g : AsFar(g, n)
           f == [n \in Nat |-> At(n)[n]]
<1>1. \A n \in Nat : AsFar(At(n), n)
  BY AsFarExists
<1>2. \A n \in Nat : f[n] = IF n = 0 THEN [d \in Dirs |-> <<>>] ELSE Further(f[n - 1])
  <2> TAKE n \in Nat
  <2>1. f[n] = At(n)[n] /\ (n # 0 => f[n - 1] = At(n - 1)[n - 1])
    OBVIOUS
  <2> HIDE DEF At, f
  <2>2. At(n)[n] = IF n = 0 THEN [d \in Dirs |-> <<>>] ELSE Further(At(n)[n - 1])
    BY <1>1 DEF AsFar
  <2>3. n # 0 => At(n)[n - 1] = At(n - 1)[n - 1]
    <3>1. SUFFICES ASSUME n # 0 PROVE At(n)[n - 1] = At(n - 1)[n - 1]
      OBVIOUS
    <3>2. n - 1 \in Nat
      BY <3>1
    <3> QED
      BY <1>1, <3>2, AsFarUnique
  <2> QED
    BY <2>1, <2>2, <2>3
<1>3. f = [n \in Nat |-> f[n]]
  OBVIOUS
<1> HIDE DEF f
<1>4. f = [n \in Nat |-> IF n = 0 THEN [d \in Dirs |-> <<>>] ELSE Further(f[n - 1])]
  BY <1>2, <1>3
<1>5. \E g : g = [n \in Nat |-> IF n = 0 THEN [d \in Dirs |-> <<>>] ELSE Further(g[n - 1])]
  BY <1>4
<1> QED
  BY <1>5, Zenon DEF Ancestors
\* d and its ancestors in a row, each below the next
Chained(s, d) ==
  /\ s \in Seq(Dirs) /\ Len(s) > 0 /\ s[1] = d
  /\ \A i \in 1..(Len(s) - 1) : s[i] # Root /\ s[i + 1] = Up[s[i]]

LEMMA ChainGrows ==
  ASSUME TreeAssumption, NEW d \in Dirs \ {Root}, NEW s, Chained(s, Up[d])
  PROVE  Chained(<<d>> \o s, d)
<1> DEFINE t == <<d>> \o s
<1>1. t \in Seq(Dirs) /\ Len(t) = Len(s) + 1 /\ t[1] = d /\ Len(s) \in Nat
  BY DEF Chained
<1>2. \A i \in 1..Len(s) : t[i + 1] = s[i]
  BY DEF Chained
<1>3. ASSUME NEW i \in 1..(Len(t) - 1)
      PROVE  t[i] # Root /\ t[i + 1] = Up[t[i]]
  <2>1. CASE i = 1
    BY <1>1, <1>2, <2>1 DEF Chained
  <2>2. CASE i # 1
    <3>1. i - 1 \in 1..(Len(s) - 1) /\ t[i] = s[i - 1] /\ t[i + 1] = s[i]
      <4>1. i - 1 \in 1..(Len(s) - 1) /\ i \in 1..Len(s) /\ i - 1 \in 1..Len(s)
        BY <1>1, <2>2
      <4>2. t[(i - 1) + 1] = s[i - 1] /\ (i - 1) + 1 = i
        BY <1>2, <4>1
      <4> QED
        BY <1>2, <4>1, <4>2
    <3>2. s[i - 1] # Root /\ s[(i - 1) + 1] = Up[s[i - 1]] /\ (i - 1) + 1 = i
      BY <3>1 DEF Chained
    <3> QED
      BY <3>1, <3>2
  <2> QED
    BY <2>1, <2>2
<1> HIDE DEF t
<1>4. Chained(t, d)
  BY <1>1, <1>3 DEF Chained
<1> QED
  BY <1>4 DEF t

LEMMA AncestorsChained ==
  ASSUME TreeAssumption
  PROVE  \A n \in Nat \ {0} : \A d \in Dirs : Chained(Ancestors[n][d], d)
<1> DEFINE T == {n \in Nat \ {0} : ~\A d \in Dirs : Chained(Ancestors[n][d], d)}
<1>1. SUFFICES ASSUME T # {} PROVE FALSE
  OBVIOUS
<1>2. PICK n \in T : \A k \in T : ~(k < n)
  BY <1>1, NatMin
<1>3. n \in Nat \ {0}
  BY <1>2
<1>4. Ancestors[n] = Further(Ancestors[n - 1])
  BY <1>3, AncestorsUnfold
<1>5. ASSUME NEW d \in Dirs
      PROVE  Chained(Ancestors[n][d], d)
  <2>1. CASE d = Root
    <3>1. Ancestors[n][d] = <<d>>
      BY <1>4, <2>1 DEF Further
    <3>2. Chained(<<d>>, d)
      BY DEF Chained
    <3> QED
      BY <3>1, <3>2
  <2>2. CASE d # Root
    <3>1. Ancestors[n][d] = <<d>> \o Ancestors[n - 1][Up[d]] /\ Up[d] \in Dirs
      BY <1>4, <2>2 DEF Further, TreeAssumption
    <3>2. CASE n = 1
      <4>1. Ancestors[0] = [e \in Dirs |-> <<>>]
        BY AncestorsUnfold
      <4>2. Ancestors[n][d] = <<d>>
        <5>1. n - 1 = 0 /\ Ancestors[0][Up[d]] = <<>> /\ <<d>> \o <<>> = <<d>>
          BY <3>1, <3>2, <4>1
        <5> QED
          BY <3>1, <5>1
      <4>3. Chained(<<d>>, d)
        BY DEF Chained
      <4> QED
        BY <4>2, <4>3
    <3>3. CASE n # 1
      <4>1. n - 1 \in Nat \ {0} /\ n - 1 < n
        BY <1>3, <3>3
      <4>2. Chained(Ancestors[n - 1][Up[d]], Up[d])
        BY <1>2, <3>1, <4>1
      <4> QED
        BY <2>2, <3>1, <4>2, ChainGrows
    <3> QED
      BY <3>2, <3>3
  <2> QED
    BY <2>1, <2>2
<1> QED
  BY <1>2, <1>5

LEMMA ColumnedChained ==
  ASSUME TreeAssumption, ColumnsAssumption, NEW d \in Dirs, NEW on \in BOOLEAN
  PROVE  Chained(Columned(d, on), d)
<1>1. MaxVisible(on) \in Nat \ {0}
  BY DEF MaxVisible, ColumnsAssumption
<1> QED
  BY <1>1, AncestorsChained DEF Columned

\* e is a directory in d.
Below(e, d) == e \in Dirs \ {Root} /\ Up[e] = d

\* What is below a directory is none of its ancestors.
LEMMA BelowIsNotAbove ==
  ASSUME TreeAssumption, NEW d, NEW s, Chained(s, d), NEW e, Below(e, d)
  PROVE  e \notin Range(s)
<1>1. SUFFICES ASSUME NEW k \in 1..Len(s), e = s[k]
               PROVE  FALSE
  BY DEF Range, Chained
<1> DEFINE D == {s[i] : i \in 1..k}
<1>2. \A i \in 1..k : s[i] \in Dirs \ {Root} /\ Up[s[i]] \in D
  <2> TAKE i \in 1..k
  <2>1. Len(s) \in Nat /\ i \in 1..Len(s) /\ s[i] \in Dirs
    BY DEF Chained
  <2>2. CASE i = k
    BY <1>1, <2>1, <2>2 DEF Below, Chained
  <2>3. CASE i # k
    <3>1. i \in 1..(Len(s) - 1) /\ i + 1 \in 1..k
      BY <2>1, <2>3
    <3> QED
      BY <2>1, <3>1 DEF Chained
  <2> QED
    BY <2>2, <2>3
<1>3. D \in SUBSET (Dirs \ {Root}) /\ D # {} /\ \A x \in D : Up[x] \in D
  BY <1>1, <1>2
<1> HIDE DEF D
<1> QED
  BY <1>3 DEF TreeAssumption

-----------------------------------------------------------------------------
(* Cursors *)

\* A cursor on a directory is on one of the directory that it is the cursor of.
CursorsBelow(c) ==
  /\ c \in [Dirs -> Dirs \cup {File, None}]
  /\ \A d \in Dirs : c[d] \in Dirs => Below(c[d], d)

\* Pointing ancestors at what is below them keeps that.
LEMMA PointingBelow ==
  ASSUME TreeAssumption, NEW path, NEW s, Chained(s, path), NEW c, CursorsBelow(c),
         NEW p, p = [d \in Dirs |-> p[d]],
         \A d \in Dirs : p[d] = c[d] \/ \E i \in 2..Len(s) : s[i] = d /\ p[d] = s[i - 1]
  PROVE  CursorsBelow(p)
<1>1. ASSUME NEW i \in 2..Len(s)
      PROVE  s[i - 1] \in Dirs /\ Below(s[i - 1], s[i])
  <2>1. Len(s) \in Nat /\ i - 1 \in 1..(Len(s) - 1) /\ i - 1 \in 1..Len(s) /\ (i - 1) + 1 = i
    BY DEF Chained
  <2>2. s[i - 1] \in Dirs /\ s[i - 1] # Root /\ s[(i - 1) + 1] = Up[s[i - 1]]
    BY <2>1 DEF Chained
  <2> QED
    BY <2>1, <2>2 DEF Below
<1>2. \A d \in Dirs : /\ p[d] \in Dirs \cup {File, None}
                      /\ p[d] \in Dirs => Below(p[d], d)
  BY <1>1 DEF CursorsBelow
<1>3. p \in [Dirs -> Dirs \cup {File, None}]
  BY <1>2
<1> QED
  BY <1>2, <1>3 DEF CursorsBelow

LEMMA PointedBelow ==
  ASSUME TreeAssumption, NEW path, NEW s, Chained(s, path), NEW c, CursorsBelow(c)
  PROVE  /\ CursorsBelow(Pointed(s, c))
         /\ \A d \in Dirs \cap loaded : Pointed(s, c)[d] = c[d]
<1> DEFINE p == Pointed(s, c)
<1>1. \A d \in Dirs : \/ p[d] = c[d]
                      \/ d \notin loaded /\ \E i \in 2..Len(s) : s[i] = d /\ p[d] = s[i - 1]
  BY DEF Pointed
<1>2. p = [d \in Dirs |-> p[d]]
  BY DEF Pointed
<1> HIDE DEF p
<1>3. CursorsBelow(p)
  BY <1>1, <1>2, PointingBelow
<1>4. \A d \in Dirs \cap loaded : p[d] = c[d]
  BY <1>1
<1> QED
  BY <1>3, <1>4 DEF p

-----------------------------------------------------------------------------
(* Watches *)

\* The tables agree, and a directory of its own inode that is watched for the tables is
\* for the kernel, if it exists.
WatchesOK(w, on) ==
  /\ w = [wds |-> w.wds, byWd |-> w.byWd, kernel |-> w.kernel]
  /\ DOMAIN w.wds \subseteq Dirs
  /\ w.kernel \subseteq DOMAIN w.byWd
  /\ \A i \in DOMAIN w.byWd : w.byWd[i] \in DOMAIN w.wds /\ w.wds[w.byWd[i]] = i
  /\ \A d \in DOMAIN w.wds :
       /\ w.wds[d] = Inode[d]
       /\ Alone(d) => /\ Inode[d] \in DOMAIN w.byWd
                      /\ d \in on => Inode[d] \in w.kernel

LEMMA NoWatchesOK ==
  ASSUME NEW on
  PROVE  WatchesOK([wds |-> <<>>, byWd |-> <<>>, kernel |-> {}], on)
  BY DEF WatchesOK

LEMMA RemovedOK ==
  ASSUME NEW w, NEW on, WatchesOK(w, on), NEW d
  PROVE  /\ WatchesOK(Removed(w, d), on)
         /\ DOMAIN Removed(w, d).wds = DOMAIN w.wds \ {d}
<1>1. CASE d \notin DOMAIN w.wds
  BY <1>1 DEF Removed
<1>2. CASE d \in DOMAIN w.wds
  <2> DEFINE wd == w.wds[d]
             t == Restrict(w.wds, DOMAIN w.wds \ {d})
             b == Restrict(w.byWd, DOMAIN w.byWd \ {wd})
             k == w.kernel \ {wd}
  <2>1. Removed(w, d) = [wds |-> t, byWd |-> b, kernel |-> k]
    BY <1>2 DEF Removed
  <2>2. DOMAIN t = DOMAIN w.wds \ {d} /\ \A e \in DOMAIN t : t[e] = w.wds[e]
    BY DEF Restrict
  <2>3. DOMAIN b = DOMAIN w.byWd \ {wd} /\ \A i \in DOMAIN b : b[i] = w.byWd[i]
    BY DEF Restrict
  <2>4. wd = Inode[d] /\ d \in Dirs
    BY <1>2 DEF WatchesOK
  <2> HIDE DEF t, b
  <2>5. \A i \in DOMAIN b : b[i] \in DOMAIN t /\ t[b[i]] = i
    BY <2>2, <2>3 DEF WatchesOK
  <2>6. \A e \in DOMAIN t : /\ t[e] = Inode[e]
                            /\ Alone(e) => /\ Inode[e] \in DOMAIN b
                                           /\ e \in on => Inode[e] \in k
    BY <2>2, <2>3, <2>4 DEF WatchesOK, Alone
  <2>7. DOMAIN t \subseteq Dirs /\ k \subseteq DOMAIN b
    BY <2>2, <2>3 DEF WatchesOK
  <2>8. WatchesOK([wds |-> t, byWd |-> b, kernel |-> k], on)
    <3> HIDE DEF k
    <3> QED
      BY <2>5, <2>6, <2>7 DEF WatchesOK
  <2> QED
    BY <2>1, <2>2, <2>8
<1> QED
  BY <1>1, <1>2

LEMMA AddedOK ==
  ASSUME NEW w, WatchesOK(w, exists), NEW d \in Dirs
  PROVE  /\ WatchesOK(Added(w, d), exists)
         /\ DOMAIN w.wds \subseteq DOMAIN Added(w, d).wds
         /\ d \in exists \ Unwatched => d \in DOMAIN Added(w, d).wds
<1>1. CASE d \in Unwatched \cup DOMAIN w.wds \/ d \notin exists
  BY <1>1 DEF Added
<1>2. CASE ~(d \in Unwatched \cup DOMAIN w.wds \/ d \notin exists)
  <2> DEFINE wd == Inode[d]
             t == [x \in DOMAIN w.wds \cup {d} |-> IF x = d THEN wd ELSE w.wds[x]]
             b == [x \in DOMAIN w.byWd \cup {wd} |->
                     IF x \in DOMAIN w.byWd THEN w.byWd[x] ELSE d]
             k == w.kernel \cup {wd}
  <2>1. Added(w, d) = [wds |-> t, byWd |-> b, kernel |-> k]
    BY <1>2 DEF Added
  <2>2. /\ DOMAIN t = DOMAIN w.wds \cup {d}
        /\ \A e \in DOMAIN t : t[e] = IF e = d THEN Inode[d] ELSE w.wds[e]
    OBVIOUS
  <2>3. /\ DOMAIN b = DOMAIN w.byWd \cup {Inode[d]}
        /\ \A i \in DOMAIN b : b[i] = IF i \in DOMAIN w.byWd THEN w.byWd[i] ELSE d
    OBVIOUS
  <2> HIDE DEF t, b
  <2>4. \A i \in DOMAIN b : b[i] \in DOMAIN t /\ t[b[i]] = i
    BY <1>2, <2>2, <2>3 DEF WatchesOK
  <2>5. \A e \in DOMAIN t : /\ t[e] = Inode[e]
                            /\ Alone(e) => /\ Inode[e] \in DOMAIN b
                                           /\ e \in exists => Inode[e] \in k
    BY <2>2, <2>3 DEF WatchesOK
  <2>6. DOMAIN t \subseteq Dirs /\ k \subseteq DOMAIN b
    BY <2>2, <2>3 DEF WatchesOK
  <2>7. WatchesOK([wds |-> t, byWd |-> b, kernel |-> k], exists)
    <3> HIDE DEF k
    <3> QED
      BY <2>4, <2>5, <2>6 DEF WatchesOK
  <2> QED
    BY <2>1, <2>2, <2>7
<1> QED
  BY <1>1, <1>2

-----------------------------------------------------------------------------
(* Panes *)

Marked(v, vis) == vis \cup ({v.preview} \ {None}) \subseteq v.shown

\* v is made as View is.
Shaped(v) ==
  /\ v = [preview |-> v.preview, shown |-> v.shown, watches |-> v.watches,
          add |-> v.add, loading |-> v.loading]
  /\ v.shown \subseteq Dirs /\ v.loading \subseteq Dirs

\* With the directories vis visible, v being the rest: what is previewed, or will be
\* watched for that, is below pwd, marked if shown, and watched unless a work of adds,
\* or that of the preview, will see to it.
PanesOK(v, pwd, vis, works, on) ==
  /\ v = [preview |-> v.preview, shown |-> v.shown, watches |-> v.watches,
          add |-> v.add, loading |-> v.loading]
  /\ v.preview = None \/ Below(v.preview, pwd)
  /\ v.add = None \/ Below(v.add, pwd)
  /\ v.shown \subseteq Dirs /\ v.loading \subseteq Dirs
  /\ vis \subseteq Dirs
  /\ Marked(v, vis)
  /\ WatchesOK(v.watches, on)
  /\ \A d \in (vis \cup ({v.preview} \ {None})) \cap (on \ Unwatched) :
       d \in works \/ v.add = d \/ d \in DOMAIN v.watches.wds

LEMMA RemovePreviewOK ==
  ASSUME TreeAssumption, NEW v, NEW pwd, NEW s, Chained(s, pwd), NEW works, NEW on,
         PanesOK(v, pwd, Range(s), works, on)
  PROVE  /\ PanesOK(RemovePreview(v), pwd, Range(s), works, on)
         /\ RemovePreview(v).preview = None
<1>1. CASE v.preview = None
  BY <1>1 DEF RemovePreview
<1>2. CASE v.preview # None
  <2>1. PICK u : u = Removed(v.watches, v.preview)
    OBVIOUS
  <2>2. WatchesOK(u, on) /\ DOMAIN u.wds = DOMAIN v.watches.wds \ {v.preview}
    BY <2>1, RemovedOK DEF PanesOK
  <2>3. RemovePreview(v) = [preview |-> None, shown |-> v.shown \ {v.preview}, watches |-> u,
                            add |-> v.add, loading |-> v.loading]
    BY <1>2, <2>1 DEF RemovePreview, PanesOK
  <2>4. v.preview \notin Range(s)
    BY <1>2, BelowIsNotAbove DEF PanesOK
  <2>5. None \notin Dirs
    BY DEF TreeAssumption
  <2>6. PanesOK([preview |-> None, shown |-> v.shown \ {v.preview}, watches |-> u,
                 add |-> v.add, loading |-> v.loading], pwd, Range(s), works, on)
    BY <2>2, <2>4, <2>5 DEF PanesOK, Marked
  <2> QED
    BY <2>3, <2>6
<1> QED
  BY <1>1, <1>2

LEMMA UpdatePreviewOK ==
  ASSUME TreeAssumption, NEW v, NEW pwd, NEW s, Chained(s, pwd), NEW works,
         PanesOK(v, pwd, Range(s), works, exists),
         NEW file, file \in Dirs => Below(file, pwd)
  PROVE  /\ PanesOK(UpdatePreview(v, file), pwd, Range(s), works, exists)
         /\ fm.on => UpdatePreview(v, file).preview = IF file \in Dirs THEN file ELSE None
<1>1. CASE ~fm.on \/ file \notin Dirs
  BY <1>1, RemovePreviewOK DEF UpdatePreview
<1>2. CASE fm.on /\ file \in Dirs
  <2> DEFINE a == IF v.preview = file THEN v.add ELSE file
             l == IF v.preview = file /\ file \in loaded THEN v.loading
                  ELSE v.loading \cup {file}
  <2>1. UpdatePreview(v, file) = [preview |-> file, shown |-> v.shown \cup {file},
                                  watches |-> v.watches, add |-> a, loading |-> l]
    BY <1>2 DEF UpdatePreview, PanesOK
  <2>2. l \subseteq Dirs /\ v.shown \cup {file} \subseteq Dirs
    BY <1>2 DEF PanesOK
  <2>3. /\ a = None \/ Below(a, pwd)
        /\ a = v.add \/ v.preview # file
        /\ v.preview # file => a = file
    BY <1>2 DEF PanesOK
  <2>4. v.add # None => v.add \notin Range(s)
    BY BelowIsNotAbove DEF PanesOK
  <2>5. None \notin Dirs /\ Range(s) \subseteq Dirs
    BY DEF TreeAssumption, PanesOK
  <2> HIDE DEF a, l
  <2>6. \A d \in (Range(s) \cup {file}) \cap (exists \ Unwatched) :
          d \in works \/ a = d \/ d \in DOMAIN v.watches.wds
    <3> SUFFICES ASSUME NEW d \in (Range(s) \cup {file}) \cap (exists \ Unwatched)
                 PROVE  d \in works \/ a = d \/ d \in DOMAIN v.watches.wds
      OBVIOUS
    <3>1. CASE v.preview = file
      BY <1>2, <2>3, <2>5, <3>1 DEF PanesOK
    <3>2. CASE v.preview # file /\ d \in Range(s)
      BY <2>4, <2>5, <3>2 DEF PanesOK
    <3>3. CASE v.preview # file /\ d = file
      BY <2>3, <3>3
    <3> QED
      BY <3>1, <3>2, <3>3
  <2>7. PanesOK([preview |-> file, shown |-> v.shown \cup {file},
                 watches |-> v.watches, add |-> a, loading |-> l],
                pwd, Range(s), works, exists)
    BY <1>2, <2>2, <2>3, <2>6 DEF PanesOK, Marked
  <2> QED
    BY <1>2, <2>1, <2>7
<1> QED
  BY <1>1, <1>2

LEMMA PopulatedOK ==
  ASSUME TreeAssumption, ColumnsAssumption, NEW path \in Dirs, NEW on \in BOOLEAN,
         NEW v, Shaped(v)
  PROVE  LET r == Range(Columned(path, on))
         IN  /\ PanesOK(Populated(path, on, v), path, r, r, exists)
             /\ Populated(path, on, v).preview = None
<1> DEFINE s == Columned(path, on)
           sh == (v.shown \ Range(fm.visible)) \cup Range(s)
           l == v.loading \cup Range(s)
           w == [wds |-> <<>>, byWd |-> <<>>, kernel |-> {}]
<1>1. Populated(path, on, v) = [preview |-> None, shown |-> sh, watches |-> w,
                                add |-> None, loading |-> l]
  <2>1. Populated(path, on, v) = [v EXCEPT !.preview = None, !.shown = sh, !.watches = w,
                                           !.add = None, !.loading = l]
    BY DEF Populated
  <2> HIDE DEF sh, w, l
  <2> DEFINE r == [v EXCEPT !.preview = None, !.shown = sh, !.watches = w,
                            !.add = None, !.loading = l]
  <2>2. v = [preview |-> v.preview, shown |-> v.shown, watches |-> v.watches,
             add |-> v.add, loading |-> v.loading]
    BY DEF Shaped
  <2>3. /\ r = [x \in {"preview", "shown", "watches", "add", "loading"} |-> r[x]]
        /\ r.preview = None /\ r.shown = sh /\ r.watches = w /\ r.add = None /\ r.loading = l
    BY <2>2
  <2> HIDE DEF r
  <2>4. r = [preview |-> None, shown |-> sh, watches |-> w, add |-> None, loading |-> l]
    BY <2>3
  <2> QED
    BY <2>1, <2>4 DEF r
<1>2. Range(s) \subseteq Dirs
  BY ColumnedChained DEF Chained, Range
<1>3. WatchesOK(w, exists)
  BY NoWatchesOK
<1>4. Range(s) \subseteq sh /\ sh \subseteq Dirs /\ l \subseteq Dirs
  BY <1>2 DEF Shaped
<1> HIDE DEF s, sh, l, w
<1>5. PanesOK([preview |-> None, shown |-> sh, watches |-> w, add |-> None, loading |-> l],
              path, Range(s), Range(s), exists)
  BY <1>2, <1>3, <1>4 DEF PanesOK, Marked
<1> QED
  BY <1>1, <1>5 DEF s

\* What is assigned is what the panes are afterwards.
LEMMA ViewSet ==
  ASSUME NEW u, NEW pwd, NEW vis, NEW works, PanesOK(u, pwd, vis, works, exists),
         SetView(u), fm'.preview = u.preview
  PROVE  View' = u
<1>1. u.watches = [wds |-> wds', byWd |-> byWd', kernel |-> kernel']
  BY DEF PanesOK, WatchesOK, SetView, SetWatches
<1>2. u = [preview |-> fm'.preview, shown |-> shown', watches |-> u.watches,
           add |-> addPreview', loading |-> loading']
  BY DEF PanesOK, SetView
<1> QED
  BY <1>1, <1>2 DEF View, Watches

FMs == [pwd : Dirs, automark : Dirs \cup {None}, visible : Seq(Dirs),
        preview : Dirs \cup {None}, on : BOOLEAN]

PreviewOf(file) == IF file \in Dirs THEN file ELSE None

LEMMA CursorMovedOK ==
  ASSUME TreeAssumption, NEW v, NEW pwd, NEW s, Chained(s, pwd), NEW works,
         PanesOK(v, pwd, Range(s), works, exists),
         NEW f \in FMs, f.preview = v.preview, f.on = fm.on,
         NEW file, file \in Dirs => Below(file, pwd),
         NEW immediate, CursorMoved(immediate, v, f, file)
  PROVE  /\ PanesOK(View', pwd, Range(s), works, exists)
         /\ \E p \in Dirs \cup {None} : fm' = [f EXCEPT !.preview = p]
         /\ fm.on /\ ~resting' => fm'.preview = PreviewOf(file) /\ returned' = FALSE
         /\ resting' \in {resting, TRUE, FALSE} /\ returned' \in {returned, FALSE}
<1>1. CASE SetView(v) /\ fm' = f /\ (~fm.on \/ resting' = TRUE)
  <2>1. fm' = [f EXCEPT !.preview = f.preview] /\ f.preview \in Dirs \cup {None}
    BY <1>1 DEF FMs
  <2>2. View' = v
    BY <1>1, ViewSet
  <2>3. /\ fm.on => resting' = TRUE
        /\ ~fm.on => UNCHANGED <<resting, returned>>
        /\ resting' \in {resting, TRUE, FALSE} /\ returned' \in {returned, FALSE}
    BY <1>1 DEF CursorMoved
  <2> QED
    BY <2>1, <2>2, <2>3
<1>2. CASE /\ fm.on /\ SetView(UpdatePreview(v, file))
           /\ fm' = [f EXCEPT !.preview = UpdatePreview(v, file).preview]
           /\ resting' = FALSE /\ returned' = FALSE
  <2>1. PICK u : u = UpdatePreview(v, file)
    OBVIOUS
  <2>2. PanesOK(u, pwd, Range(s), works, exists) /\ u.preview = PreviewOf(file)
    BY <1>2, <2>1, UpdatePreviewOK DEF PreviewOf
  <2>3. SetView(u) /\ fm' = [f EXCEPT !.preview = u.preview]
    BY <1>2, <2>1
  <2>4. fm'.preview = u.preview
    BY <2>3 DEF FMs
  <2>5. View' = u
    BY <2>2, <2>3, <2>4, ViewSet
  <2>6. u.preview \in Dirs \cup {None}
    BY <2>2 DEF PreviewOf
  <2> QED
    BY <1>2, <2>2, <2>3, <2>4, <2>5, <2>6
<1>3. \/ SetView(v) /\ fm' = f /\ (~fm.on \/ resting' = TRUE)
      \/ /\ fm.on /\ SetView(UpdatePreview(v, file))
         /\ fm' = [f EXCEPT !.preview = UpdatePreview(v, file).preview]
         /\ resting' = FALSE /\ returned' = FALSE
  BY DEF CursorMoved
<1> QED
  BY <1>1, <1>2, <1>3

-----------------------------------------------------------------------------
(* The inductive invariant *)

Typed ==
  /\ exists \subseteq Dirs /\ loaded \subseteq Dirs /\ cwd \in Dirs
  /\ fm \in FMs /\ fm.visible = Columned(fm.pwd, fm.on)
  /\ chdir \in ChdirWork \cup {None}
  /\ adds \subseteq Range(fm.visible)
  /\ resting \in BOOLEAN /\ overtaken \in BOOLEAN /\ returned \in BOOLEAN

\* The process is where it should be, or a change to there is underway; a worker that
\* could not open a directory is right.
Following ==
  /\ chdir = None /\ ~overtaken => cwd = fm.pwd \/ fm.pwd \notin exists \ NoEntry
  /\ chdir # None /\ ~overtaken => chdir.dest = fm.pwd
  /\ chdir # None /\ chdir.opened = "failed" => chdir.dest \notin exists

Panes == PanesOK(View, fm.pwd, Range(fm.visible), adds, exists)

\* PreviewFollowsCursor, where the current directory is pwd
Previewed ==
  fm.on /\ ~resting /\ ~returned => fm.preview = PreviewOf(CurrentFile(fm.pwd))

FMInv == Typed /\ Following /\ CursorsBelow(cursor) /\ Panes /\ Previewed

LEMMA CurrentIsPwd ==
  ASSUME TreeAssumption, ColumnsAssumption, Typed
  PROVE  /\ Current = fm.pwd /\ fm.pwd \in Dirs
         /\ Chained(fm.visible, fm.pwd)
         /\ Range(fm.visible) \subseteq Dirs
<1>1. Chained(fm.visible, fm.pwd)
  BY ColumnedChained DEF Typed, FMs
<1> QED
  BY <1>1 DEF Current, Chained, Range, Typed, FMs

LEMMA CurrentFileBelow ==
  ASSUME Typed, CursorsBelow(cursor), TreeAssumption
  PROVE  CurrentFile(fm.pwd) \in Dirs => Below(CurrentFile(fm.pwd), fm.pwd)
  BY DEF Typed, FMs, CursorsBelow, CurrentFile, TreeAssumption

LEMMA InitInv ==
  ASSUME TreeAssumption, ColumnsAssumption, Init
  PROVE  FMInv
<1>1. PICK d \in Dirs : /\ fm = [pwd |-> d, automark |-> None, visible |-> Columned(d, TRUE),
                                preview |-> None, on |-> TRUE]
                        /\ cwd = d
  BY DEF Init
<1>2. Chained(fm.visible, d) /\ fm.visible \in Seq(Dirs)
  BY <1>1, ColumnedChained DEF Chained
<1>3. Typed
  BY <1>1, <1>2 DEF Init, Typed, FMs
<1>4. CursorsBelow(cursor)
  <2>1. CursorsBelow([e \in Dirs |-> None])
    BY DEF CursorsBelow, TreeAssumption
  <2> QED
    BY <1>2, <2>1, PointedBelow DEF Init
<1>5. Panes
  <2>1. WatchesOK(Watches, exists)
    BY NoWatchesOK DEF Init, Watches
  <2> QED
    BY <1>1, <2>1, <1>3, CurrentIsPwd DEF Init, Panes, PanesOK, View, Marked
<1>6. Following /\ Previewed
  BY <1>1 DEF Init, Following, Previewed, PreviewOf, CurrentFile, TreeAssumption
<1> QED
  BY <1>3, <1>4, <1>5, <1>6 DEF FMInv

-----------------------------------------------------------------------------
(* Going somewhere *)

LEMMA MovedTyped ==
  ASSUME Typed, TreeAssumption, ColumnsAssumption, NEW path \in Dirs, NEW save \in BOOLEAN
  PROVE  /\ Moved(path, save) \in FMs
         /\ Moved(path, save).pwd = path /\ Moved(path, save).on = fm.on
         /\ Moved(path, save).visible = Columned(path, fm.on)
         /\ Moved(path, save).preview = None
<1> DEFINE au == IF save THEN (IF Current \in exists THEN Current ELSE None) ELSE fm.automark
           vs == Columned(path, fm.on)
           m == [fm EXCEPT !.pwd = path, !.visible = vs, !.preview = None, !.automark = au]
<1>1. Moved(path, save) = m
  BY DEF Moved
<1>2. au \in Dirs \cup {None} /\ fm.on \in BOOLEAN
  BY CurrentIsPwd DEF Typed, FMs
<1>3. vs \in Seq(Dirs)
  BY <1>2, ColumnedChained DEF Chained
<1> HIDE DEF au, vs
<1>4. fm \in [pwd : Dirs, automark : Dirs \cup {None}, visible : Seq(Dirs),
              preview : Dirs \cup {None}, on : BOOLEAN]
  BY DEF Typed, FMs
<1>5. m = [x \in {"pwd", "automark", "visible", "preview", "on"} |-> m[x]]
  BY <1>4
<1>6. m.pwd = path /\ m.visible = vs /\ m.preview = None /\ m.automark = au /\ m.on = fm.on
  BY <1>4
<1> HIDE DEF m
<1>7. m \in FMs
  BY <1>2, <1>3, <1>5, <1>6 DEF FMs
<1> QED
  BY <1>1, <1>6, <1>7 DEF vs

\* What holds of the file manager at path, with the columns of that
Arrived(path, on) ==
  /\ fm' \in FMs /\ fm'.pwd = path /\ fm'.on = on
  /\ fm'.visible = Columned(path, on)
  /\ adds' = Range(fm'.visible)
  /\ CursorsBelow(cursor')
  /\ PanesOK(View', path, Range(fm'.visible), adds', exists)
  /\ resting' \in BOOLEAN /\ returned' \in BOOLEAN

LEMMA PreviewSet ==
  ASSUME NEW f \in FMs, NEW p \in Dirs \cup {None}, NEW g, g = [f EXCEPT !.preview = p]
  PROVE  /\ g \in FMs
         /\ g.pwd = f.pwd /\ g.on = f.on /\ g.visible = f.visible /\ g.automark = f.automark
         /\ g.preview = p
  BY DEF FMs

LEMMA GoArrives ==
  ASSUME TreeAssumption, ColumnsAssumption, FMInv, NEW path \in Dirs, NEW save \in BOOLEAN,
         NEW c, CursorsBelow(c), Go(path, save, c), UNCHANGED <<exists, loaded>>
  PROVE  Arrived(path, fm.on) /\ Previewed'
<1>1. PICK v : v = Populated(path, fm.on, RemovePreview(View))
  OBVIOUS
<1>2. PICK file : file = IF path \in loaded THEN c[path] ELSE None
  OBVIOUS
<1>3. PICK s : s = Columned(path, fm.on)
  OBVIOUS
<1>4. fm.on \in BOOLEAN /\ Chained(s, path)
  BY <1>3, ColumnedChained DEF FMInv, Typed, FMs
<1>5. PICK u : u = RemovePreview(View)
  OBVIOUS
<1>6. PanesOK(u, fm.pwd, Range(fm.visible), adds, exists)
  BY <1>5, CurrentIsPwd, RemovePreviewOK DEF FMInv, Panes
<1>7. PanesOK(v, path, Range(s), Range(s), exists) /\ v.preview = None
  <2>1. Shaped(u)
    BY <1>6 DEF PanesOK, Shaped
  <2> QED
    BY <1>1, <1>3, <1>4, <1>5, <2>1, PopulatedOK
<1>8. PICK f : f = Moved(path, save)
  OBVIOUS
<1>9. f \in FMs /\ f.pwd = path /\ f.on = fm.on /\ f.visible = s /\ f.preview = None
  BY <1>3, <1>8, MovedTyped DEF FMInv
<1>10. file \in Dirs => Below(file, path)
  BY <1>2 DEF CursorsBelow, TreeAssumption
<1>11. CursorMoved(TRUE, v, f, file)
  BY <1>1, <1>2, <1>8 DEF Go
<1>12. /\ PanesOK(View', path, Range(s), Range(s), exists)
       /\ \E p \in Dirs \cup {None} : fm' = [f EXCEPT !.preview = p]
       /\ fm.on /\ ~resting' => fm'.preview = PreviewOf(file) /\ returned' = FALSE
       /\ resting' \in {resting, TRUE, FALSE} /\ returned' \in {returned, FALSE}
  BY <1>4, <1>7, <1>9, <1>10, <1>11, CursorMovedOK
<1>13. fm' \in FMs /\ fm'.pwd = path /\ fm'.on = fm.on /\ fm'.visible = s
  BY <1>9, <1>12, PreviewSet
<1>14. adds' = Range(s)
  BY <1>3 DEF Go, AddVisible
<1>15. cursor' = Pointed(s, c)
  BY <1>3 DEF Go
<1>16. CursorsBelow(cursor') /\ \A d \in Dirs \cap loaded : cursor'[d] = c[d]
  BY <1>4, <1>15, PointedBelow
<1>17. Arrived(path, fm.on)
  BY <1>3, <1>12, <1>13, <1>14, <1>16 DEF Arrived, FMInv, Typed
<1>18. Previewed'
  <2>1. CurrentFile(fm.pwd)' = file
    BY <1>2, <1>13, <1>16 DEF CurrentFile
  <2> QED
    BY <1>12, <1>13, <2>1 DEF Previewed, PreviewOf
<1> QED
  BY <1>17, <1>18

\* The invariant there, if the process follows
LEMMA ArrivedInv ==
  ASSUME FMInv, NEW path \in Dirs, NEW on \in BOOLEAN, Arrived(path, on), Previewed',
         Following', UNCHANGED exists, loaded' \subseteq Dirs, cwd' \in Dirs,
         chdir' \in ChdirWork \cup {None}, overtaken' \in BOOLEAN
  PROVE  FMInv'
<1>1. Typed'
  BY DEF Arrived, FMInv, Typed
<1>2. Panes'
  BY DEF Arrived, Panes
<1>3. CursorsBelow(cursor)'
  BY DEF Arrived
<1> QED
  BY <1>1, <1>2, <1>3 DEF FMInv

LEMMA BeginGo ==
  ASSUME TreeAssumption, ColumnsAssumption, FMInv, NEW path \in Dirs, NEW save \in BOOLEAN,
         NEW c, CursorsBelow(c), Begin(path), Go(path, save, c), UNCHANGED <<exists, loaded>>
  PROVE  FMInv'
<1>1. Arrived(path, fm.on) /\ Previewed'
  BY GoArrives
<1>2. fm.pwd \in Dirs /\ fm.on \in BOOLEAN /\ loaded \subseteq Dirs /\ cwd \in Dirs
  BY DEF FMInv, Typed, FMs
<1>3. /\ chdir' = [dest |-> path, origin |-> fm.pwd, opened |-> "no"]
      /\ overtaken' = FALSE /\ cwd' = cwd
  BY DEF Begin
<1>4. chdir' \in ChdirWork
  BY <1>2, <1>3 DEF ChdirWork
<1>5. chdir' # None
  BY <1>4 DEF TreeAssumption
<1>6. Following'
  BY <1>1, <1>3, <1>5 DEF Following, Arrived
<1> QED
  BY <1>1, <1>2, <1>3, <1>4, <1>6, ArrivedInv

LEMMA AsyncChdirKeeps ==
  ASSUME TreeAssumption, ColumnsAssumption, FMInv, NEW path \in Dirs, NEW save \in BOOLEAN,
         AsyncChdir(path, save)
  PROVE  FMInv'
  BY BeginGo DEF AsyncChdir, FMInv

LEMMA SyncChdirKeeps ==
  ASSUME TreeAssumption, ColumnsAssumption, FMInv, NEW path \in Dirs, NEW save \in BOOLEAN,
         SyncChdir(path, save)
  PROVE  FMInv'
<1>1. Arrived(path, fm.on) /\ Previewed'
  BY GoArrives DEF SyncChdir, FMInv
<1>2. /\ fm.on \in BOOLEAN /\ loaded \subseteq Dirs /\ chdir \in ChdirWork \cup {None}
      /\ (chdir # None) \in BOOLEAN
  BY DEF FMInv, Typed, FMs
<1>3. Following'
  BY <1>1 DEF SyncChdir, Following, Arrived, FMInv
<1> QED
  BY <1>1, <1>2, <1>3, ArrivedInv DEF SyncChdir

LEMMA JumpAutomarkKeeps ==
  ASSUME TreeAssumption, ColumnsAssumption, FMInv, JumpAutomark
  PROVE  FMInv'
<1>1. fm.automark \in Dirs
  BY DEF JumpAutomark, FMInv, Typed, FMs
<1> QED
  BY <1>1, AsyncChdirKeeps DEF JumpAutomark

LEMMA OpenKeeps ==
  ASSUME TreeAssumption, ColumnsAssumption, FMInv, Open
  PROVE  FMInv'
  BY AsyncChdirKeeps DEF Open

LEMMA UpdirKeeps ==
  ASSUME TreeAssumption, ColumnsAssumption, FMInv, Updir
  PROVE  FMInv'
<1>1. Current \in Dirs \ {Root}
  BY CurrentIsPwd DEF Updir, FMInv
<1>2. Up[Current] \in Dirs
  BY <1>1 DEF TreeAssumption
<1> DEFINE c == [cursor EXCEPT ![Up[Current]] = Current]
<1>3. CursorsBelow(c)
  BY <1>1, <1>2 DEF FMInv, CursorsBelow, Below
<1> HIDE DEF c
<1>4. Begin(Up[Current]) /\ Go(Up[Current], FALSE, c) /\ UNCHANGED <<exists, loaded>>
  BY DEF Updir, c
<1> QED
  BY <1>2, <1>3, <1>4, BeginGo

-----------------------------------------------------------------------------
(* Staying *)

\* The invariant after a step in which only the panes, the cursors and what is loaded
\* change
Unmoving == /\ fm' \in FMs /\ fm'.pwd = fm.pwd /\ fm'.on = fm.on /\ fm'.visible = fm.visible
            /\ UNCHANGED <<cwd, chdir, overtaken, exists>>

LEMMA UnmovingInv ==
  ASSUME FMInv, Unmoving, CursorsBelow(cursor'), Previewed', loaded' \subseteq Dirs,
         adds' \subseteq Range(fm.visible),
         PanesOK(View', fm.pwd, Range(fm.visible), adds', exists),
         resting' \in BOOLEAN, returned' \in BOOLEAN
  PROVE  FMInv'
<1>1. Typed'
  BY DEF Unmoving, FMInv, Typed
<1>2. Panes'
  BY DEF Unmoving, Panes
<1>3. Following'
  BY DEF Unmoving, FMInv, Following
<1> QED
  BY <1>1, <1>2, <1>3 DEF FMInv

LEMMA FmPreview ==
  ASSUME FMInv
  PROVE  View.preview = fm.preview /\ fm.preview \in Dirs \cup {None} /\ fm \in FMs
  BY DEF View, FMInv, Typed, FMs

\* What moved the cursor of the current directory to file
LEMMA CursorMovedInv ==
  ASSUME TreeAssumption, ColumnsAssumption, FMInv, NEW v, v.preview = fm.preview,
         PanesOK(v, fm.pwd, Range(fm.visible), adds, exists),
         NEW file, file \in Dirs => Below(file, fm.pwd),
         NEW immediate, CursorMoved(immediate, v, fm, file),
         CursorsBelow(cursor'), loaded' \subseteq Dirs,
         fm.pwd \in loaded', cursor'[fm.pwd] = file,
         UNCHANGED <<cwd, chdir, overtaken, exists, adds>>
  PROVE  FMInv'
<1>1. Chained(fm.visible, fm.pwd)
  BY CurrentIsPwd DEF FMInv
<1>2. /\ PanesOK(View', fm.pwd, Range(fm.visible), adds, exists)
      /\ \E p \in Dirs \cup {None} : fm' = [fm EXCEPT !.preview = p]
      /\ fm.on /\ ~resting' => fm'.preview = PreviewOf(file) /\ returned' = FALSE
      /\ resting' \in {resting, TRUE, FALSE} /\ returned' \in {returned, FALSE}
  <2>1. fm \in FMs /\ fm.preview = v.preview
    BY FmPreview
  <2> QED
    BY <1>1, <2>1, CursorMovedOK
<1>3. Unmoving
  BY <1>2, FmPreview, PreviewSet DEF Unmoving
<1>4. Previewed'
  <2>1. CurrentFile(fm.pwd)' = file
    BY <1>3 DEF Unmoving, CurrentFile
  <2> QED
    BY <1>2, <1>3, <2>1 DEF Previewed, PreviewOf, Unmoving
<1>5. resting' \in BOOLEAN /\ returned' \in BOOLEAN /\ adds' \subseteq Range(fm.visible)
  BY <1>2 DEF FMInv, Typed
<1> QED
  BY <1>2, <1>3, <1>4, <1>5, UnmovingInv

\* Entries of d are below it, if they are directories.
LEMMA ContentBelow ==
  ASSUME TreeAssumption, FMInv, NEW d \in Dirs, NEW e \in Content(d) \cup {None}
  PROVE  /\ e \in Dirs \cup {File, None}
         /\ e \in Dirs => Below(e, d)
  BY DEF Content, Below, TreeAssumption, FMInv, Typed

LEMMA CursorSet ==
  ASSUME TreeAssumption, FMInv, NEW d \in Dirs, NEW e \in Content(d) \cup {None},
         cursor' = [cursor EXCEPT ![d] = e]
  PROVE  /\ CursorsBelow(cursor') /\ cursor'[d] = e
         /\ \A x \in Dirs \ {d} : cursor'[x] = cursor[x]
<1>1. e \in Dirs \cup {File, None} /\ (e \in Dirs => Below(e, d))
  BY ContentBelow
<1> QED
  BY <1>1 DEF FMInv, CursorsBelow

LEMMA MoveCursorKeeps ==
  ASSUME TreeAssumption, ColumnsAssumption, FMInv, NEW d \in loaded, NEW e \in Content(d),
         NEW immediate \in BOOLEAN, MoveCursor(d, e, immediate)
  PROVE  FMInv'
<1>1. Current = fm.pwd /\ fm.pwd \in Dirs /\ d \in Dirs /\ loaded \subseteq Dirs
  BY CurrentIsPwd DEF FMInv, Typed
<1>2. cursor' = [cursor EXCEPT ![d] = e]
  BY DEF MoveCursor
<1>3. /\ CursorsBelow(cursor') /\ cursor'[d] = e
      /\ \A x \in Dirs \ {d} : cursor'[x] = cursor[x]
  BY <1>1, <1>2, CursorSet
<1>4. UNCHANGED <<loaded, cwd, chdir, overtaken, exists, adds>>
  BY DEF MoveCursor, Unmoved
<1>5. CASE d = Current
  <2>1. CursorMoved(immediate, View, fm, e)
    BY <1>5 DEF MoveCursor
  <2>2. e \in Dirs => Below(e, fm.pwd)
    BY <1>1, <1>5, ContentBelow
  <2>3. PanesOK(View, fm.pwd, Range(fm.visible), adds, exists)
    BY DEF FMInv, Panes
  <2> QED
    BY <1>1, <1>3, <1>4, <1>5, <2>1, <2>2, <2>3, FmPreview, CursorMovedInv
<1>6. CASE d # Current
  <2>1. UNCHANGED <<fm, loading, shown, wds, byWd, kernel, addPreview, resting, returned>>
    BY <1>6 DEF MoveCursor
  <2>2. View' = View
    BY <2>1 DEF View, Watches
  <2>3. Previewed'
    BY <1>1, <1>3, <1>4, <1>6, <2>1 DEF FMInv, Previewed, CurrentFile, PreviewOf
  <2>4. Unmoving /\ resting' \in BOOLEAN /\ returned' \in BOOLEAN /\ adds' \subseteq Range(fm.visible)
    BY <1>4, <2>1 DEF Unmoving, FMInv, Typed
  <2> QED
    BY <1>1, <1>3, <1>4, <2>2, <2>3, <2>4, UnmovingInv DEF FMInv, Panes
<1> QED
  BY <1>5, <1>6

LEMMA CursorRestsKeeps ==
  ASSUME TreeAssumption, ColumnsAssumption, FMInv, CursorRests
  PROVE  FMInv'
<1>1. PICK file : file = CurrentFile(fm.pwd)
  OBVIOUS
<1>2. Current = fm.pwd /\ Chained(fm.visible, fm.pwd)
  BY CurrentIsPwd DEF FMInv
<1>3. file \in Dirs => Below(file, fm.pwd)
  BY <1>1, CurrentFileBelow DEF FMInv
<1>4. PICK u : u = UpdatePreview(View, file)
  OBVIOUS
<1>5. /\ PanesOK(u, fm.pwd, Range(fm.visible), adds, exists)
      /\ fm.on => u.preview = PreviewOf(file)
  BY <1>2, <1>3, <1>4, UpdatePreviewOK DEF FMInv, Panes, PreviewOf
<1>6. SetView(u) /\ fm' = [fm EXCEPT !.preview = u.preview]
  BY <1>1, <1>2, <1>4 DEF CursorRests
<1>7. u.preview \in Dirs \cup {None}
  BY <1>5 DEF PanesOK, Below
<1>8. /\ fm' \in FMs /\ fm'.pwd = fm.pwd /\ fm'.on = fm.on /\ fm'.visible = fm.visible
      /\ fm'.preview = u.preview
  BY <1>6, <1>7, FmPreview, PreviewSet
<1>9. View' = u
  BY <1>5, <1>6, <1>8, ViewSet
<1>10. /\ UNCHANGED <<cwd, chdir, overtaken, exists, adds, loaded, cursor>>
       /\ resting' = FALSE /\ returned' = FALSE
  BY DEF CursorRests, Unmoved
<1>11. Previewed'
  BY <1>1, <1>5, <1>8, <1>10 DEF Previewed, CurrentFile, PreviewOf
<1>12. Unmoving /\ CursorsBelow(cursor') /\ loaded' \subseteq Dirs /\ adds' \subseteq Range(fm.visible)
  BY <1>8, <1>10 DEF Unmoving, FMInv, Typed
<1> QED
  BY <1>5, <1>9, <1>10, <1>11, <1>12, UnmovingInv

LEMMA SetPreviewKeeps ==
  ASSUME TreeAssumption, ColumnsAssumption, FMInv, NEW on \in BOOLEAN, SetPreview(on)
  PROVE  FMInv'
<1> DEFINE file == CurrentFile(fm.pwd)
           s == Columned(fm.pwd, on)
<1>1. fm.pwd \in Dirs /\ Chained(s, fm.pwd) /\ Chained(fm.visible, fm.pwd)
  BY CurrentIsPwd, ColumnedChained DEF FMInv
<1>2. PICK v : v = Populated(fm.pwd, on, RemovePreview(View))
  OBVIOUS
<1>3. PanesOK(v, fm.pwd, Range(s), Range(s), exists) /\ v.preview = None
  <2>1. PICK u : u = RemovePreview(View)
    OBVIOUS
  <2>2. Shaped(u)
    BY <1>1, <2>1, RemovePreviewOK DEF FMInv, Panes, PanesOK, Shaped
  <2> QED
    BY <1>1, <1>2, <2>1, <2>2, PopulatedOK
<1>4. file \in Dirs => Below(file, fm.pwd)
  BY CurrentFileBelow DEF FMInv
<1>5. PICK u : u = IF on /\ file \in Dirs
                   THEN [v EXCEPT !.preview = file, !.shown = @ \cup {file},
                                  !.add = file, !.loading = @ \cup {file}]
                   ELSE v
  OBVIOUS
<1>6. SetView(u) /\ fm' = [fm EXCEPT !.on = on, !.visible = s, !.preview = u.preview]
  BY <1>2, <1>5 DEF SetPreview
<1>7. /\ adds' = Range(s) /\ cursor' = Pointed(s, cursor) /\ returned' = FALSE
      /\ UNCHANGED <<exists, cwd, loaded, chdir, resting, overtaken>>
  BY DEF SetPreview, AddVisible
<1> HIDE DEF file, s
<1>8. /\ PanesOK(u, fm.pwd, Range(s), Range(s), exists)
      /\ u.preview = IF on THEN PreviewOf(file) ELSE None
  <2>1. CASE on /\ file \in Dirs
    <3>1. u = [preview |-> file, shown |-> v.shown \cup {file}, watches |-> v.watches,
               add |-> file, loading |-> v.loading \cup {file}]
      BY <1>3, <1>5, <2>1 DEF PanesOK
    <3>2. PanesOK([preview |-> file, shown |-> v.shown \cup {file}, watches |-> v.watches,
                   add |-> file, loading |-> v.loading \cup {file}],
                  fm.pwd, Range(s), Range(s), exists)
      BY <1>3, <1>4, <2>1 DEF PanesOK, Marked
    <3>3. u.preview = file
      BY <3>1
    <3> QED
      BY <2>1, <3>1, <3>2, <3>3 DEF PreviewOf
  <2>2. CASE ~(on /\ file \in Dirs)
    BY <1>3, <1>5, <2>2 DEF PreviewOf
  <2> QED
    BY <2>1, <2>2
<1>9. u.preview \in Dirs \cup {None}
  BY <1>8 DEF PreviewOf
<1>10. /\ fm' \in FMs /\ fm'.pwd = fm.pwd /\ fm'.on = on /\ fm'.visible = s
       /\ fm'.preview = u.preview
  <2>1. s \in Seq(Dirs)
    BY <1>1 DEF Chained
  <2>2. fm \in FMs
    BY FmPreview
  <2> DEFINE m == [fm EXCEPT !.on = on, !.visible = s, !.preview = u.preview]
  <2>3. /\ m = [x \in {"pwd", "automark", "visible", "preview", "on"} |-> m[x]]
        /\ m.pwd = fm.pwd /\ m.on = on /\ m.visible = s /\ m.preview = u.preview
        /\ m.automark = fm.automark
    BY <2>2 DEF FMs
  <2> HIDE DEF m
  <2>4. m \in FMs
    BY <1>9, <2>1, <2>2, <2>3 DEF FMs
  <2> QED
    BY <1>6, <2>3, <2>4 DEF m
<1>11. View' = u
  BY <1>6, <1>8, <1>10, ViewSet
<1>12. CursorsBelow(cursor') /\ \A d \in Dirs \cap loaded : cursor'[d] = cursor[d]
  BY <1>1, <1>7, PointedBelow DEF FMInv
<1>13. Arrived(fm.pwd, on)
  BY <1>7, <1>8, <1>10, <1>11, <1>12 DEF Arrived, FMInv, Typed, s
<1>14. Previewed'
  <2>1. CurrentFile(fm.pwd)' = file
    BY <1>1, <1>7, <1>10, <1>12 DEF CurrentFile, file
  <2> QED
    BY <1>8, <1>10, <2>1 DEF Previewed, PreviewOf
<1>15. Following'
  BY <1>7, <1>10 DEF FMInv, Following
<1> QED
  BY <1>1, <1>7, <1>13, <1>14, <1>15, ArrivedInv DEF FMInv, Typed

LEMMA DropCacheKeeps ==
  ASSUME TreeAssumption, ColumnsAssumption, FMInv, DropCache
  PROVE  FMInv'
<1> DEFINE s == fm.visible
<1>1. fm.pwd \in Dirs /\ Chained(s, fm.pwd) /\ s = Columned(fm.pwd, fm.on)
      /\ Range(s) \subseteq Dirs /\ fm.on \in BOOLEAN
  BY CurrentIsPwd DEF FMInv, Typed, FMs
<1>2. PICK v : v = Populated(fm.pwd, fm.on, [RemovePreview(View) EXCEPT !.shown = {},
                                                                        !.loading = {}])
  OBVIOUS
<1>3. PanesOK(v, fm.pwd, Range(s), Range(s), exists) /\ v.preview = None
  <2>1. PICK u : u = RemovePreview(View)
    OBVIOUS
  <2>2. Shaped(u)
    BY <1>1, <2>1, RemovePreviewOK DEF FMInv, Panes, PanesOK, Shaped
  <2>3. PICK w : w = [u EXCEPT !.shown = {}, !.loading = {}]
    OBVIOUS
  <2>4. w = [preview |-> u.preview, shown |-> {}, watches |-> u.watches,
             add |-> u.add, loading |-> {}]
    BY <2>2, <2>3 DEF Shaped
  <2>5. Shaped(w)
    BY <2>4 DEF Shaped
  <2> QED
    BY <1>1, <1>2, <2>1, <2>3, <2>5, PopulatedOK
<1>4. PICK u : u = [v EXCEPT !.shown = Range(s)]
  OBVIOUS
<1>5. PanesOK(u, fm.pwd, Range(s), Range(s), exists) /\ u.preview = None
  <2>1. u = [preview |-> None, shown |-> Range(s), watches |-> v.watches,
             add |-> v.add, loading |-> v.loading]
    BY <1>3, <1>4 DEF PanesOK
  <2>2. PanesOK([preview |-> None, shown |-> Range(s), watches |-> v.watches,
                 add |-> v.add, loading |-> v.loading], fm.pwd, Range(s), Range(s), exists)
    BY <1>1, <1>3 DEF PanesOK, Marked
  <2> QED
    BY <2>1, <2>2
<1>6. SetView(u) /\ fm' = [fm EXCEPT !.preview = None]
  BY <1>2, <1>4 DEF DropCache
<1>7. /\ fm' \in FMs /\ fm'.pwd = fm.pwd /\ fm'.on = fm.on /\ fm'.visible = s
      /\ fm'.preview = None
  BY <1>6, FmPreview, PreviewSet
<1>8. View' = u
  BY <1>5, <1>6, <1>7, ViewSet
<1>9. /\ loaded' = {} /\ adds' = Range(s) /\ resting' = FALSE /\ returned' = FALSE
      /\ UNCHANGED <<exists, cwd, chdir, overtaken>>
  BY <1>1 DEF DropCache, AddVisible
<1>10. CursorsBelow(cursor')
  <2> DEFINE c == [d \in Dirs |-> None]
  <2>1. CursorsBelow(c)
    BY DEF CursorsBelow, TreeAssumption
  <2>2. cursor' = [d \in Dirs |-> IF \E i \in 2..Len(s) : s[i] = d
                                  THEN s[(CHOOSE i \in 2..Len(s) : s[i] = d) - 1] ELSE None]
    BY DEF DropCache
  <2>3. \A d \in Dirs : \/ cursor'[d] = c[d]
                        \/ \E i \in 2..Len(s) : s[i] = d /\ cursor'[d] = s[i - 1]
    <3> HIDE DEF s
    <3> QED
      BY <2>2
  <2>4. cursor' = [d \in Dirs |-> cursor'[d]]
    BY <2>2
  <2> HIDE DEF c
  <2> QED
    BY <1>1, <2>1, <2>3, <2>4, PointingBelow
<1>11. Previewed'
  BY <1>7, <1>9 DEF Previewed, PreviewOf, CurrentFile, TreeAssumption
<1>12. Unmoving /\ adds' \subseteq Range(fm.visible) /\ loaded' \subseteq Dirs
  BY <1>7, <1>9 DEF Unmoving
<1> QED
  BY <1>5, <1>8, <1>9, <1>10, <1>11, <1>12, UnmovingInv

LEMMA ReloadKeeps ==
  ASSUME TreeAssumption, ColumnsAssumption, FMInv, Reload
  PROVE  FMInv'
<1>1. /\ UNCHANGED <<exists, cwd, chdir, adds, overtaken, fm, loaded, cursor, shown, wds, byWd,
                     kernel, addPreview, resting, returned>>
      /\ loading' = loading \cup Range(fm.visible) \cup ({fm.preview} \ {None})
  BY DEF Reload, Unmoved
<1>2. Range(fm.visible) \subseteq Dirs /\ fm.preview \in Dirs \cup {None} /\ fm \in FMs
      /\ loading \subseteq Dirs
  BY CurrentIsPwd, FmPreview DEF FMInv, Panes, PanesOK, View
<1>3. loading' \subseteq Dirs
  BY <1>1, <1>2
<1>4. /\ View'.preview = View.preview /\ View'.shown = View.shown
      /\ View'.watches = View.watches /\ View'.add = View.add /\ View'.loading = loading'
      /\ View' = [preview |-> View'.preview, shown |-> View'.shown, watches |-> View'.watches,
                  add |-> View'.add, loading |-> View'.loading]
  BY <1>1 DEF View, Watches
<1>5. PanesOK(View', fm.pwd, Range(fm.visible), adds', exists)
  <2>1. PanesOK(View, fm.pwd, Range(fm.visible), adds, exists)
    BY DEF FMInv, Panes
  <2>2. PICK v : v = View
    OBVIOUS
  <2>3. PICK w : w = View'
    OBVIOUS
  <2>4. PanesOK(w, fm.pwd, Range(fm.visible), adds, exists)
    BY <1>3, <1>4, <2>1, <2>2, <2>3 DEF PanesOK, Marked
  <2> QED
    BY <1>1, <2>3, <2>4
<1>6. Previewed'
  BY <1>1 DEF FMInv, Previewed, CurrentFile
<1>7. Unmoving /\ CursorsBelow(cursor') /\ loaded' \subseteq Dirs /\ adds' \subseteq Range(fm.visible)
      /\ resting' \in BOOLEAN /\ returned' \in BOOLEAN
  BY <1>1, <1>2 DEF Unmoving, FMInv, Typed
<1> QED
  BY <1>5, <1>6, <1>7, UnmovingInv

-----------------------------------------------------------------------------
(* Threads and their results *)

LEMMA OpenDestKeeps ==
  ASSUME TreeAssumption, FMInv, OpenDest
  PROVE  FMInv'
<1>1. UNCHANGED <<exists, fm, cwd, loaded, loading, cursor, shown, wds, byWd, kernel, adds,
                  addPreview, resting, overtaken, returned>>
  BY DEF OpenDest
<1>2. chdir \in ChdirWork
  BY DEF OpenDest, FMInv, Typed
<1>3. /\ chdir' = [chdir EXCEPT !.opened = IF chdir.dest \in exists THEN "yes" ELSE "failed"]
      /\ chdir # None
  BY DEF OpenDest
<1>4. chdir' \in ChdirWork /\ chdir'.dest = chdir.dest
      /\ (chdir'.opened = "failed" => chdir.dest \notin exists)
  BY <1>2, <1>3 DEF ChdirWork
<1>5. chdir' # None
  BY <1>4 DEF TreeAssumption
<1>6. Following'
  BY <1>1, <1>3, <1>4, <1>5 DEF FMInv, Following
<1>7. Panes' /\ Previewed' /\ CursorsBelow(cursor)'
  BY <1>1 DEF FMInv, Panes, View, Watches, Previewed, CurrentFile
<1>8. Typed'
  BY <1>1, <1>4 DEF FMInv, Typed
<1> QED
  BY <1>6, <1>7, <1>8 DEF FMInv

LEMMA ChdirDoneKeeps ==
  ASSUME TreeAssumption, ColumnsAssumption, FMInv, ChdirDone
  PROVE  FMInv'
<1>1. /\ chdir # None /\ chdir \in ChdirWork /\ chdir' = None /\ chdir.opened # "no"
      /\ UNCHANGED <<exists, loaded, resting, overtaken>>
  BY DEF ChdirDone, FMInv, Typed
<1>2. chdir.dest \in Dirs /\ chdir.origin \in Dirs /\ chdir.opened \in {"no", "yes", "failed"}
  BY <1>1 DEF ChdirWork
<1>3. CASE chdir.opened = "yes" /\ chdir.dest \notin NoEntry
  <2>1. /\ cwd' = chdir.dest
        /\ UNCHANGED <<fm, loading, cursor, shown, wds, byWd, kernel, adds, addPreview, returned>>
    BY <1>3 DEF ChdirDone
  <2>2. Following'
    BY <1>1, <2>1 DEF FMInv, Following
  <2>3. Panes' /\ Previewed' /\ CursorsBelow(cursor)'
    BY <1>1, <2>1 DEF FMInv, Panes, View, Watches, Previewed, CurrentFile
  <2>4. Typed'
    BY <1>1, <1>2, <2>1 DEF FMInv, Typed
  <2> QED
    BY <2>2, <2>3, <2>4 DEF FMInv
<1>4. CASE /\ ~(chdir.opened = "yes" /\ chdir.dest \notin NoEntry)
           /\ chdir.origin \in exists \ NoEntry
  <2> DEFINE path == chdir.origin
             s == Columned(path, fm.on)
  <2>1. fm.on \in BOOLEAN /\ loaded \subseteq Dirs /\ resting \in BOOLEAN /\ overtaken \in BOOLEAN
    BY DEF FMInv, Typed, FMs
  <2>2. Chained(s, path) /\ Chained(fm.visible, fm.pwd)
    BY <1>2, <2>1, ColumnedChained, CurrentIsPwd DEF FMInv
  <2>3. PICK v : v = Populated(path, fm.on, RemovePreview(View))
    OBVIOUS
  <2>4. PanesOK(v, path, Range(s), Range(s), exists) /\ v.preview = None
    <3>1. PICK u : u = RemovePreview(View)
      OBVIOUS
    <3>2. Shaped(u)
      BY <2>2, <3>1, RemovePreviewOK DEF FMInv, Panes, PanesOK, Shaped
    <3> QED
      BY <1>2, <2>1, <2>3, <3>1, <3>2, PopulatedOK
  <2>5. /\ SetView(v) /\ fm' = Moved(path, FALSE) /\ adds' = Range(s)
        /\ cursor' = Pointed(s, cursor) /\ cwd' = path /\ returned' = TRUE
    BY <1>4, <2>3 DEF ChdirDone, AddVisible
  <2>6. /\ fm' \in FMs /\ fm'.pwd = path /\ fm'.on = fm.on /\ fm'.visible = s
        /\ fm'.preview = None
    BY <1>2, <2>5, MovedTyped DEF FMInv
  <2>7. View' = v
    BY <2>4, <2>5, <2>6, ViewSet
  <2>8. CursorsBelow(cursor')
    BY <2>2, <2>5, PointedBelow DEF FMInv
  <2>9. Arrived(path, fm.on)
    BY <1>1, <2>1, <2>4, <2>5, <2>6, <2>7, <2>8 DEF Arrived
  <2>10. Previewed' /\ Following'
    BY <1>1, <2>5, <2>6 DEF Previewed, Following
  <2> QED
    BY <1>1, <1>2, <2>1, <2>5, <2>9, <2>10, ArrivedInv
<1>5. CASE /\ ~(chdir.opened = "yes" /\ chdir.dest \notin NoEntry)
           /\ chdir.origin \notin exists \ NoEntry
  <2>1. UNCHANGED <<fm, cwd, loading, cursor, shown, wds, byWd, kernel, adds, addPreview, returned>>
    BY <1>5 DEF ChdirDone
  <2>2. chdir.dest \notin exists \ NoEntry
    BY <1>1, <1>2, <1>5 DEF FMInv, Following
  <2>3. Following'
    BY <1>1, <2>1, <2>2 DEF FMInv, Following
  <2>4. Panes' /\ Previewed' /\ CursorsBelow(cursor)'
    BY <1>1, <2>1 DEF FMInv, Panes, View, Watches, Previewed, CurrentFile
  <2>5. Typed'
    BY <1>1, <2>1 DEF FMInv, Typed
  <2> QED
    BY <2>3, <2>4, <2>5 DEF FMInv
<1> QED
  BY <1>3, <1>4, <1>5

\* A work that watches d is done.
LEMMA AddedPanes ==
  ASSUME TreeAssumption, FMInv, NEW d \in Dirs, SetWatches(Added(Watches, d)),
         UNCHANGED <<exists, fm, shown, loading>>,
         adds' = adds \/ (adds' = adds \ {d} /\ addPreview' = addPreview),
         addPreview' = addPreview \/ (addPreview = d /\ addPreview' = None /\ adds' = adds)
  PROVE  Panes'
<1>1. PICK w : w = Added(Watches, d)
  OBVIOUS
<1>2. /\ PanesOK(View, fm.pwd, Range(fm.visible), adds, exists)
      /\ View.watches = Watches /\ View.add = addPreview /\ View.shown = shown
      /\ View.loading = loading /\ View.preview = fm.preview
  BY DEF FMInv, Panes, View
<1>3. WatchesOK(Watches, exists)
  BY <1>2 DEF PanesOK
<1>4. /\ WatchesOK(w, exists) /\ DOMAIN Watches.wds \subseteq DOMAIN w.wds
      /\ d \in exists \ Unwatched => d \in DOMAIN w.wds
  BY <1>1, <1>3, AddedOK
<1>5. w = [wds |-> wds', byWd |-> byWd', kernel |-> kernel']
  BY <1>1, <1>4 DEF SetWatches, WatchesOK
<1>6. View' = [preview |-> fm.preview, shown |-> shown, watches |-> w,
               add |-> addPreview', loading |-> loading]
  BY <1>5 DEF View, Watches
<1>7. PICK v : v = View
  OBVIOUS
<1>8. PICK u : u = View'
  OBVIOUS
<1>9. \A x \in (Range(fm.visible) \cup ({fm.preview} \ {None})) \cap (exists \ Unwatched) :
        x \in adds' \/ addPreview' = x \/ x \in DOMAIN w.wds
  BY <1>2, <1>4, <1>7 DEF PanesOK
<1>10. addPreview' = None \/ Below(addPreview', fm.pwd)
  BY <1>2, <1>7 DEF PanesOK
<1>11. PanesOK(u, fm.pwd, Range(fm.visible), adds', exists)
  BY <1>2, <1>4, <1>6, <1>7, <1>8, <1>9, <1>10 DEF PanesOK, Marked
<1> QED
  BY <1>8, <1>11 DEF Panes

LEMMA AddKeeps ==
  ASSUME TreeAssumption, ColumnsAssumption, FMInv,
         (\E d \in adds : AddDone(d)) \/ AddPreviewDone
  PROVE  FMInv'
<1>1. UNCHANGED <<exists, fm, cwd, loaded, loading, cursor, shown, chdir, resting, overtaken,
                  returned>>
  BY DEF AddDone, AddPreviewDone
<1>2. Panes' /\ adds' \subseteq adds
  <2>1. CASE \E d \in adds : AddDone(d)
    <3>1. PICK d \in adds : AddDone(d)
      BY <2>1
    <3>2. d \in Dirs
      BY CurrentIsPwd DEF FMInv, Typed
    <3>3. SetWatches(Added(Watches, d)) /\ adds' = adds \ {d} /\ addPreview' = addPreview
      BY <3>1 DEF AddDone
    <3>4. UNCHANGED <<exists, fm, shown, loading>>
      BY <1>1
    <3>5. adds' = adds \/ (adds' = adds \ {d} /\ addPreview' = addPreview)
      BY <3>3
    <3>6. addPreview' = addPreview \/ (addPreview = d /\ addPreview' = None /\ adds' = adds)
      BY <3>3
    <3>7. Panes'
      BY <3>2, <3>3, <3>4, <3>5, <3>6, AddedPanes
    <3> QED
      BY <3>3, <3>7
  <2>2. CASE AddPreviewDone
    <3>1. /\ SetWatches(Added(Watches, addPreview)) /\ addPreview' = None /\ adds' = adds
          /\ addPreview # None
      BY <2>2 DEF AddPreviewDone
    <3>2. addPreview \in Dirs
      BY <3>1 DEF FMInv, Panes, PanesOK, View, Below
    <3>3. UNCHANGED <<exists, fm, shown, loading>>
      BY <1>1
    <3>4. adds' = adds \/ (adds' = adds \ {addPreview} /\ addPreview' = addPreview)
      BY <3>1
    <3>5. \/ addPreview' = addPreview
          \/ addPreview = addPreview /\ addPreview' = None /\ adds' = adds
      BY <3>1
    <3>6. Panes'
      BY <3>1, <3>2, <3>3, <3>4, <3>5, AddedPanes
    <3> QED
      BY <3>1, <3>6
  <2> QED
    BY <2>1, <2>2
<1>3. Following' /\ Previewed' /\ CursorsBelow(cursor)'
  BY <1>1 DEF FMInv, Following, Previewed, CurrentFile
<1>4. Typed'
  BY <1>1, <1>2 DEF FMInv, Typed
<1> QED
  BY <1>2, <1>3, <1>4 DEF FMInv

LEMMA LoadDoneKeeps ==
  ASSUME TreeAssumption, ColumnsAssumption, FMInv, NEW d \in loading, LoadDone(d)
  PROVE  FMInv'
<1>1. PICK e \in IF d \notin exists THEN {None}
                 ELSE IF cursor[d] \in Content(d) THEN {cursor[d]} ELSE Content(d) :
        /\ cursor' = [cursor EXCEPT ![d] = e]
        /\ LET v == [View EXCEPT !.loading = @ \ {d}]
           IN IF d \in shown /\ d = Current THEN CursorMoved(TRUE, v, fm, e)
              ELSE SetView(v) /\ UNCHANGED <<fm, resting, returned>>
  BY DEF LoadDone
<1>2. e \in Content(d) \cup {None}
  BY <1>1
<1>3. d \in Dirs
  BY DEF FMInv, Panes, PanesOK, View
<1>4. /\ CursorsBelow(cursor') /\ cursor'[d] = e
      /\ \A x \in Dirs \ {d} : cursor'[x] = cursor[x]
  BY <1>1, <1>2, <1>3, CursorSet
<1>5. /\ UNCHANGED <<exists, cwd, chdir, adds, overtaken>> /\ loaded' = loaded \cup {d}
      /\ loaded' \subseteq Dirs
  BY <1>3 DEF LoadDone, FMInv, Typed
<1>6. Current = fm.pwd /\ fm.pwd \in Dirs /\ fm.pwd \in Range(fm.visible)
  <2>1. Chained(fm.visible, fm.pwd)
    BY CurrentIsPwd DEF FMInv
  <2>2. fm.visible[1] = fm.pwd /\ 1 \in DOMAIN fm.visible
    BY <2>1 DEF Chained
  <2> QED
    BY <2>2, CurrentIsPwd DEF FMInv, Range
<1>7. PICK v : v = [View EXCEPT !.loading = @ \ {d}]
  OBVIOUS
<1>8. PanesOK(v, fm.pwd, Range(fm.visible), adds, exists) /\ v.preview = fm.preview
  <2>1. v = [preview |-> fm.preview, shown |-> shown, watches |-> Watches,
             add |-> addPreview, loading |-> loading \ {d}]
    BY <1>7 DEF View
  <2>2. PICK w : w = Watches
    OBVIOUS
  <2>3. PanesOK([preview |-> fm.preview, shown |-> shown, watches |-> w,
                 add |-> addPreview, loading |-> loading],
                fm.pwd, Range(fm.visible), adds, exists)
    BY <2>2 DEF FMInv, Panes, View
  <2>4. PanesOK([preview |-> fm.preview, shown |-> shown, watches |-> w,
                 add |-> addPreview, loading |-> loading \ {d}],
                fm.pwd, Range(fm.visible), adds, exists)
    BY <2>3 DEF PanesOK, Marked
  <2> QED
    BY <2>1, <2>2, <2>4
<1>9. CASE d \in shown /\ d = Current
  <2>1. CursorMoved(TRUE, v, fm, e)
    BY <1>1, <1>7, <1>9
  <2>2. e \in Dirs => Below(e, fm.pwd)
    BY <1>2, <1>3, <1>6, <1>9, ContentBelow
  <2>3. cursor'[fm.pwd] = e /\ fm.pwd \in loaded'
    BY <1>4, <1>5, <1>6, <1>9
  <2> QED
    BY <1>4, <1>5, <1>8, <2>1, <2>2, <2>3, CursorMovedInv
<1>10. CASE ~(d \in shown /\ d = Current)
  <2>1. SetView(v) /\ UNCHANGED <<fm, resting, returned>>
    BY <1>1, <1>7, <1>10
  <2>2. View' = v
    BY <1>8, <2>1, ViewSet
  <2>3. d # fm.pwd
    BY <1>6, <1>10 DEF FMInv, Panes, PanesOK, Marked, View
  <2>4. Previewed'
    BY <1>4, <1>5, <1>6, <2>1, <2>3 DEF FMInv, Previewed, CurrentFile, PreviewOf
  <2>5. Unmoving /\ resting' \in BOOLEAN /\ returned' \in BOOLEAN /\ adds' \subseteq Range(fm.visible)
    BY <1>5, <2>1 DEF Unmoving, FMInv, Typed
  <2> QED
    BY <1>4, <1>5, <1>8, <2>2, <2>4, <2>5, UnmovingInv
<1> QED
  BY <1>9, <1>10

LEMMA DeleteKeeps ==
  ASSUME TreeAssumption, ColumnsAssumption, FMInv, NEW d \in exists, Delete(d)
  PROVE  FMInv'
<1>1. /\ exists' = exists \ {d} /\ kernel' = kernel \ {Inode[d]}
      /\ \A e \in Dirs \ {d} : Inode[e] # Inode[d]
      /\ UNCHANGED <<fm, cwd, loaded, loading, cursor, shown, wds, byWd, chdir, adds,
                     addPreview, resting, overtaken, returned>>
  BY DEF Delete
<1>2. PICK w : w = Watches
  OBVIOUS
<1>3. PICK x : x = Watches'
  OBVIOUS
<1>4. WatchesOK(w, exists)
  BY <1>2 DEF FMInv, Panes, PanesOK, View
<1>5. /\ w.wds = wds /\ w.byWd = byWd /\ w.kernel = kernel
      /\ x = [wds |-> wds, byWd |-> byWd, kernel |-> kernel \ {Inode[d]}]
  BY <1>1, <1>2, <1>3 DEF Watches
<1>6. WatchesOK(x, exists')
  BY <1>1, <1>4, <1>5 DEF WatchesOK
<1>7. View' = [preview |-> fm.preview, shown |-> shown, watches |-> x,
               add |-> addPreview, loading |-> loading]
  BY <1>1, <1>3 DEF View
<1>8. PanesOK([preview |-> fm.preview, shown |-> shown, watches |-> w,
               add |-> addPreview, loading |-> loading],
              fm.pwd, Range(fm.visible), adds, exists)
  BY <1>2 DEF FMInv, Panes, View
<1>9. PanesOK([preview |-> fm.preview, shown |-> shown, watches |-> x,
               add |-> addPreview, loading |-> loading],
              fm.pwd, Range(fm.visible), adds, exists')
  BY <1>1, <1>5, <1>6, <1>8 DEF PanesOK, Marked
<1>10. Panes'
  BY <1>1, <1>7, <1>9 DEF Panes
<1>11. Typed' /\ Following' /\ CursorsBelow(cursor)'
  BY <1>1 DEF FMInv, Typed, Following
<1>12. Previewed'
  BY <1>1 DEF FMInv, Previewed, CurrentFile
<1> QED
  BY <1>10, <1>11, <1>12 DEF FMInv

-----------------------------------------------------------------------------
(* Theorems *)

LEMMA NextKeeps ==
  ASSUME TreeAssumption, ColumnsAssumption, FMInv, [Next]_vars
  PROVE  FMInv'
<1>1. CASE \E d \in Dirs, save \in BOOLEAN : AsyncChdir(d, save) \/ SyncChdir(d, save)
  BY <1>1, AsyncChdirKeeps, SyncChdirKeeps
<1>2. CASE JumpAutomark \/ Open \/ Updir \/ DropCache \/ Reload \/ CursorRests
  BY <1>2, JumpAutomarkKeeps, OpenKeeps, UpdirKeeps, DropCacheKeeps, ReloadKeeps,
     CursorRestsKeeps
<1>3. CASE \E d \in loaded, immediate \in BOOLEAN : \E e \in Content(d) :
             MoveCursor(d, e, immediate)
  BY <1>3, MoveCursorKeeps
<1>4. CASE \E on \in BOOLEAN : SetPreview(on)
  BY <1>4, SetPreviewKeeps
<1>5. CASE \E d \in exists : Delete(d)
  BY <1>5, DeleteKeeps
<1>6. CASE OpenDest \/ ChdirDone \/ (\E d \in adds : AddDone(d)) \/ AddPreviewDone
  BY <1>6, OpenDestKeeps, ChdirDoneKeeps, AddKeeps
<1>7. CASE \E d \in loading : LoadDone(d)
  BY <1>7, LoadDoneKeeps
<1>8. CASE UNCHANGED vars
  BY <1>8 DEF vars, FMInv, Typed, Following, Panes, View, Watches, Previewed, CurrentFile
<1> QED
  BY <1>1, <1>2, <1>3, <1>4, <1>5, <1>6, <1>7, <1>8 DEF Next, Threads

\* The invariant of the file manager: its parts are named above.
THEOREM Invariant ==
  ASSUME TreeAssumption, ColumnsAssumption
  PROVE  Spec => []FMInv
<1>1. Init => FMInv
  BY InitInv
<1>2. FMInv /\ [Next]_vars => FMInv'
  BY NextKeeps
<1> QED
  BY <1>1, <1>2, PTL DEF Spec

LEMMA InvTypes ==
  ASSUME TreeAssumption, ColumnsAssumption, FMInv
  PROVE  TypeOK
<1>1. /\ DOMAIN wds \subseteq Dirs
      /\ Range(byWd) \subseteq DOMAIN wds
      /\ loading \subseteq Dirs /\ shown \subseteq Dirs
  BY DEF FMInv, Panes, PanesOK, WatchesOK, View, Watches, Range
<1>2. /\ fm.pwd \in Dirs /\ fm.automark \in Dirs \cup {None}
      /\ fm.preview \in Dirs \cup {None} /\ fm.on \in BOOLEAN
  BY DEF FMInv, Typed, FMs
<1> QED
  BY <1>1, <1>2 DEF TypeOK, FMInv, Typed, CursorsBelow

\* The type invariant: pwd, the columns, the cursors, the tables of watches and the work
\* underway are about directories; the columns are those of pwd.
THEOREM TypeCorrect ==
  ASSUME TreeAssumption, ColumnsAssumption
  PROVE  Spec => []TypeOK
<1>1. FMInv => TypeOK
  BY InvTypes
<1> QED
  BY <1>1, Invariant, PTL

\* The process is where the file manager says, once no change is underway, however
\* threads, failures and calls mixed.
THEOREM ProcessIsWhereShown ==
  ASSUME TreeAssumption, ColumnsAssumption
  PROVE  Spec => []ProcessFollows
<1>1. FMInv => ProcessFollows
  BY DEF FMInv, Following, ProcessFollows
<1> QED
  BY <1>1, Invariant, PTL

\* What is on the screen is watched as soon as no work to that end is left, and the
\* kernel watches nothing that the tables do not know.
THEOREM ScreenIsWatched ==
  ASSUME TreeAssumption, ColumnsAssumption
  PROVE  Spec => []WatchesFollowPanes
<1>1. FMInv => WatchesFollowPanes
  <2> SUFFICES ASSUME FMInv PROVE WatchesFollowPanes
    OBVIOUS
  <2>1. WatchesOK(Watches, exists)
    BY DEF FMInv, Panes, PanesOK, View
  <2>2. WatchesAreKnown
    BY <2>1 DEF WatchesOK, Watches, WatchesAreKnown
  <2>3. ASSUME NEW d \in (Range(fm.visible) \cup {fm.preview}) \cap (exists \ Unwatched),
               Alone(d), ~Awaited(d)
        PROVE  Reloaded(Inode[d]) = {d}
    <3>1. d \in Dirs /\ d # None /\ d \in exists
      BY DEF FMInv, Typed, TreeAssumption
    <3>2. d \in DOMAIN wds
      BY <2>3, <3>1 DEF FMInv, Panes, PanesOK, View, Watches, Awaited
    <3>3. Inode[d] \in DOMAIN byWd /\ Inode[d] \in kernel
      BY <2>1, <2>3, <3>1, <3>2 DEF WatchesOK, Watches
    <3>4. /\ byWd[Inode[d]] \in DOMAIN wds /\ byWd[Inode[d]] \in Dirs
          /\ Inode[byWd[Inode[d]]] = Inode[d]
      BY <2>1, <3>3 DEF WatchesOK, Watches
    <3>5. byWd[Inode[d]] = d
      BY <2>3, <3>4 DEF Alone
    <3> QED
      BY <3>3, <3>5 DEF Reloaded
  <2> QED
    BY <2>2, <2>3 DEF WatchesFollowPanes, ShownAreWatched
<1> QED
  BY <1>1, Invariant, PTL

\* The preview is the directory under the cursor, and what is on the screen is marked
\* as shown, whatever order loads, moves and changes of directory come in.
THEOREM PreviewIsCurrent ==
  ASSUME TreeAssumption, ColumnsAssumption
  PROVE  Spec => []PanesFollowCursor
<1>1. FMInv => PanesFollowCursor
  <2> SUFFICES ASSUME FMInv PROVE PanesFollowCursor
    OBVIOUS
  <2>1. Current = fm.pwd
    BY CurrentIsPwd DEF FMInv
  <2>2. PreviewFollowsCursor
    BY <2>1 DEF FMInv, Previewed, PreviewOf, PreviewFollowsCursor
  <2>3. ShownAreMarked
    BY DEF FMInv, Panes, PanesOK, Marked, View, ShownAreMarked
  <2> QED
    BY <2>2, <2>3 DEF PanesFollowCursor
<1> QED
  BY <1>1, Invariant, PTL

=============================================================================
