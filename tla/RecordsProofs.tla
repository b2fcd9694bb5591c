---------------------------- MODULE RecordsProofs ----------------------------
(***************************************************************************)
(* Proofs about History, for any instances, lines and sizes: what a list   *)
(* and the file hold, and that ending an instance loses nobody's lines.    *)
(* Then about Programs, for any programs and pipes: their output arrives   *)
(* whole, in lines, and before their end is reported.  What the folds of   *)
(* both compute is shown by induction on sequences, stated for sets        *)
(* (SeqIndSet): a fold begins with its base and goes on by one element.    *)
(*                                                                         *)
(* Last about Preview, for any files, pane, changes and works: previews    *)
(* are freed in time and drawn as what they hold, and what the pane shows  *)
(* is the file as it is, and as high as the pane.  There a step of the     *)
(* main thread passes the state along from one function to the next: each  *)
(* part of the invariant is a predicate of that record, with a lemma for   *)
(* each function; PInv puts them together with what is on the screen.      *)
(***************************************************************************)
EXTENDS Records, WellFoundedInduction, FiniteSetTheorems, TLAPS

-----------------------------------------------------------------------------
(* Sequences and folds *)

\* A set of numbers has a least one.
LEMMA NatMin ==
  ASSUME NEW T \in SUBSET Nat, T # {}
  PROVE  \E n \in T : \A m \in T : ~(m < n)
<1> DEFINE R == OpToRel(<, Nat)
<1>1. IsWellFoundedOn(R, Nat)
  BY NatLessThanWellFounded
<1>2. PICK n \in T : \A m \in T : ~(<<m, n>> \in R)
  <2> HIDE DEF R
  <2> QED
    BY <1>1, WFMin
<1>3. \A m \in T : m < n => <<m, n>> \in R
  BY DEF OpToRel
<1> QED
  BY <1>2, <1>3

\* Induction on numbers: a set that has 0 and the successor of each of its elements
LEMMA NatIndSet ==
  ASSUME NEW T, 0 \in T, \A n \in Nat : n \in T => n + 1 \in T
  PROVE  Nat \subseteq T
<1> DEFINE U == Nat \ T
<1>1. SUFFICES ASSUME U # {} PROVE FALSE
  OBVIOUS
<1>2. PICK n \in U : \A m \in U : ~(m < n)
  BY <1>1, NatMin
<1>3. n # 0 /\ n - 1 \in Nat /\ n - 1 \notin U
  BY <1>2
<1> QED
  BY <1>3

\* Induction on sequences
LEMMA SeqIndSet ==
  ASSUME NEW S, NEW T, <<>> \in T, \A s \in Seq(S) : s \in T => \A x \in S : Append(s, x) \in T
  PROVE  Seq(S) \subseteq T
<1> DEFINE N == {n \in Nat : \A s \in Seq(S) : Len(s) = n => s \in T}
<1>1. 0 \in N
  <2> SUFFICES ASSUME NEW s \in Seq(S), Len(s) = 0
               PROVE  s \in T
    OBVIOUS
  <2>1. s = <<>>
    OBVIOUS
  <2> QED
    BY <2>1
<1>2. ASSUME NEW n \in Nat, n \in N
      PROVE  n + 1 \in N
  <2> SUFFICES ASSUME NEW s \in Seq(S), Len(s) = n + 1
               PROVE  s \in T
    OBVIOUS
  <2>1. PICK t : t = SubSeq(s, 1, n)
    OBVIOUS
  <2>2. t \in Seq(S) /\ Len(t) = n /\ s[n + 1] \in S
    BY <2>1
  <2>3. s = Append(t, s[n + 1])
    BY <2>1, <2>2
  <2>4. t \in T
    BY <1>2, <2>2
  <2> QED
    BY <2>2, <2>3, <2>4
<1>3. Nat \subseteq N
  <2> HIDE DEF N
  <2> QED
    BY <1>1, <1>2, NatIndSet
<1> QED
  BY <1>3

\* The largest of some numbers
LEMMA MaxOf ==
  ASSUME NEW n \in Nat, NEW s \in SUBSET (1..n), s # {}
  PROVE  H!Max(s) \in s /\ \A y \in s : y <= H!Max(s)
<1> DEFINE T == {m \in Nat : \A y \in s : y <= m}
<1>1. n \in T
  OBVIOUS
<1>2. PICK m \in T : \A k \in T : ~(k < m)
  <2> HIDE DEF T
  <2>1. T \in SUBSET Nat
    BY DEF T
  <2> QED
    BY <1>1, <2>1, NatMin
<1>3. m \in s
  <2> SUFFICES ASSUME m \notin s
               PROVE  FALSE
    OBVIOUS
  <2>1. m # 0
    <3>1. PICK y : y \in s
      OBVIOUS
    <3>2. y \in 1..n
      BY <3>1
    <3> QED
      BY <3>1, <3>2, <1>2
  <2>2. m - 1 \in T
    BY <2>1, <1>2
  <2> QED
    BY <2>2, <1>2
<1>4. \E x \in s : \A y \in s : x >= y
  BY <1>2, <1>3
<1> QED
  BY <1>4 DEF H!Max

\* What a fold is computed by: a function of the sets of positions
Folds(it, base, g, seq) ==
  \A s \in SUBSET (1..Len(seq)) :
    it[s] = IF s = {} THEN base ELSE g[<<it[s \ {H!Max(s)}], seq[H!Max(s)]>>]

\* What a fold recurs on exists, for a function that gives the next value.
LEMMA FoldExists ==
  ASSUME NEW A, NEW B, NEW base \in A, NEW g \in [A \X B -> A], NEW seq \in Seq(B)
  PROVE  \E it \in [SUBSET (1..Len(seq)) -> A] : Folds(it, base, g, seq)
<1> DEFINE
  Fold(n, it) == \A s \in SUBSET (1..n) :
                    it[s] = IF s = {} THEN base
                            ELSE g[<<it[s \ {H!Max(s)}], seq[H!Max(s)]>>]
  Has(n) == \E it \in [SUBSET (1..n) -> A] : Fold(n, it)
  N == {n \in Nat : n <= Len(seq) => Has(n)}
<1>0. Len(seq) \in Nat
  OBVIOUS
<1>1. 0 \in N
  <2>1. [s \in SUBSET (1..0) |-> base] \in [SUBSET (1..0) -> A]
    OBVIOUS
  <2>2. Fold(0, [s \in SUBSET (1..0) |-> base])
    OBVIOUS
  <2> QED
    BY <2>1, <2>2
<1>2. ASSUME NEW n \in Nat, n \in N
      PROVE  n + 1 \in N
  <2> SUFFICES ASSUME n + 1 <= Len(seq)
               PROVE  Has(n + 1)
    <3> HIDE DEF Has
    <3> QED
      OBVIOUS
  <2>0. Has(n)
    <3> HIDE DEF Has
    <3> QED
      BY <1>0, <1>2
  <2>1. PICK it \in [SUBSET (1..n) -> A] : Fold(n, it)
    BY <2>0
  <2> DEFINE more == [s \in SUBSET (1..(n + 1)) |->
                        IF n + 1 \in s THEN g[<<it[s \ {n + 1}], seq[n + 1]>>] ELSE it[s]]
  <2>2. more \in [SUBSET (1..(n + 1)) -> A]
    <3> SUFFICES ASSUME NEW s \in SUBSET (1..(n + 1))
                 PROVE  (IF n + 1 \in s THEN g[<<it[s \ {n + 1}], seq[n + 1]>>] ELSE it[s]) \in A
      OBVIOUS
    <3>1. s \ {n + 1} \in SUBSET (1..n)
      OBVIOUS
    <3>2. seq[n + 1] \in B
      OBVIOUS
    <3>3. n + 1 \notin s => s \in SUBSET (1..n)
      OBVIOUS
    <3> QED
      BY <3>1, <3>2, <3>3
  <2>3. Fold(n + 1, more)
    <3> SUFFICES ASSUME NEW s \in SUBSET (1..(n + 1))
                 PROVE  more[s] = IF s = {} THEN base
                                  ELSE g[<<more[s \ {H!Max(s)}], seq[H!Max(s)]>>]
      OBVIOUS
    <3>1. CASE n + 1 \in s
      <4>1. H!Max(s) \in s /\ \A y \in s : y <= H!Max(s)
        <5>1. n + 1 \in Nat /\ s # {}
          BY <3>1
        <5> QED
          BY <5>1, MaxOf
      <4>2. H!Max(s) = n + 1
        <5>1. PICK m : m = H!Max(s)
          OBVIOUS
        <5>2. m \in 1..(n + 1) /\ n + 1 <= m
          BY <5>1, <4>1, <3>1
        <5> QED
          BY <5>1, <5>2
      <4>3. s \ {n + 1} \in SUBSET (1..n)
        OBVIOUS
      <4>4. more[s \ {n + 1}] = it[s \ {n + 1}]
        <5>1. s \ {n + 1} \in SUBSET (1..(n + 1))
          OBVIOUS
        <5> QED
          BY <5>1
      <4> QED
        BY <3>1, <4>2, <4>4
    <3>2. CASE n + 1 \notin s /\ s # {}
      <4>1. s \in SUBSET (1..n)
        BY <3>2
      <4>2. more[s] = it[s]
        BY <3>2
      <4>3. H!Max(s) \in s
        BY <3>2, <4>1, MaxOf
      <4>4. more[s \ {H!Max(s)}] = it[s \ {H!Max(s)}]
        <5>1. s \ {H!Max(s)} \in SUBSET (1..(n + 1)) /\ n + 1 \notin s \ {H!Max(s)}
          BY <3>2
        <5> QED
          BY <5>1
      <4>5. it[s] = g[<<it[s \ {H!Max(s)}], seq[H!Max(s)]>>]
        BY <2>1, <4>1, <3>2
      <4> QED
        BY <4>2, <4>4, <4>5, <3>2
    <3>3. CASE s = {}
      <4>1. it[{}] = base
        BY <2>1
      <4> QED
        BY <3>3, <4>1
    <3> QED
      BY <3>1, <3>2, <3>3
  <2> QED
    BY <2>2, <2>3
<1>3. Nat \subseteq N
  <2> HIDE DEF N
  <2> QED
    BY <1>1, <1>2, NatIndSet
<1> QED
  <2>1. Has(Len(seq))
    <3> HIDE DEF Has
    <3> QED
      BY <1>0, <1>3
  <2> QED
    BY <2>1 DEF Folds

\* How the folds of the history go on by an element
Keeping(T, t, x) == IF x \in T THEN Append(t, x) ELSE t
Loading(l, e) == IF Nothing \in {e.prefix, e.line} THEN l
                 ELSE H!AppendOrMove[l][[prefix |-> e.prefix, line |-> e.line, new |-> FALSE]]
Merging(l, e) == IF e.new THEN H!AppendOrMove[l][e] ELSE l

\* Those, element by element
LEMMA ThoseTrail ==
  ASSUME NEW S, NEW T, NEW s \in Seq(S)
  PROVE  \E w : /\ w[0] = <<>>
                /\ \A k \in 1..Len(s) : w[k] = Keeping(T, w[k - 1], s[k])
                /\ w[Len(s)] = H!Those(s, T)
<1> DEFINE
  A == Seq(S)
  g == [p \in A \X S |-> Keeping(T, p[1], p[2])]
  Is(it) == it = [x \in SUBSET DOMAIN s |->
                    IF x = {} THEN <<>>
                    ELSE Keeping(T, it[x \ {H!Max(x)}], s[H!Max(x)])]
  iter == CHOOSE it : Is(it)
<1>1. H!Those(s, T) = iter[DOMAIN s]
  BY DEF H!Those, H!FoldLeft, H!MapThenFoldSet, Keeping
<1>2. \E it : Is(it)
  <2>1. g \in [A \X S -> A] /\ <<>> \in A
    BY DEF Keeping
  <2>2. PICK it \in [SUBSET (1..Len(s)) -> A] : Folds(it, <<>>, g, s)
    <3> HIDE DEF g, A
    <3> QED
      BY <2>1, FoldExists
  <2>3. \A x \in SUBSET (1..Len(s)) :
          it[x] = IF x = {} THEN <<>> ELSE Keeping(T, it[x \ {H!Max(x)}], s[H!Max(x)])
    <3> SUFFICES ASSUME NEW x \in SUBSET (1..Len(s)), x # {}
                 PROVE  g[<<it[x \ {H!Max(x)}], s[H!Max(x)]>>] =
                          Keeping(T, it[x \ {H!Max(x)}], s[H!Max(x)])
      BY <2>2 DEF Folds
    <3> HIDE DEF A
    <3>1. H!Max(x) \in 1..Len(s)
      <4>1. Len(s) \in Nat
        OBVIOUS
      <4> QED
        BY <4>1, MaxOf
    <3>2. it[x \ {H!Max(x)}] \in A /\ s[H!Max(x)] \in S
      <4>1. x \ {H!Max(x)} \in SUBSET (1..Len(s))
        OBVIOUS
      <4>2. s[H!Max(x)] \in S
        BY <3>1
      <4> QED
        BY <4>1, <4>2
    <3> QED
      BY <3>2
  <2>4. DOMAIN s = 1..Len(s)
    OBVIOUS
  <2>5. Is(it)
    <3> HIDE DEF A, g
    <3> QED
      BY <2>2, <2>3, <2>4
  <2> QED
    BY <2>5
<1>3. Is(iter)
  <2> HIDE DEF Is
  <2> QED
    BY <1>2
<1> HIDE DEF iter, g
<1> DEFINE w == [k \in 0..Len(s) |-> iter[1..k]]
<1>4. w[0] = <<>>
  <2>1. iter[{}] = <<>>
    BY <1>3
  <2>2. 1..0 = {}
    OBVIOUS
  <2> QED
    BY <2>1, <2>2
<1>5. ASSUME NEW k \in 1..Len(s)
      PROVE  w[k] = Keeping(T, w[k - 1], s[k])
  <2>1. (1..k) \in SUBSET (1..Len(s)) /\ 1..k # {} /\ k \in Nat
    <3>1. Len(s) \in Nat
      OBVIOUS
    <3>2. k \in Nat /\ k \in 1..k
      BY <3>1
    <3>3. \A i \in 1..k : i \in 1..Len(s)
      BY <3>1
    <3> QED
      BY <3>2, <3>3
  <2>2. H!Max(1..k) = k
    <3>1. (1..k) \in SUBSET (1..k)
      OBVIOUS
    <3>2. H!Max(1..k) \in 1..k /\ \A y \in 1..k : y <= H!Max(1..k)
      BY <2>1, <3>1, MaxOf, Zenon
    <3>3. k \in 1..k
      BY <2>1
    <3> QED
      BY <2>1, <3>2, <3>3
  <2>3. (1..k) \ {k} = 1..(k - 1)
    OBVIOUS
  <2>4. (1..k) \in SUBSET DOMAIN s
    BY <2>1
  <2>5. iter[1..k] = Keeping(T, iter[(1..k) \ {H!Max(1..k)}], s[H!Max(1..k)])
    <3> HIDE DEF w
    <3> QED
      BY <1>3, <2>1, <2>4, Zenon
  <2>6. iter[1..k] = Keeping(T, iter[1..(k - 1)], s[k])
    BY <2>2, <2>3, <2>5
  <2> QED
    BY <2>6
<1>6. w[Len(s)] = H!Those(s, T)
  BY <1>1
<1> HIDE DEF w
<1> QED
  BY <1>4, <1>5, <1>6

\* The value for no element, and with one more
LEMMA ThoseStep ==
  ASSUME NEW S, NEW T
  PROVE  /\ H!Those(<<>>, T) = <<>>
         /\ \A s \in Seq(S), x \in S :
              H!Those(Append(s, x), T) = Keeping(T, H!Those(s, T), x)
<1>1. H!Those(<<>>, T) = <<>>
  <2> DEFINE none == <<>>
  <2>1. none \in Seq(S) /\ Len(none) = 0
    OBVIOUS
  <2> HIDE DEF none
  <2>2. PICK w : /\ w[0] = <<>>
                 /\ \A k \in 1..Len(none) : w[k] = Keeping(T, w[k - 1], none[k])
                 /\ w[Len(none)] = H!Those(none, T)
    BY <2>1, ThoseTrail
  <2>3. H!Those(none, T) = <<>>
    BY <2>1, <2>2
  <2> QED
    BY <2>3 DEF none
<1>2. ASSUME NEW s \in Seq(S), NEW x \in S
      PROVE  H!Those(Append(s, x), T) = Keeping(T, H!Those(s, T), x)
  <2> DEFINE more == Append(s, x)
  <2>1. /\ more \in Seq(S) /\ Len(more) = Len(s) + 1 /\ more[Len(s) + 1] = x
        /\ \A k \in 1..Len(s) : more[k] = s[k]
        /\ Len(s) \in Nat
    OBVIOUS
  <2> HIDE DEF more
  <2>2. PICK v : /\ v[0] = <<>>
                 /\ \A k \in 1..Len(s) : v[k] = Keeping(T, v[k - 1], s[k])
                 /\ v[Len(s)] = H!Those(s, T)
    BY ThoseTrail
  <2>3. PICK w : /\ w[0] = <<>>
                 /\ \A k \in 1..Len(more) : w[k] = Keeping(T, w[k - 1], more[k])
                 /\ w[Len(more)] = H!Those(more, T)
    BY <2>1, ThoseTrail
  <2> DEFINE N == {n \in Nat : n <= Len(s) => w[n] = v[n]}
  <2>4. 0 \in N
    BY <2>2, <2>3
  <2>5. ASSUME NEW n \in Nat, n \in N
        PROVE  n + 1 \in N
    <3> SUFFICES ASSUME n + 1 <= Len(s)
                 PROVE  w[n + 1] = v[n + 1]
      OBVIOUS
    <3>1. w[n] = v[n]
      BY <2>1, <2>5
    <3>2. n + 1 \in 1..Len(s) /\ n + 1 \in 1..Len(more) /\ (n + 1) - 1 = n
      BY <2>1
    <3>3. more[n + 1] = s[n + 1]
      BY <2>1, <3>2
    <3>4. w[n + 1] = Keeping(T, w[(n + 1) - 1], more[n + 1])
      BY <2>3, <3>2
    <3>5. v[n + 1] = Keeping(T, v[(n + 1) - 1], s[n + 1])
      BY <2>2, <3>2
    <3> QED
      BY <3>1, <3>2, <3>3, <3>4, <3>5
  <2>6. Nat \subseteq N
    <3> HIDE DEF N
    <3> QED
      BY <2>4, <2>5, NatIndSet
  <2>7. w[Len(s)] = v[Len(s)]
    BY <2>1, <2>6
  <2>8. Len(s) + 1 \in 1..Len(more) /\ (Len(s) + 1) - 1 = Len(s)
    BY <2>1
  <2>9. w[Len(s) + 1] = Keeping(T, w[(Len(s) + 1) - 1], more[Len(s) + 1])
    BY <2>3, <2>8
  <2>10. H!Those(more, T) = Keeping(T, H!Those(s, T), x)
    BY <2>1, <2>2, <2>3, <2>7, <2>8, <2>9
  <2> QED
    BY <2>10 DEF more
<1> QED
  BY <1>1, <1>2

-----------------------------------------------------------------------------
(* What is kept of a sequence *)

\* Sequences are equal by their elements.
LEMMA SameSeq ==
  ASSUME NEW S, NEW s \in Seq(S), NEW t \in Seq(S), Len(s) = Len(t),
         \A k \in 1..Len(s) : t[k] = s[k]
  PROVE  s = t
  OBVIOUS

\* A sequence over a set is one over a larger set.
LEMMA MoreSeq ==
  ASSUME NEW S, NEW T, S \subseteq T, NEW s \in Seq(S)
  PROVE  s \in Seq(T)
<1>1. \A i \in 1..Len(s) : s[i] \in T
  OBVIOUS
<1> QED
  BY <1>1

\* An element behind the second of two parts
Joined(s, t) == s \o t

LEMMA JoinedAppend ==
  ASSUME NEW S, NEW s \in Seq(S), NEW t \in Seq(S), NEW x \in S
  PROVE  Append(Joined(s, t), x) = Joined(s, Append(t, x))
<1>1. Append(s \o t, x) = s \o Append(t, x)
  OBVIOUS
<1> QED
  BY <1>1 DEF Joined

\* What comes last in a sequence without repetitions was not there before.
LEMMA InjectivePrefix ==
  ASSUME NEW S, NEW s \in Seq(S), NEW x \in S, H!IsInjective(Append(s, x))
  PROVE  H!IsInjective(s) /\ \A i \in 1..Len(s) : s[i] # x
<1>1. \A i \in 1..Len(s) : Append(s, x)[i] = s[i] /\ i \in DOMAIN Append(s, x) /\ i # Len(s) + 1
  OBVIOUS
<1>2. Append(s, x)[Len(s) + 1] = x /\ Len(s) + 1 \in DOMAIN Append(s, x)
  OBVIOUS
<1>3. \A i \in 1..Len(s) : s[i] # x
  BY <1>1, <1>2 DEF H!IsInjective
<1>4. DOMAIN s = 1..Len(s)
  OBVIOUS
<1> QED
  BY <1>1, <1>3, <1>4 DEF H!IsInjective

\* Nothing is there twice when what was not there is added.
LEMMA InjectiveAppend ==
  ASSUME NEW S, NEW s \in Seq(S), NEW x \in S, H!IsInjective(s), \A i \in 1..Len(s) : s[i] # x
  PROVE  H!IsInjective(Append(s, x))
<1> SUFFICES ASSUME NEW i \in DOMAIN Append(s, x), NEW j \in DOMAIN Append(s, x),
                    Append(s, x)[i] = Append(s, x)[j]
             PROVE  i = j
  BY DEF H!IsInjective
<1>1. i \in 1..(Len(s) + 1) /\ j \in 1..(Len(s) + 1)
  OBVIOUS
<1>2. \A k \in 1..(Len(s) + 1) : IF k = Len(s) + 1 THEN Append(s, x)[k] = x
                                 ELSE k \in 1..Len(s) /\ Append(s, x)[k] = s[k]
  OBVIOUS
<1>3. DOMAIN s = 1..Len(s)
  OBVIOUS
<1> QED
  BY <1>1, <1>2, <1>3 DEF H!IsInjective

\* Those, with one more element
LEMMA ThoseNext ==
  ASSUME NEW S, NEW T, NEW s \in Seq(S), NEW x \in S
  PROVE  H!Those(Append(s, x), T) = IF x \in T THEN Append(H!Those(s, T), x) ELSE H!Those(s, T)
<1>1. H!Those(Append(s, x), T) = Keeping(T, H!Those(s, T), x)
  BY ThoseStep
<1> QED
  BY <1>1 DEF Keeping

\* What is kept was there, and is once what was once.
LEMMA ThoseType ==
  ASSUME NEW S, NEW T, NEW s \in Seq(S)
  PROVE  /\ H!Those(s, T) \in Seq(S)
         /\ \A i \in 1..Len(H!Those(s, T)) :
              H!Those(s, T)[i] \in T /\ \E j \in 1..Len(s) : s[j] = H!Those(s, T)[i]
         /\ H!IsInjective(s) => H!IsInjective(H!Those(s, T))
<1> DEFINE
  Kept(t) == \A i \in 1..Len(H!Those(t, T)) :
                H!Those(t, T)[i] \in T /\ \E j \in 1..Len(t) : t[j] = H!Those(t, T)[i]
  Once(t) == H!IsInjective(t) => H!IsInjective(H!Those(t, T))
  U == {t \in Seq(S) : H!Those(t, T) \in Seq(S) /\ Kept(t) /\ Once(t)}
<1>1. <<>> \in U
  <2> DEFINE none == <<>>
  <2>1. none \in Seq(S) /\ Len(none) = 0 /\ H!Those(none, T) = none
    BY ThoseStep
  <2> HIDE DEF none
  <2>2. Kept(none)
    BY <2>1
  <2>3. Once(none)
    BY <2>1
  <2> QED
    BY <2>1, <2>2, <2>3 DEF none
<1>2. ASSUME NEW t \in Seq(S), t \in U, NEW x \in S
      PROVE  Append(t, x) \in U
  <2>1. H!Those(t, T) \in Seq(S) /\ Kept(t) /\ Once(t)
    <3> HIDE DEF Kept, Once
    <3> QED
      BY <1>2
  <2>2. H!Those(Append(t, x), T) = IF x \in T THEN Append(H!Those(t, T), x) ELSE H!Those(t, T)
    BY ThoseNext
  <2>3. /\ Append(t, x) \in Seq(S) /\ Len(Append(t, x)) = Len(t) + 1 /\ Len(t) \in Nat
        /\ Append(t, x)[Len(t) + 1] = x /\ \A j \in 1..Len(t) : Append(t, x)[j] = t[j]
    OBVIOUS
  <2>4. CASE x \in T
    <3>1. H!Those(Append(t, x), T) = Append(H!Those(t, T), x)
      BY <2>2, <2>4
    <3>2. Kept(Append(t, x))
      <4> SUFFICES ASSUME NEW i \in 1..Len(H!Those(Append(t, x), T))
                   PROVE  /\ H!Those(Append(t, x), T)[i] \in T
                          /\ \E j \in 1..Len(Append(t, x)) :
                               Append(t, x)[j] = H!Those(Append(t, x), T)[i]
        OBVIOUS
      <4> DEFINE k == H!Those(t, T)
      <4>1. k \in Seq(S)
        BY <2>1
      <4>2. i \in 1..(Len(k) + 1)
        BY <3>1, <4>1
      <4>3. CASE i = Len(k) + 1
        <5>1. H!Those(Append(t, x), T)[i] = x
          BY <3>1, <4>1, <4>3
        <5>2. Len(t) + 1 \in 1..Len(Append(t, x))
          BY <2>3
        <5> QED
          BY <2>3, <2>4, <5>1, <5>2
      <4>4. CASE i \in 1..Len(k)
        <5>1. H!Those(Append(t, x), T)[i] = k[i]
          BY <3>1, <4>1, <4>4
        <5>2. k[i] \in T
          BY <2>1, <4>4
        <5>3. PICK j \in 1..Len(t) : t[j] = k[i]
          BY <2>1, <4>4
        <5>4. j \in 1..Len(Append(t, x)) /\ Append(t, x)[j] = t[j]
          BY <2>3
        <5> QED
          BY <5>1, <5>2, <5>3, <5>4
      <4>5. Len(k) \in Nat
        BY <4>1
      <4> QED
        BY <4>2, <4>3, <4>4, <4>5
    <3>3. Once(Append(t, x))
      <4> SUFFICES ASSUME H!IsInjective(Append(t, x))
                   PROVE  H!IsInjective(Append(H!Those(t, T), x))
        BY <3>1
      <4>1. H!IsInjective(t) /\ \A i \in 1..Len(t) : t[i] # x
        BY InjectivePrefix
      <4>2. \A i \in 1..Len(H!Those(t, T)) : H!Those(t, T)[i] # x
        BY <2>1, <4>1
      <4> QED
        BY <2>1, <4>1, <4>2, InjectiveAppend
    <3> HIDE DEF Kept, Once
    <3> QED
      BY <2>1, <2>3, <3>1, <3>2, <3>3, SMTT(30)
  <2>5. CASE x \notin T
    <3>1. H!Those(Append(t, x), T) = H!Those(t, T)
      BY <2>2, <2>5
    <3>2. Kept(Append(t, x))
      <4> SUFFICES ASSUME NEW i \in 1..Len(H!Those(t, T))
                   PROVE  /\ H!Those(t, T)[i] \in T
                          /\ \E j \in 1..Len(Append(t, x)) : Append(t, x)[j] = H!Those(t, T)[i]
        BY <3>1
      <4>1. PICK j \in 1..Len(t) : t[j] = H!Those(t, T)[i]
        BY <2>1
      <4>2. j \in 1..Len(Append(t, x)) /\ Append(t, x)[j] = t[j]
        BY <2>3
      <4> QED
        BY <2>1, <4>1, <4>2
    <3>3. Once(Append(t, x))
      <4>1. H!IsInjective(Append(t, x)) => H!IsInjective(t)
        BY InjectivePrefix
      <4> QED
        BY <2>1, <3>1, <4>1
    <3> HIDE DEF Kept, Once
    <3> QED
      BY <2>1, <2>3, <3>1, <3>2, <3>3, SMTT(30)
  <2> QED
    BY <2>4, <2>5
<1>3. s \in U
  <2> HIDE DEF U
  <2>1. Seq(S) \subseteq U
    BY <1>1, <1>2, SeqIndSet
  <2> QED
    BY <2>1
<1> QED
  BY <1>3

\* Keeping what is kept by both
LEMMA ThoseAgain ==
  ASSUME NEW S, NEW T, NEW V, NEW s \in Seq(S)
  PROVE  H!Those(H!Those(s, T), V) = H!Those(s, T \cap V)
<1> DEFINE U == {t \in Seq(S) : H!Those(H!Those(t, T), V) = H!Those(t, T \cap V)}
<1>1. <<>> \in U
  <2>1. H!Those(<<>>, T) = <<>> /\ H!Those(<<>>, V) = <<>> /\ H!Those(<<>>, T \cap V) = <<>>
    BY ThoseStep
  <2>2. <<>> \in Seq(S)
    OBVIOUS
  <2> QED
    BY <2>1, <2>2
<1>2. ASSUME NEW t \in Seq(S), t \in U, NEW x \in S
      PROVE  Append(t, x) \in U
  <2>1. H!Those(t, T) \in Seq(S) /\ Append(t, x) \in Seq(S)
    BY ThoseType
  <2>2. H!Those(Append(t, x), T) = IF x \in T THEN Append(H!Those(t, T), x) ELSE H!Those(t, T)
    BY ThoseNext
  <2>3. H!Those(Append(t, x), T \cap V) =
          IF x \in T \cap V THEN Append(H!Those(t, T \cap V), x) ELSE H!Those(t, T \cap V)
    BY ThoseNext
  <2>4. H!Those(Append(H!Those(t, T), x), V) =
          IF x \in V THEN Append(H!Those(H!Those(t, T), V), x) ELSE H!Those(H!Those(t, T), V)
    BY <2>1, ThoseNext
  <2>5. H!Those(H!Those(t, T), V) = H!Those(t, T \cap V)
    BY <1>2
  <2>6. H!Those(H!Those(Append(t, x), T), V) = H!Those(Append(t, x), T \cap V)
    <3>1. CASE x \in T /\ x \in V
      BY <2>2, <2>3, <2>4, <2>5, <3>1
    <3>2. CASE x \in T /\ x \notin V
      BY <2>2, <2>3, <2>4, <2>5, <3>2
    <3>3. CASE x \notin T
      BY <2>2, <2>3, <2>5, <3>3
    <3> QED
      BY <3>1, <3>2, <3>3
  <2> QED
    BY <2>1, <2>6
<1>3. s \in U
  <2> HIDE DEF U
  <2>1. Seq(S) \subseteq U
    BY <1>1, <1>2, SeqIndSet
  <2> QED
    BY <2>1
<1> QED
  BY <1>3

\* Keeping from both parts
LEMMA ThoseConcat ==
  ASSUME NEW S, NEW T, NEW s \in Seq(S), NEW t \in Seq(S)
  PROVE  H!Those(s \o t, T) = H!Those(s, T) \o H!Those(t, T)
<1> DEFINE U == {u \in Seq(S) : H!Those(s \o u, T) = H!Those(s, T) \o H!Those(u, T)}
<1>0. H!Those(s, T) \in Seq(S)
  BY ThoseType
<1>1. <<>> \in U
  <2>1. H!Those(<<>>, T) = <<>>
    BY ThoseStep
  <2>2. <<>> \in Seq(S) /\ s \o <<>> = s /\ H!Those(s, T) \o <<>> = H!Those(s, T)
    BY <1>0
  <2> QED
    BY <2>1, <2>2
<1>2. ASSUME NEW u \in Seq(S), u \in U, NEW x \in S
      PROVE  Append(u, x) \in U
  <2>1. H!Those(u, T) \in Seq(S) /\ Append(u, x) \in Seq(S)
    BY ThoseType
  <2>2. H!Those(Append(u, x), T) = IF x \in T THEN Append(H!Those(u, T), x) ELSE H!Those(u, T)
    BY ThoseNext
  <2>3. s \o Append(u, x) = Append(s \o u, x) /\ s \o u \in Seq(S)
    OBVIOUS
  <2>4. H!Those(Append(s \o u, x), T) =
          IF x \in T THEN Append(H!Those(s \o u, T), x) ELSE H!Those(s \o u, T)
    <3> DEFINE su == s \o u
    <3>1. su \in Seq(S)
      BY <2>3
    <3> HIDE DEF su
    <3>2. H!Those(Append(su, x), T) = IF x \in T THEN Append(H!Those(su, T), x) ELSE H!Those(su, T)
      BY <3>1, ThoseNext
    <3> QED
      BY <3>2 DEF su
  <2>5. H!Those(s \o u, T) = H!Those(s, T) \o H!Those(u, T)
    BY <1>2
  <2>6. H!Those(s, T) \o Append(H!Those(u, T), x) = Append(H!Those(s, T) \o H!Those(u, T), x)
    BY <1>0, <2>1
  <2> QED
    BY <2>1, <2>2, <2>3, <2>4, <2>5, <2>6
<1>3. t \in U
  <2> HIDE DEF U
  <2>1. Seq(S) \subseteq U
    BY <1>1, <1>2, SeqIndSet
  <2> QED
    BY <2>1
<1> QED
  BY <1>3

\* Sets that agree on the elements keep the same.
LEMMA ThoseSame ==
  ASSUME NEW S, NEW T, NEW V, NEW s \in Seq(S), \A i \in 1..Len(s) : s[i] \in T <=> s[i] \in V
  PROVE  H!Those(s, T) = H!Those(s, V)
<1> DEFINE Agree(t) == \A i \in 1..Len(t) : t[i] \in T <=> t[i] \in V
           Same(t) == Agree(t) => H!Those(t, T) = H!Those(t, V)
           U == {t \in Seq(S) : Same(t)}
<1>1. <<>> \in U
  <2>1. H!Those(<<>>, T) = <<>> /\ H!Those(<<>>, V) = <<>>
    BY ThoseStep
  <2>2. <<>> \in Seq(S)
    OBVIOUS
  <2> QED
    BY <2>1, <2>2
<1>2. ASSUME NEW t \in Seq(S), t \in U, NEW x \in S
      PROVE  Append(t, x) \in U
  <2> SUFFICES ASSUME Agree(Append(t, x))
               PROVE  H!Those(Append(t, x), T) = H!Those(Append(t, x), V)
    <3>1. Same(Append(t, x))
      OBVIOUS
    <3> HIDE DEF Same
    <3> QED
      BY <3>1
  <2>1. x \in T <=> x \in V
    <3>1. Len(t) + 1 \in 1..Len(Append(t, x)) /\ Append(t, x)[Len(t) + 1] = x
      OBVIOUS
    <3> QED
      BY <3>1
  <2>2. \A i \in 1..Len(t) : t[i] \in T <=> t[i] \in V
    <3>1. \A i \in 1..Len(t) : i \in 1..Len(Append(t, x)) /\ Append(t, x)[i] = t[i]
      OBVIOUS
    <3> QED
      BY <3>1
  <2>3. H!Those(t, T) = H!Those(t, V)
    BY <1>2, <2>2
  <2>4. H!Those(Append(t, x), T) = IF x \in T THEN Append(H!Those(t, T), x) ELSE H!Those(t, T)
    BY ThoseNext
  <2>5. H!Those(Append(t, x), V) = IF x \in V THEN Append(H!Those(t, V), x) ELSE H!Those(t, V)
    BY ThoseNext
  <2> QED
    BY <2>1, <2>3, <2>4, <2>5
<1>3. s \in U
  <2> HIDE DEF U
  <2>1. Seq(S) \subseteq U
    BY <1>1, <1>2, SeqIndSet
  <2> QED
    BY <2>1
<1> QED
  BY <1>3

\* A set that has every element keeps all.
LEMMA ThoseAll ==
  ASSUME NEW S, NEW T, NEW s \in Seq(S), \A i \in 1..Len(s) : s[i] \in T
  PROVE  H!Those(s, T) = s
<1> DEFINE U == {t \in Seq(S) : H!Those(t, S) = t}
<1>1. <<>> \in U
  <2>1. H!Those(<<>>, S) = <<>>
    BY ThoseStep
  <2>2. <<>> \in Seq(S)
    OBVIOUS
  <2> QED
    BY <2>1, <2>2
<1>2. ASSUME NEW t \in Seq(S), t \in U, NEW x \in S
      PROVE  Append(t, x) \in U
  <2>1. H!Those(Append(t, x), S) = Append(H!Those(t, S), x)
    BY ThoseNext
  <2> QED
    BY <1>2, <2>1
<1>3. s \in U
  <2> HIDE DEF U
  <2>1. Seq(S) \subseteq U
    BY <1>1, <1>2, SeqIndSet
  <2> QED
    BY <2>1
<1>4. \A i \in 1..Len(s) : s[i] \in T <=> s[i] \in S
  OBVIOUS
<1>5. H!Those(s, T) = H!Those(s, S)
  BY <1>4, ThoseSame
<1> QED
  BY <1>3, <1>5

\* Keeping all but one is removing it.
LEMMA ThoseButOne ==
  ASSUME NEW S, NEW s \in Seq(S), H!IsInjective(s), NEW i \in 1..Len(s)
  PROVE  H!Those(s, S \ {s[i]}) = H!RemoveAt(s, i)
<1> DEFINE l == SubSeq(s, 1, i - 1)
           r == SubSeq(s, i + 1, Len(s))
           T == S \ {s[i]}
<1>1. l \in Seq(S) /\ r \in Seq(S) /\ s[i] \in S
  OBVIOUS
<1>2. s = Append(l, s[i]) \o r
  <2>1. /\ Len(Append(l, s[i])) = i /\ Append(l, s[i]) \in Seq(S) /\ Len(r) = Len(s) - i
        /\ i \in Nat /\ Len(s) \in Nat
    OBVIOUS
  <2>2. \A k \in 1..i : Append(l, s[i])[k] = s[k]
    OBVIOUS
  <2>3. \A k \in 1..Len(r) : r[k] = s[i + k]
    OBVIOUS
  <2> DEFINE m == Append(l, s[i])
  <2> HIDE DEF l, r, m
  <2>4. m \o r \in Seq(S) /\ Len(m \o r) = Len(s)
    BY <1>1, <2>1, SMTT(30) DEF m
  <2>5. \A k \in 1..Len(s) : (m \o r)[k] = s[k]
    <3> SUFFICES ASSUME NEW k \in 1..Len(s)
                 PROVE  (m \o r)[k] = s[k]
      OBVIOUS
    <3>1. CASE k <= i
      BY <1>1, <2>1, <2>2, <3>1 DEF m
    <3>2. CASE ~(k <= i)
      <4>1. k - i \in 1..Len(r) /\ i + (k - i) = k
        BY <2>1, <3>2
      <4>2. (m \o r)[k] = r[k - i]
        BY <1>1, <2>1, <4>1, <3>2 DEF m
      <4> QED
        BY <2>3, <4>1, <4>2
    <3> QED
      BY <3>1, <3>2
  <2>6. s = m \o r
    BY <2>4, <2>5, SameSeq
  <2> QED
    BY <2>6 DEF m
<1>3. \A k \in 1..Len(l) : l[k] \in T
  <2> SUFFICES ASSUME NEW k \in 1..Len(l)
               PROVE  l[k] \in T
    OBVIOUS
  <2>1. l[k] = s[k] /\ k \in 1..Len(s) /\ k # i /\ s[k] \in S
    OBVIOUS
  <2>2. DOMAIN s = 1..Len(s)
    OBVIOUS
  <2>3. s[k] # s[i]
    BY <2>1, <2>2 DEF H!IsInjective
  <2> QED
    BY <2>1, <2>3
<1>4. \A k \in 1..Len(r) : r[k] \in T
  <2> SUFFICES ASSUME NEW k \in 1..Len(r)
               PROVE  r[k] \in T
    OBVIOUS
  <2>1. r[k] = s[i + k] /\ i + k \in 1..Len(s) /\ i + k # i /\ s[i + k] \in S
    OBVIOUS
  <2>2. DOMAIN s = 1..Len(s)
    OBVIOUS
  <2>3. s[i + k] # s[i]
    BY <2>1, <2>2 DEF H!IsInjective
  <2> QED
    BY <2>1, <2>3
<1>5. H!RemoveAt(s, i) = l \o r
  BY DEF H!RemoveAt
<1> HIDE DEF l, r
<1>6. H!Those(l, T) = l /\ H!Those(r, T) = r
  BY <1>1, <1>3, <1>4, ThoseAll
<1>7. H!Those(Append(l, s[i]), T) = l
  <2>1. H!Those(Append(l, s[i]), T) = H!Those(l, T)
    BY <1>1, ThoseNext
  <2> QED
    BY <1>6, <2>1
<1>8. H!Those(Append(l, s[i]) \o r, T) = l \o r
  <2>1. Append(l, s[i]) \in Seq(S)
    BY <1>1
  <2>2. H!Those(Append(l, s[i]) \o r, T) = H!Those(Append(l, s[i]), T) \o H!Those(r, T)
    BY <1>1, <2>1, ThoseConcat
  <2> QED
    BY <1>6, <1>7, <2>2
<1> QED
  BY <1>2, <1>5, <1>8

-----------------------------------------------------------------------------
(* Lists of entries *)

\* The lines of a list
LEMMA LinesType ==
  ASSUME NEW S, NEW l \in Seq(S), \A e \in S : e.line \in Lines
  PROVE  /\ H!LinesOf(l) \in Seq(Lines) /\ Len(H!LinesOf(l)) = Len(l)
         /\ \A i \in 1..Len(l) : H!LinesOf(l)[i] = l[i].line
<1>1. Len(l) \in Nat /\ DOMAIN l = 1..Len(l) /\ \A i \in 1..Len(l) : l[i] \in S
  OBVIOUS
<1> DEFINE m == [i \in 1..Len(l) |-> l[i].line]
<1>2. \A i \in 1..Len(l) : l[i].line \in Lines
  BY <1>1
<1>3. m \in Seq(Lines) /\ Len(m) = Len(l) /\ \A i \in 1..Len(l) : m[i] = l[i].line
  BY <1>1, <1>2
<1>4. H!LinesOf(l) = m
  BY <1>1 DEF H!LinesOf
<1> QED
  BY <1>3, <1>4

LEMMA EntryLines == \A e \in H!Entry : e.line \in Lines
  BY DEF H!Entry

LEMMA LinesAppend ==
  ASSUME NEW S, NEW l \in Seq(S), NEW e \in S, \A x \in S : x.line \in Lines
  PROVE  H!LinesOf(Append(l, e)) = Append(H!LinesOf(l), e.line)
<1> DEFINE m == Append(l, e)
           n == H!LinesOf(l)
<1>1. /\ m \in Seq(S) /\ Len(m) = Len(l) + 1 /\ m[Len(l) + 1] = e /\ Len(l) \in Nat
      /\ \A i \in 1..Len(l) : m[i] = l[i]
  OBVIOUS
<1>2. n \in Seq(Lines) /\ Len(n) = Len(l) /\ \A i \in 1..Len(l) : n[i] = l[i].line
  BY LinesType
<1> HIDE DEF m, n
<1>3. /\ H!LinesOf(m) \in Seq(Lines) /\ Len(H!LinesOf(m)) = Len(m)
      /\ \A i \in 1..Len(m) : H!LinesOf(m)[i] = m[i].line
  BY <1>1, LinesType
<1>4. e.line \in Lines
  OBVIOUS
<1>5. Append(n, e.line) \in Seq(Lines) /\ Len(Append(n, e.line)) = Len(l) + 1
  BY <1>2, <1>4
<1>6. \A i \in 1..(Len(l) + 1) : H!LinesOf(m)[i] = Append(n, e.line)[i]
  <2> SUFFICES ASSUME NEW i \in 1..(Len(l) + 1)
               PROVE  H!LinesOf(m)[i] = Append(n, e.line)[i]
    OBVIOUS
  <2>0. H!LinesOf(m)[i] = m[i].line
    BY <1>1, <1>3
  <2>1. CASE i = Len(l) + 1
    <3>1. Append(n, e.line)[i] = e.line
      BY <1>2, <1>4, <2>1
    <3>2. m[i] = e
      BY <1>1, <2>1
    <3> QED
      BY <2>0, <3>1, <3>2
  <2>2. CASE i \in 1..Len(l)
    <3>1. Append(n, e.line)[i] = n[i]
      BY <1>2, <1>4, <2>2
    <3>2. n[i] = l[i].line /\ m[i] = l[i]
      BY <1>1, <1>2, <2>2
    <3> QED
      BY <2>0, <3>1, <3>2
  <2>3. i = Len(l) + 1 \/ i \in 1..Len(l)
    BY <1>1
  <2> QED
    BY <2>1, <2>2, <2>3
<1>7. H!LinesOf(m) = Append(n, e.line)
  <2> DEFINE x == H!LinesOf(m)
             y == Append(n, e.line)
  <2>1. x \in Seq(Lines) /\ y \in Seq(Lines) /\ Len(x) = Len(y) /\ \A i \in 1..Len(x) : y[i] = x[i]
    BY <1>1, <1>3, <1>5, <1>6
  <2> HIDE DEF x, y
  <2>2. x = y
    BY <2>1, SameSeq
  <2> QED
    BY <2>2 DEF x, y
<1> QED
  BY <1>7 DEF m, n

\* Removing an element
LEMMA RemoveType ==
  ASSUME NEW S, NEW l \in Seq(S), NEW i \in 1..Len(l)
  PROVE  /\ H!RemoveAt(l, i) \in Seq(S) /\ Len(H!RemoveAt(l, i)) = Len(l) - 1
         /\ \A k \in 1..(Len(l) - 1) : H!RemoveAt(l, i)[k] = IF k < i THEN l[k] ELSE l[k + 1]
<1> DEFINE a == SubSeq(l, 1, i - 1)
           z == SubSeq(l, i + 1, Len(l))
<1>1. /\ a \in Seq(S) /\ z \in Seq(S) /\ Len(a) = i - 1 /\ Len(z) = Len(l) - i
      /\ i \in Nat /\ Len(l) \in Nat
  OBVIOUS
<1>2. \A k \in 1..(i - 1) : a[k] = l[k]
  OBVIOUS
<1>3. \A k \in 1..(Len(l) - i) : z[k] = l[i + k]
  OBVIOUS
<1>4. H!RemoveAt(l, i) = a \o z
  BY DEF H!RemoveAt
<1> HIDE DEF a, z
<1>5. a \o z \in Seq(S) /\ Len(a \o z) = Len(l) - 1
  BY <1>1
<1>6. ASSUME NEW k \in 1..(Len(l) - 1)
      PROVE  (a \o z)[k] = IF k < i THEN l[k] ELSE l[k + 1]
  <2>1. CASE k < i
    <3>1. k \in 1..(i - 1)
      BY <1>1, <2>1
    <3> QED
      BY <1>1, <1>2, <2>1, <3>1
  <2>2. CASE ~(k < i)
    <3>1. k - (i - 1) \in 1..(Len(l) - i) /\ i + (k - (i - 1)) = k + 1
      BY <1>1, <2>2
    <3>2. (a \o z)[k] = z[k - (i - 1)]
      BY <1>1, <2>2, <3>1
    <3> QED
      BY <1>3, <2>2, <3>1, <3>2
  <2> QED
    BY <2>1, <2>2
<1> QED
  BY <1>4, <1>5, <1>6

LEMMA LinesRemove ==
  ASSUME NEW S, NEW l \in Seq(S), NEW i \in 1..Len(l), \A x \in S : x.line \in Lines
  PROVE  H!LinesOf(H!RemoveAt(l, i)) = H!RemoveAt(H!LinesOf(l), i)
<1> DEFINE m == H!RemoveAt(l, i)
           n == H!LinesOf(l)
           x == H!LinesOf(m)
           y == H!RemoveAt(n, i)
<1>1. /\ m \in Seq(S) /\ Len(m) = Len(l) - 1 /\ Len(l) \in Nat
      /\ \A k \in 1..(Len(l) - 1) : m[k] = IF k < i THEN l[k] ELSE l[k + 1]
  BY RemoveType
<1>2. n \in Seq(Lines) /\ Len(n) = Len(l) /\ \A k \in 1..Len(l) : n[k] = l[k].line
  BY LinesType
<1> HIDE DEF m, n
<1>3. x \in Seq(Lines) /\ Len(x) = Len(m) /\ \A k \in 1..Len(m) : x[k] = m[k].line
  BY <1>1, LinesType
<1>4. /\ y \in Seq(Lines) /\ Len(y) = Len(l) - 1
      /\ \A k \in 1..(Len(l) - 1) : y[k] = IF k < i THEN n[k] ELSE n[k + 1]
  <2>1. i \in 1..Len(n)
    BY <1>2
  <2> QED
    BY <1>2, <2>1, RemoveType
<1> HIDE DEF x, y
<1>5. ASSUME NEW k \in 1..Len(x)
      PROVE  y[k] = x[k]
  <2>1. k \in 1..(Len(l) - 1) /\ k \in 1..Len(l) /\ k + 1 \in 1..Len(l) /\ k \in 1..Len(m)
    BY <1>1, <1>3
  <2>2. CASE k < i
    BY <1>1, <1>2, <1>3, <1>4, <2>1, <2>2
  <2>3. CASE ~(k < i)
    BY <1>1, <1>2, <1>3, <1>4, <2>1, <2>3
  <2> QED
    BY <2>2, <2>3
<1>6. x = y
  <2>1. Len(x) = Len(y)
    BY <1>1, <1>3, <1>4
  <2> QED
    BY <1>3, <1>4, <1>5, <2>1, SameSeq
<1> QED
  BY <1>6 DEF x, y, m, n

\* append_or_move yields a list.
LEMMA MoveType ==
  ASSUME NEW l \in Seq(H!Entry), NEW e \in H!Entry
  PROVE  H!AppendOrMove[l][e] \in Seq(H!Entry)
<1> DEFINE same == {i \in DOMAIN l : l[i].line = e.line}
           i == CHOOSE k \in same : TRUE
<1>1. H!AppendOrMove[l][e] = IF same = {} THEN Append(l, e)
                             ELSE Append(H!RemoveAt(l, i), [l[i] EXCEPT !.new = e.new])
  BY DEF H!AppendOrMove
<1>2. CASE same = {}
  BY <1>1, <1>2
<1>3. CASE same # {}
  <2>1. i \in same
    BY <1>3
  <2>2. i \in 1..Len(l) /\ l[i] \in H!Entry
    BY <2>1
  <2> HIDE DEF i, same
  <2>3. H!RemoveAt(l, i) \in Seq(H!Entry)
    BY <2>2, RemoveType
  <2>4. [l[i] EXCEPT !.new = e.new] \in H!Entry
    BY <2>2 DEF H!Entry
  <2> QED
    BY <1>1, <1>3, <2>3, <2>4
<1> QED
  BY <1>2, <1>3

\* append_or_move: the line is at the back, and the others are as they were.
LEMMA MoveLines ==
  ASSUME NEW l \in Seq(H!Entry), NEW e \in H!Entry, H!IsInjective(H!LinesOf(l))
  PROVE  H!LinesOf(H!AppendOrMove[l][e]) =
           Append(H!Those(H!LinesOf(l), Lines \ {e.line}), e.line)
<1> DEFINE same == {i \in DOMAIN l : l[i].line = e.line}
           i == CHOOSE k \in same : TRUE
           n == H!LinesOf(l)
<1>1. H!AppendOrMove[l][e] = IF same = {} THEN Append(l, e)
                             ELSE Append(H!RemoveAt(l, i), [l[i] EXCEPT !.new = e.new])
  BY DEF H!AppendOrMove
<1>2. n \in Seq(Lines) /\ Len(n) = Len(l) /\ \A k \in 1..Len(l) : n[k] = l[k].line
  BY EntryLines, LinesType
<1>3. e.line \in Lines /\ H!IsInjective(n)
  BY EntryLines
<1>4. CASE same = {}
  <2>1. H!AppendOrMove[l][e] = Append(l, e)
    BY <1>1, <1>4
  <2>2. H!LinesOf(Append(l, e)) = Append(n, e.line)
    BY EntryLines, LinesAppend
  <2>3. \A k \in 1..Len(n) : n[k] \in Lines \ {e.line}
    <3> SUFFICES ASSUME NEW k \in 1..Len(l)
                 PROVE  n[k] \in Lines \ {e.line}
      BY <1>2
    <3>1. n[k] = l[k].line /\ n[k] \in Lines
      BY <1>2
    <3>2. k \in DOMAIN l
      OBVIOUS
    <3> QED
      BY <1>4, <3>1, <3>2
  <2> HIDE DEF n, same, i
  <2>4. H!Those(n, Lines \ {e.line}) = n
    BY <1>2, <2>3, ThoseAll
  <2> QED
    BY <2>1, <2>2, <2>4 DEF n
<1>5. CASE same # {}
  <2>1. i \in same
    BY <1>5
  <2>2. i \in 1..Len(l) /\ l[i] \in H!Entry /\ l[i].line = e.line
    BY <2>1
  <2> DEFINE m == H!RemoveAt(l, i)
             f == [l[i] EXCEPT !.new = e.new]
  <2> HIDE DEF i, same, n
  <2>3. m \in Seq(H!Entry)
    BY <2>2, RemoveType
  <2>4. f \in H!Entry /\ f.line = e.line
    BY <2>2 DEF H!Entry
  <2>5. H!AppendOrMove[l][e] = Append(m, f)
    BY <1>1, <1>5
  <2>6. H!LinesOf(m) = H!RemoveAt(n, i)
    BY <2>2, EntryLines, LinesRemove DEF n
  <2>7. H!RemoveAt(n, i) = H!Those(n, Lines \ {e.line})
    <3>1. i \in 1..Len(n) /\ n[i] = e.line
      BY <1>2, <2>2
    <3> QED
      BY <1>2, <1>3, <3>1, ThoseButOne
  <2> HIDE DEF m, f
  <2>8. H!LinesOf(Append(m, f)) = Append(H!LinesOf(m), f.line)
    BY <2>3, <2>4, EntryLines, LinesAppend
  <2> QED
    BY <2>4, <2>5, <2>6, <2>7, <2>8 DEF n
<1> QED
  BY <1>4, <1>5

\* What was kept without a line, and the line
LEMMA PutLast ==
  ASSUME NEW S, NEW s \in Seq(S), NEW x \in S, H!IsInjective(s)
  PROVE  Append(H!Those(s, S \ {x}), x) \in Seq(S) /\ H!IsInjective(Append(H!Those(s, S \ {x}), x))
<1> DEFINE t == H!Those(s, S \ {x})
<1>1. t \in Seq(S) /\ H!IsInjective(t) /\ \A i \in 1..Len(t) : t[i] # x
  BY ThoseType
<1> HIDE DEF t
<1>2. H!IsInjective(Append(t, x)) /\ Append(t, x) \in Seq(S)
  BY <1>1, InjectiveAppend
<1> QED
  BY <1>2 DEF t

\* append_or_move keeps lines from being there twice.
LEMMA MoveUnique ==
  ASSUME NEW l \in Seq(H!Entry), NEW e \in H!Entry, H!IsInjective(H!LinesOf(l))
  PROVE  H!IsInjective(H!LinesOf(H!AppendOrMove[l][e]))
<1>1. H!LinesOf(l) \in Seq(Lines) /\ e.line \in Lines
  BY EntryLines, LinesType
<1> QED
  BY <1>1, MoveLines, PutLast

-----------------------------------------------------------------------------
(* The history read and written *)

\* The entries of the file
FileEntry == [prefix : Modes \cup {Nothing}, line : Lines \cup {Nothing}]

LEMMA LoadingType ==
  ASSUME NEW l \in Seq(H!Entry), NEW e \in FileEntry
  PROVE  /\ Loading(l, e) \in Seq(H!Entry)
         /\ H!IsInjective(H!LinesOf(l)) => H!IsInjective(H!LinesOf(Loading(l, e)))
<1>1. CASE Nothing \in {e.prefix, e.line}
  BY <1>1 DEF Loading
<1>2. CASE Nothing \notin {e.prefix, e.line}
  <2> DEFINE f == [prefix |-> e.prefix, line |-> e.line, new |-> FALSE]
  <2>1. f \in H!Entry
    BY <1>2 DEF H!Entry, FileEntry
  <2>2. Loading(l, e) = H!AppendOrMove[l][f]
    BY <1>2 DEF Loading
  <2> HIDE DEF f
  <2> QED
    BY <2>1, <2>2, MoveType, MoveUnique
<1> QED
  BY <1>1, <1>2

LEMMA MergingType ==
  ASSUME NEW l \in Seq(H!Entry), NEW e \in H!Entry
  PROVE  Merging(l, e) \in Seq(H!Entry)
  BY MoveType DEF Merging

\* Loaded, line by line
LEMMA LoadedTrail ==
  ASSUME NEW s \in Seq(FileEntry)
  PROVE  \E w : /\ w[0] = <<>>
                /\ \A k \in 1..Len(s) : w[k] = Loading(w[k - 1], s[k])
                /\ w[Len(s)] = H!Loaded(s)
<1> DEFINE
  A == Seq(H!Entry)
  g == [p \in A \X FileEntry |-> Loading(p[1], p[2])]
  Is(it) == it = [x \in SUBSET DOMAIN s |->
                    IF x = {} THEN <<>>
                    ELSE Loading(it[x \ {H!Max(x)}], s[H!Max(x)])]
  iter == CHOOSE it : Is(it)
<1>1. H!Loaded(s) = iter[DOMAIN s]
  BY DEF H!Loaded, H!FoldLeft, H!MapThenFoldSet, Loading
<1>2. \E it : Is(it)
  <2>1. g \in [A \X FileEntry -> A] /\ <<>> \in A
    BY LoadingType
  <2>2. PICK it \in [SUBSET (1..Len(s)) -> A] : Folds(it, <<>>, g, s)
    <3> HIDE DEF g, A
    <3> QED
      BY <2>1, FoldExists
  <2>3. \A x \in SUBSET (1..Len(s)) :
          it[x] = IF x = {} THEN <<>> ELSE Loading(it[x \ {H!Max(x)}], s[H!Max(x)])
    <3> SUFFICES ASSUME NEW x \in SUBSET (1..Len(s)), x # {}
                 PROVE  g[<<it[x \ {H!Max(x)}], s[H!Max(x)]>>] =
                          Loading(it[x \ {H!Max(x)}], s[H!Max(x)])
      BY <2>2 DEF Folds
    <3> HIDE DEF A
    <3>1. H!Max(x) \in 1..Len(s)
      <4>1. Len(s) \in Nat
        OBVIOUS
      <4> QED
        BY <4>1, MaxOf
    <3>2. it[x \ {H!Max(x)}] \in A /\ s[H!Max(x)] \in FileEntry
      <4>1. x \ {H!Max(x)} \in SUBSET (1..Len(s))
        OBVIOUS
      <4>2. s[H!Max(x)] \in FileEntry
        BY <3>1
      <4> QED
        BY <4>1, <4>2
    <3> QED
      BY <3>2
  <2>4. DOMAIN s = 1..Len(s)
    OBVIOUS
  <2>5. Is(it)
    <3> HIDE DEF A, g
    <3> QED
      BY <2>2, <2>3, <2>4
  <2> QED
    BY <2>5
<1>3. Is(iter)
  <2> HIDE DEF Is
  <2> QED
    BY <1>2
<1> HIDE DEF iter, g
<1> DEFINE w == [k \in 0..Len(s) |-> iter[1..k]]
<1>4. w[0] = <<>>
  <2>1. iter[{}] = <<>>
    BY <1>3
  <2>2. 1..0 = {}
    OBVIOUS
  <2> QED
    BY <2>1, <2>2
<1>5. ASSUME NEW k \in 1..Len(s)
      PROVE  w[k] = Loading(w[k - 1], s[k])
  <2>1. (1..k) \in SUBSET (1..Len(s)) /\ 1..k # {} /\ k \in Nat
    <3>1. Len(s) \in Nat
      OBVIOUS
    <3>2. k \in Nat /\ k \in 1..k
      BY <3>1
    <3>3. \A i \in 1..k : i \in 1..Len(s)
      BY <3>1
    <3> QED
      BY <3>2, <3>3
  <2>2. H!Max(1..k) = k
    <3>1. (1..k) \in SUBSET (1..k)
      OBVIOUS
    <3>2. H!Max(1..k) \in 1..k /\ \A y \in 1..k : y <= H!Max(1..k)
      BY <2>1, <3>1, MaxOf, Zenon
    <3>3. k \in 1..k
      BY <2>1
    <3> QED
      BY <2>1, <3>2, <3>3
  <2>3. (1..k) \ {k} = 1..(k - 1)
    OBVIOUS
  <2>4. (1..k) \in SUBSET DOMAIN s
    BY <2>1
  <2>5. iter[1..k] = Loading(iter[(1..k) \ {H!Max(1..k)}], s[H!Max(1..k)])
    <3> HIDE DEF w
    <3> QED
      BY <1>3, <2>1, <2>4, Zenon
  <2>6. iter[1..k] = Loading(iter[1..(k - 1)], s[k])
    BY <2>2, <2>3, <2>5
  <2> QED
    BY <2>6
<1>6. w[Len(s)] = H!Loaded(s)
  BY <1>1
<1> HIDE DEF w
<1> QED
  BY <1>4, <1>5, <1>6

\* The value for no element, and with one more
LEMMA LoadedStep ==
         /\ H!Loaded(<<>>) = <<>>
         /\ \A s \in Seq(FileEntry), x \in FileEntry :
              H!Loaded(Append(s, x)) = Loading(H!Loaded(s), x)
<1>1. H!Loaded(<<>>) = <<>>
  <2> DEFINE none == <<>>
  <2>1. none \in Seq(FileEntry) /\ Len(none) = 0
    OBVIOUS
  <2> HIDE DEF none
  <2>2. PICK w : /\ w[0] = <<>>
                 /\ \A k \in 1..Len(none) : w[k] = Loading(w[k - 1], none[k])
                 /\ w[Len(none)] = H!Loaded(none)
    BY <2>1, LoadedTrail
  <2>3. H!Loaded(none) = <<>>
    BY <2>1, <2>2
  <2> QED
    BY <2>3 DEF none
<1>2. ASSUME NEW s \in Seq(FileEntry), NEW x \in FileEntry
      PROVE  H!Loaded(Append(s, x)) = Loading(H!Loaded(s), x)
  <2> DEFINE more == Append(s, x)
  <2>1. /\ more \in Seq(FileEntry) /\ Len(more) = Len(s) + 1 /\ more[Len(s) + 1] = x
        /\ \A k \in 1..Len(s) : more[k] = s[k]
        /\ Len(s) \in Nat
    OBVIOUS
  <2> HIDE DEF more
  <2>2. PICK v : /\ v[0] = <<>>
                 /\ \A k \in 1..Len(s) : v[k] = Loading(v[k - 1], s[k])
                 /\ v[Len(s)] = H!Loaded(s)
    BY LoadedTrail
  <2>3. PICK w : /\ w[0] = <<>>
                 /\ \A k \in 1..Len(more) : w[k] = Loading(w[k - 1], more[k])
                 /\ w[Len(more)] = H!Loaded(more)
    BY <2>1, LoadedTrail
  <2> DEFINE N == {n \in Nat : n <= Len(s) => w[n] = v[n]}
  <2>4. 0 \in N
    BY <2>2, <2>3
  <2>5. ASSUME NEW n \in Nat, n \in N
        PROVE  n + 1 \in N
    <3> SUFFICES ASSUME n + 1 <= Len(s)
                 PROVE  w[n + 1] = v[n + 1]
      OBVIOUS
    <3>1. w[n] = v[n]
      BY <2>1, <2>5
    <3>2. n + 1 \in 1..Len(s) /\ n + 1 \in 1..Len(more) /\ (n + 1) - 1 = n
      BY <2>1
    <3>3. more[n + 1] = s[n + 1]
      BY <2>1, <3>2
    <3>4. w[n + 1] = Loading(w[(n + 1) - 1], more[n + 1])
      BY <2>3, <3>2
    <3>5. v[n + 1] = Loading(v[(n + 1) - 1], s[n + 1])
      BY <2>2, <3>2
    <3> QED
      BY <3>1, <3>2, <3>3, <3>4, <3>5
  <2>6. Nat \subseteq N
    <3> HIDE DEF N
    <3> QED
      BY <2>4, <2>5, NatIndSet
  <2>7. w[Len(s)] = v[Len(s)]
    BY <2>1, <2>6
  <2>8. Len(s) + 1 \in 1..Len(more) /\ (Len(s) + 1) - 1 = Len(s)
    BY <2>1
  <2>9. w[Len(s) + 1] = Loading(w[(Len(s) + 1) - 1], more[Len(s) + 1])
    BY <2>3, <2>8
  <2>10. H!Loaded(more) = Loading(H!Loaded(s), x)
    BY <2>1, <2>2, <2>3, <2>7, <2>8, <2>9
  <2> QED
    BY <2>10 DEF more
<1> QED
  BY <1>1, <1>2

\* Merged, entry by entry
LEMMA MergedTrail ==
  ASSUME NEW old \in Seq(H!Entry), NEW s \in Seq(H!Entry)
  PROVE  \E w : /\ w[0] = old
                /\ \A k \in 1..Len(s) : w[k] = Merging(w[k - 1], s[k])
                /\ w[Len(s)] = H!Merged(old, s)
<1> DEFINE
  A == Seq(H!Entry)
  g == [p \in A \X H!Entry |-> Merging(p[1], p[2])]
  Is(it) == it = [x \in SUBSET DOMAIN s |->
                    IF x = {} THEN old
                    ELSE Merging(it[x \ {H!Max(x)}], s[H!Max(x)])]
  iter == CHOOSE it : Is(it)
<1>1. H!Merged(old, s) = iter[DOMAIN s]
  BY DEF H!Merged, H!FoldLeft, H!MapThenFoldSet, Merging
<1>2. \E it : Is(it)
  <2>1. g \in [A \X H!Entry -> A] /\ old \in A
    BY MergingType
  <2>2. PICK it \in [SUBSET (1..Len(s)) -> A] : Folds(it, old, g, s)
    <3> HIDE DEF g, A
    <3> QED
      BY <2>1, FoldExists
  <2>3. \A x \in SUBSET (1..Len(s)) :
          it[x] = IF x = {} THEN old ELSE Merging(it[x \ {H!Max(x)}], s[H!Max(x)])
    <3> SUFFICES ASSUME NEW x \in SUBSET (1..Len(s)), x # {}
                 PROVE  g[<<it[x \ {H!Max(x)}], s[H!Max(x)]>>] =
                          Merging(it[x \ {H!Max(x)}], s[H!Max(x)])
      BY <2>2 DEF Folds
    <3> HIDE DEF A
    <3>1. H!Max(x) \in 1..Len(s)
      <4>1. Len(s) \in Nat
        OBVIOUS
      <4> QED
        BY <4>1, MaxOf
    <3>2. it[x \ {H!Max(x)}] \in A /\ s[H!Max(x)] \in H!Entry
      <4>1. x \ {H!Max(x)} \in SUBSET (1..Len(s))
        OBVIOUS
      <4>2. s[H!Max(x)] \in H!Entry
        BY <3>1
      <4> QED
        BY <4>1, <4>2
    <3> QED
      BY <3>2
  <2>4. DOMAIN s = 1..Len(s)
    OBVIOUS
  <2>5. Is(it)
    <3> HIDE DEF A, g
    <3> QED
      BY <2>2, <2>3, <2>4
  <2> QED
    BY <2>5
<1>3. Is(iter)
  <2> HIDE DEF Is
  <2> QED
    BY <1>2
<1> HIDE DEF iter, g
<1> DEFINE w == [k \in 0..Len(s) |-> iter[1..k]]
<1>4. w[0] = old
  <2>1. iter[{}] = old
    BY <1>3
  <2>2. 1..0 = {}
    OBVIOUS
  <2> QED
    BY <2>1, <2>2
<1>5. ASSUME NEW k \in 1..Len(s)
      PROVE  w[k] = Merging(w[k - 1], s[k])
  <2>1. (1..k) \in SUBSET (1..Len(s)) /\ 1..k # {} /\ k \in Nat
    <3>1. Len(s) \in Nat
      OBVIOUS
    <3>2. k \in Nat /\ k \in 1..k
      BY <3>1
    <3>3. \A i \in 1..k : i \in 1..Len(s)
      BY <3>1
    <3> QED
      BY <3>2, <3>3
  <2>2. H!Max(1..k) = k
    <3>1. (1..k) \in SUBSET (1..k)
      OBVIOUS
    <3>2. H!Max(1..k) \in 1..k /\ \A y \in 1..k : y <= H!Max(1..k)
      BY <2>1, <3>1, MaxOf, Zenon
    <3>3. k \in 1..k
      BY <2>1
    <3> QED
      BY <2>1, <3>2, <3>3
  <2>3. (1..k) \ {k} = 1..(k - 1)
    OBVIOUS
  <2>4. (1..k) \in SUBSET DOMAIN s
    BY <2>1
  <2>5. iter[1..k] = Merging(iter[(1..k) \ {H!Max(1..k)}], s[H!Max(1..k)])
    <3> HIDE DEF w
    <3> QED
      BY <1>3, <2>1, <2>4, Zenon
  <2>6. iter[1..k] = Merging(iter[1..(k - 1)], s[k])
    BY <2>2, <2>3, <2>5
  <2> QED
    BY <2>6
<1>6. w[Len(s)] = H!Merged(old, s)
  BY <1>1
<1> HIDE DEF w
<1> QED
  BY <1>4, <1>5, <1>6

\* The value for no element, and with one more
LEMMA MergedStep ==
  ASSUME NEW old \in Seq(H!Entry)
  PROVE  /\ H!Merged(old, <<>>) = old
         /\ \A s \in Seq(H!Entry), x \in H!Entry :
              H!Merged(old, Append(s, x)) = Merging(H!Merged(old, s), x)
<1>1. H!Merged(old, <<>>) = old
  <2> DEFINE none == <<>>
  <2>1. none \in Seq(H!Entry) /\ Len(none) = 0
    OBVIOUS
  <2> HIDE DEF none
  <2>2. PICK w : /\ w[0] = old
                 /\ \A k \in 1..Len(none) : w[k] = Merging(w[k - 1], none[k])
                 /\ w[Len(none)] = H!Merged(old, none)
    BY <2>1, MergedTrail
  <2>3. H!Merged(old, none) = old
    BY <2>1, <2>2
  <2> QED
    BY <2>3 DEF none
<1>2. ASSUME NEW s \in Seq(H!Entry), NEW x \in H!Entry
      PROVE  H!Merged(old, Append(s, x)) = Merging(H!Merged(old, s), x)
  <2> DEFINE more == Append(s, x)
  <2>1. /\ more \in Seq(H!Entry) /\ Len(more) = Len(s) + 1 /\ more[Len(s) + 1] = x
        /\ \A k \in 1..Len(s) : more[k] = s[k]
        /\ Len(s) \in Nat
    OBVIOUS
  <2> HIDE DEF more
  <2>2. PICK v : /\ v[0] = old
                 /\ \A k \in 1..Len(s) : v[k] = Merging(v[k - 1], s[k])
                 /\ v[Len(s)] = H!Merged(old, s)
    BY MergedTrail
  <2>3. PICK w : /\ w[0] = old
                 /\ \A k \in 1..Len(more) : w[k] = Merging(w[k - 1], more[k])
                 /\ w[Len(more)] = H!Merged(old, more)
    BY <2>1, MergedTrail
  <2> DEFINE N == {n \in Nat : n <= Len(s) => w[n] = v[n]}
  <2>4. 0 \in N
    BY <2>2, <2>3
  <2>5. ASSUME NEW n \in Nat, n \in N
        PROVE  n + 1 \in N
    <3> SUFFICES ASSUME n + 1 <= Len(s)
                 PROVE  w[n + 1] = v[n + 1]
      OBVIOUS
    <3>1. w[n] = v[n]
      BY <2>1, <2>5
    <3>2. n + 1 \in 1..Len(s) /\ n + 1 \in 1..Len(more) /\ (n + 1) - 1 = n
      BY <2>1
    <3>3. more[n + 1] = s[n + 1]
      BY <2>1, <3>2
    <3>4. w[n + 1] = Merging(w[(n + 1) - 1], more[n + 1])
      BY <2>3, <3>2
    <3>5. v[n + 1] = Merging(v[(n + 1) - 1], s[n + 1])
      BY <2>2, <3>2
    <3> QED
      BY <3>1, <3>2, <3>3, <3>4, <3>5
  <2>6. Nat \subseteq N
    <3> HIDE DEF N
    <3> QED
      BY <2>4, <2>5, NatIndSet
  <2>7. w[Len(s)] = v[Len(s)]
    BY <2>1, <2>6
  <2>8. Len(s) + 1 \in 1..Len(more) /\ (Len(s) + 1) - 1 = Len(s)
    BY <2>1
  <2>9. w[Len(s) + 1] = Merging(w[(Len(s) + 1) - 1], more[Len(s) + 1])
    BY <2>3, <2>8
  <2>10. H!Merged(old, more) = Merging(H!Merged(old, s), x)
    BY <2>1, <2>2, <2>3, <2>7, <2>8, <2>9
  <2> QED
    BY <2>10 DEF more
<1> QED
  BY <1>1, <1>2

\* The history as it is read is a list, with every line once.
LEMMA LoadedType ==
  ASSUME NEW f \in Seq(FileEntry)
  PROVE  H!Loaded(f) \in Seq(H!Entry) /\ H!IsInjective(H!LinesOf(H!Loaded(f)))
<1> DEFINE U == {t \in Seq(FileEntry) :
                   H!Loaded(t) \in Seq(H!Entry) /\ H!IsInjective(H!LinesOf(H!Loaded(t)))}
<1>1. <<>> \in U
  <2>1. <<>> \in Seq(FileEntry) /\ <<>> \in Seq(H!Entry)
    OBVIOUS
  <2>2. H!IsInjective(H!LinesOf(<<>>))
    BY DEF H!LinesOf, H!IsInjective
  <2> QED
    BY <2>1, <2>2, LoadedStep
<1>2. ASSUME NEW t \in Seq(FileEntry), t \in U, NEW x \in FileEntry
      PROVE  Append(t, x) \in U
  <2>1. H!Loaded(t) \in Seq(H!Entry) /\ H!IsInjective(H!LinesOf(H!Loaded(t)))
    BY <1>2
  <2>2. H!Loaded(Append(t, x)) = Loading(H!Loaded(t), x)
    BY LoadedStep
  <2>3. Append(t, x) \in Seq(FileEntry)
    OBVIOUS
  <2> QED
    BY <2>1, <2>2, <2>3, LoadingType
<1>3. f \in U
  <2> HIDE DEF U
  <2>1. Seq(FileEntry) \subseteq U
    BY <1>1, <1>2, SeqIndSet
  <2> QED
    BY <2>1
<1> QED
  BY <1>3

NewOf(h) == {h[i].line : i \in {j \in DOMAIN h : h[j].new}}

LEMMA NewAppend ==
  ASSUME NEW h \in Seq(H!Entry), NEW e \in H!Entry
  PROVE  NewOf(Append(h, e)) = IF e.new THEN NewOf(h) \cup {e.line} ELSE NewOf(h)
<1> DEFINE m == Append(h, e)
<1>1. /\ DOMAIN m = 1..(Len(h) + 1) /\ DOMAIN h = 1..Len(h) /\ Len(h) \in Nat
      /\ m[Len(h) + 1] = e /\ \A i \in 1..Len(h) : m[i] = h[i]
  OBVIOUS
<1> HIDE DEF m
<1>2. ASSUME NEW x
      PROVE  x \in NewOf(m) <=> (x \in NewOf(h) \/ (e.new /\ x = e.line))
  <2>1. ASSUME x \in NewOf(m) PROVE x \in NewOf(h) \/ (e.new /\ x = e.line)
    <3>1. PICK i \in DOMAIN m : m[i].new /\ x = m[i].line
      BY <2>1 DEF NewOf
    <3>2. CASE i = Len(h) + 1
      BY <1>1, <3>1, <3>2
    <3>3. CASE i \in 1..Len(h)
      <4>1. i \in DOMAIN h /\ h[i].new /\ x = h[i].line
        BY <1>1, <3>1, <3>3
      <4> QED
        BY <4>1 DEF NewOf
    <3>4. i = Len(h) + 1 \/ i \in 1..Len(h)
      BY <1>1
    <3> QED
      BY <3>2, <3>3, <3>4
  <2>2. ASSUME x \in NewOf(h) PROVE x \in NewOf(m)
    <3>1. PICK i \in DOMAIN h : h[i].new /\ x = h[i].line
      BY <2>2 DEF NewOf
    <3>2. i \in DOMAIN m /\ m[i].new /\ x = m[i].line
      BY <1>1, <3>1
    <3> QED
      BY <3>2 DEF NewOf
  <2>3. ASSUME e.new, x = e.line PROVE x \in NewOf(m)
    <3>1. Len(h) + 1 \in DOMAIN m /\ m[Len(h) + 1].new /\ x = m[Len(h) + 1].line
      BY <1>1, <2>3
    <3> QED
      BY <3>1 DEF NewOf
  <2> QED
    BY <2>1, <2>2, <2>3
<1>3. NewOf(m) = IF e.new THEN NewOf(h) \cup {e.line} ELSE NewOf(h)
  BY <1>2
<1> QED
  BY <1>3 DEF m

\* The new lines of a list are among its lines.
LEMMA NewAmong ==
  ASSUME NEW h \in Seq(H!Entry), NEW x \in NewOf(h)
  PROVE  x \in Lines /\ \E i \in 1..Len(h) : H!LinesOf(h)[i] = x
<1>1. PICK i \in DOMAIN h : x = h[i].line
  BY DEF NewOf
<1>2. i \in 1..Len(h) /\ h[i] \in H!Entry
  OBVIOUS
<1>3. H!LinesOf(h)[i] = h[i].line
  BY <1>2, EntryLines, LinesType
<1> QED
  BY <1>1, <1>2, <1>3, EntryLines

\* What is merged is what was read, without the lines that are new in the list, and
\* then those, in the order of the list.
LEMMA MergedLines ==
  ASSUME NEW old \in Seq(H!Entry), H!IsInjective(H!LinesOf(old)),
         NEW h \in Seq(H!Entry), H!IsInjective(H!LinesOf(h))
  PROVE  /\ H!Merged(old, h) \in Seq(H!Entry)
         /\ H!IsInjective(H!LinesOf(H!Merged(old, h)))
         /\ H!LinesOf(H!Merged(old, h)) =
              H!Those(H!LinesOf(old), Lines \ NewOf(h)) \o H!Those(H!LinesOf(h), NewOf(h))
<1> DEFINE
  Old(t) == H!Those(H!LinesOf(old), Lines \ NewOf(t))
  New(t) == H!Those(H!LinesOf(t), NewOf(t))
  Is(t) == /\ H!Merged(old, t) \in Seq(H!Entry)
           /\ H!IsInjective(H!LinesOf(H!Merged(old, t)))
           /\ H!LinesOf(H!Merged(old, t)) = Old(t) \o New(t)
  Good(t) == H!IsInjective(H!LinesOf(t)) => Is(t)
  U == {t \in Seq(H!Entry) : Good(t)}
<1>0. H!LinesOf(old) \in Seq(Lines)
  BY EntryLines, LinesType
<1>1. <<>> \in U
  <2>1. NewOf(<<>>) = {}
    BY DEF NewOf
  <2>2. H!LinesOf(<<>>) = <<>>
    <3>1. DOMAIN H!LinesOf(<<>>) = {}
      BY DEF H!LinesOf
    <3> QED
      BY DEF H!LinesOf
  <2>3. New(<<>>) = <<>>
    BY <2>2, ThoseStep
  <2>4. Old(<<>>) = H!LinesOf(old)
    <3>1. \A i \in 1..Len(H!LinesOf(old)) : H!LinesOf(old)[i] \in Lines \ {}
      BY <1>0
    <3>2. H!Those(H!LinesOf(old), Lines \ {}) = H!LinesOf(old)
      BY <1>0, <3>1, ThoseAll
    <3> QED
      BY <2>1, <3>2
  <2>5. H!Merged(old, <<>>) = old
    BY MergedStep
  <2>6. H!LinesOf(old) \o <<>> = H!LinesOf(old)
    BY <1>0
  <2>7. Is(<<>>)
    <3> HIDE DEF Old, New
    <3> QED
      BY <2>3, <2>4, <2>5, <2>6
  <2>8. <<>> \in Seq(H!Entry)
    OBVIOUS
  <2> HIDE DEF Is
  <2> QED
    BY <2>7, <2>8
<1>2. ASSUME NEW t \in Seq(H!Entry), t \in U, NEW e \in H!Entry
      PROVE  Append(t, e) \in U
  <2> DEFINE u == Append(t, e)
             lt == H!LinesOf(t)
             m == H!Merged(old, t)
             x == e.line
  <2>1. u \in Seq(H!Entry)
    OBVIOUS
  <2> SUFFICES ASSUME H!IsInjective(H!LinesOf(u))
               PROVE  Is(u)
    <3> HIDE DEF Is
    <3> QED
      BY <2>1
  <2>2. lt \in Seq(Lines) /\ x \in Lines /\ H!LinesOf(u) = Append(lt, x)
    BY EntryLines, LinesType, LinesAppend
  <2>3. H!IsInjective(lt) /\ \A i \in 1..Len(lt) : lt[i] # x
    <3> HIDE DEF lt, u, x
    <3> QED
      BY <2>2, InjectivePrefix
  <2>4. Is(t)
    <3>1. Good(t)
      <4> HIDE DEF Good
      <4> QED
        BY <1>2
    <3> HIDE DEF Is
    <3> QED
      BY <2>3, <3>1
  <2>5. H!Merged(old, u) = IF e.new THEN H!AppendOrMove[m][e] ELSE m
    <3>1. H!Merged(old, u) = Merging(m, e)
      BY MergedStep
    <3> QED
      BY <3>1 DEF Merging
  <2>6. NewOf(u) = IF e.new THEN NewOf(t) \cup {x} ELSE NewOf(t)
    BY NewAppend
  <2>7. x \notin NewOf(t)
    <3> SUFFICES ASSUME x \in NewOf(t)
                 PROVE  FALSE
      OBVIOUS
    <3>1. \E i \in 1..Len(t) : lt[i] = x
      BY NewAmong
    <3>2. Len(lt) = Len(t)
      BY EntryLines, LinesType
    <3> HIDE DEF lt, x
    <3> QED
      BY <2>3, <3>1, <3>2
  <2>8. Old(t) \in Seq(Lines) /\ New(t) \in Seq(Lines)
    BY <1>0, <2>2, ThoseType
  <2>9. CASE e.new
    <3>1. H!LinesOf(H!AppendOrMove[m][e]) = Append(H!Those(H!LinesOf(m), Lines \ {x}), x)
      BY <2>4, MoveLines
    <3>2. H!AppendOrMove[m][e] \in Seq(H!Entry) /\ H!IsInjective(H!LinesOf(H!AppendOrMove[m][e]))
      BY <2>4, MoveType, MoveUnique
    <3>3. H!Those(H!LinesOf(m), Lines \ {x}) =
            H!Those(Old(t), Lines \ {x}) \o H!Those(New(t), Lines \ {x})
      <4>1. H!LinesOf(m) = Old(t) \o New(t)
        BY <2>4
      <4> HIDE DEF m, Old, New
      <4> QED
        BY <2>8, <4>1, ThoseConcat
    <3>4. H!Those(Old(t), Lines \ {x}) = Old(u)
      <4>1. H!Those(Old(t), Lines \ {x}) =
              H!Those(H!LinesOf(old), (Lines \ NewOf(t)) \cap (Lines \ {x}))
        BY <1>0, ThoseAgain
      <4>2. (Lines \ NewOf(t)) \cap (Lines \ {x}) = Lines \ NewOf(u)
        BY <2>6, <2>9
      <4> QED
        BY <4>1, <4>2
    <3>5. H!Those(New(t), Lines \ {x}) = H!Those(lt, NewOf(u))
      <4>1. H!Those(New(t), Lines \ {x}) = H!Those(lt, NewOf(t) \cap (Lines \ {x}))
        BY <2>2, ThoseAgain
      <4>2. \A i \in 1..Len(lt) : lt[i] \in NewOf(t) \cap (Lines \ {x}) <=> lt[i] \in NewOf(u)
        <5>1. \A i \in 1..Len(lt) : lt[i] \in Lines
          BY <2>2
        <5> HIDE DEF lt, u, x
        <5> QED
          BY <2>3, <2>6, <2>9, <5>1
      <4>3. H!Those(lt, NewOf(t) \cap (Lines \ {x})) = H!Those(lt, NewOf(u))
        <5> HIDE DEF lt, u, x
        <5> QED
          BY <2>2, <4>2, ThoseSame
      <4> QED
        BY <4>1, <4>3
    <3>6. New(u) = Append(H!Those(lt, NewOf(u)), x)
      <4>1. x \in NewOf(u)
        BY <2>6, <2>9
      <4>2. H!Those(Append(lt, x), NewOf(u)) = Append(H!Those(lt, NewOf(u)), x)
        <5> HIDE DEF lt, u, x
        <5> QED
          BY <2>2, <4>1, ThoseNext
      <4> QED
        BY <2>2, <4>2
    <3>7. /\ H!Those(lt, NewOf(u)) \in Seq(Lines) /\ Old(u) \in Seq(Lines)
      BY <1>0, <2>2, ThoseType
    <3>8. H!LinesOf(H!Merged(old, u)) = Append(Old(u) \o H!Those(lt, NewOf(u)), x)
      BY <2>5, <2>9, <3>1, <3>3, <3>4, <3>5
    <3>9. H!LinesOf(H!Merged(old, u)) = Old(u) \o New(u)
      <4> HIDE DEF Old, New, x, u, lt
      <4>1. H!LinesOf(H!Merged(old, u)) = Append(Joined(Old(u), H!Those(lt, NewOf(u))), x)
        BY <3>8 DEF Joined
      <4> DEFINE a == Old(u)
                 b == H!Those(lt, NewOf(u))
      <4>2. a \in Seq(Lines) /\ b \in Seq(Lines) /\ x \in Lines
        BY <2>2, <3>7
      <4> HIDE DEF a, b
      <4>3. Append(Joined(a, b), x) = Joined(a, Append(b, x))
        BY <4>2, JoinedAppend
      <4>4. H!LinesOf(H!Merged(old, u)) = Joined(Old(u), New(u))
        BY <3>6, <4>1, <4>3 DEF a, b
      <4> QED
        BY <4>4 DEF Joined
    <3> QED
      BY <2>5, <2>9, <3>2, <3>9
  <2>10. CASE ~e.new
    <3>1. NewOf(u) = NewOf(t) /\ H!Merged(old, u) = m
      BY <2>5, <2>6, <2>10
    <3>2. New(u) = New(t)
      <4>1. H!Those(Append(lt, x), NewOf(t)) = H!Those(lt, NewOf(t))
        <5> HIDE DEF lt, u, x
        <5> QED
          BY <2>2, <2>7, ThoseNext
      <4> QED
        BY <2>2, <3>1, <4>1
    <3>3. Old(u) = Old(t)
      BY <3>1
    <3> HIDE DEF Old, New
    <3> QED
      BY <2>4, <3>1, <3>2, <3>3
  <2> QED
    BY <2>9, <2>10
<1>3. h \in U
  <2> HIDE DEF U
  <2>1. Seq(H!Entry) \subseteq U
    BY <1>1, <1>2, SeqIndSet
  <2> QED
    BY <2>1
<1>4. Is(h)
  <2> HIDE DEF Is
  <2> QED
    BY <1>3
<1> QED
  BY <1>4

\* What is written are the newest lines of the list.
LEMMA WrittenIs ==
  ASSUME HistSize \in Nat, NEW l \in Seq(H!Entry)
  PROVE  /\ H!Written(l) \in Seq([prefix : Modes, line : Lines])
         /\ Len(H!Written(l)) <= HistSize
         /\ H!LinesOf(H!Written(l)) = H!Newest(H!LinesOf(l))
         /\ H!IsInjective(H!LinesOf(l)) => H!IsInjective(H!LinesOf(H!Written(l)))
<1> DEFINE skip == IF Len(l) > HistSize THEN Len(l) - HistSize ELSE 0
           w == [i \in 1..(Len(l) - skip) |->
                   [prefix |-> l[i + skip].prefix, line |-> l[i + skip].line]]
           n == H!LinesOf(l)
           m == H!LinesOf(w)
<1>1. H!Written(l) = w
  BY DEF H!Written
<1>2. /\ skip \in Nat /\ skip <= Len(l) /\ Len(l) \in Nat /\ Len(l) - skip <= HistSize
      /\ Len(l) - skip \in Nat
  OBVIOUS
<1>3. n \in Seq(Lines) /\ Len(n) = Len(l) /\ \A k \in 1..Len(l) : n[k] = l[k].line
  BY EntryLines, LinesType
<1> HIDE DEF skip
<1>4. \A i \in 1..(Len(l) - skip) : i + skip \in 1..Len(l) /\ l[i + skip] \in H!Entry
  BY <1>2
<1>5. w \in Seq([prefix : Modes, line : Lines]) /\ Len(w) = Len(l) - skip
  <2>1. \A i \in 1..(Len(l) - skip) : w[i] \in [prefix : Modes, line : Lines]
    BY <1>4 DEF H!Entry
  <2> QED
    BY <1>2, <2>1
<1>6. DOMAIN w = 1..(Len(l) - skip)
  OBVIOUS
<1>7. \A i \in 1..(Len(l) - skip) : m[i] = n[i + skip]
  <2> SUFFICES ASSUME NEW i \in 1..(Len(l) - skip)
               PROVE  m[i] = n[i + skip]
    OBVIOUS
  <2>1. w[i].line = l[i + skip].line
    OBVIOUS
  <2>2. m[i] = w[i].line
    BY <1>6 DEF H!LinesOf
  <2> QED
    BY <1>3, <1>4, <2>1, <2>2
<1>8. m \in Seq(Lines) /\ Len(m) = Len(l) - skip
  <2>1. \A e \in [prefix : Modes, line : Lines] : e.line \in Lines
    OBVIOUS
  <2> HIDE DEF w
  <2> QED
    BY <1>5, <2>1, LinesType
<1> HIDE DEF w, n, m
<1>9. m = H!Newest(n)
  <2>1. CASE Len(l) > HistSize
    <3>1. skip = Len(l) - HistSize
      BY <2>1 DEF skip
    <3> DEFINE x == SubSeq(n, Len(n) - HistSize + 1, Len(n))
    <3>2. H!Newest(n) = x
      BY <1>3, <2>1 DEF H!Newest
    <3>3. x \in Seq(Lines) /\ Len(x) = HistSize
      BY <1>2, <1>3, <2>1
    <3>4. \A i \in 1..HistSize : x[i] = n[i + (Len(l) - HistSize)]
      BY <1>2, <1>3, <2>1
    <3> HIDE DEF x
    <3>5. Len(m) = Len(x) /\ \A i \in 1..Len(m) : x[i] = m[i]
      BY <1>2, <1>7, <1>8, <3>1, <3>3, <3>4, SMTT(30)
    <3>6. m = x
      BY <1>8, <3>3, <3>5, SameSeq
    <3> QED
      BY <3>2, <3>6
  <2>2. CASE ~(Len(l) > HistSize)
    <3>1. skip = 0
      BY <2>2 DEF skip
    <3>2. H!Newest(n) = n
      BY <1>3, <2>2 DEF H!Newest
    <3>3. Len(m) = Len(n) /\ \A i \in 1..Len(m) : n[i] = m[i]
      BY <1>2, <1>3, <1>7, <1>8, <3>1
    <3>4. m = n
      BY <1>3, <1>8, <3>3, SameSeq
    <3> QED
      BY <3>2, <3>4
  <2> QED
    BY <2>1, <2>2
<1>10. ASSUME H!IsInjective(n)
       PROVE  H!IsInjective(m)
  <2> SUFFICES ASSUME NEW i \in DOMAIN m, NEW j \in DOMAIN m, m[i] = m[j]
               PROVE  i = j
    BY DEF H!IsInjective
  <2>1. i \in 1..(Len(l) - skip) /\ j \in 1..(Len(l) - skip)
    BY <1>8
  <2>2. n[i + skip] = n[j + skip]
    BY <1>7, <2>1
  <2>3. i + skip \in DOMAIN n /\ j + skip \in DOMAIN n
    BY <1>3, <1>4, <2>1
  <2>4. i + skip = j + skip
    BY <1>10, <2>2, <2>3 DEF H!IsInjective
  <2> QED
    BY <1>2, <2>1, <2>4
<1> QED
  BY <1>1, <1>2, <1>5, <1>9, <1>10 DEF m, n

-----------------------------------------------------------------------------
(* The inductive invariant of History *)

HTyped ==
  /\ file = Missing \/ file \in Seq(FileEntry)
  /\ lock \in Procs \cup {Nobody}
  /\ pc \in [Procs -> {"start", "load", "running", "temp", "locked", "written", "gone"}]
  /\ list \in [Procs -> Seq(H!Entry)]
  /\ cur \in [Procs -> Nat]
  /\ out \in [Procs -> Seq([prefix : Modes, line : Lines])]

\* The cursor is in the list, and nowhere before the list is loaded.
HPlace == \A p \in Procs : /\ cur[p] <= Len(list[p])
                           /\ pc[p] \in {"start", "load", "gone"} => cur[p] = 0
HUnique == \A p \in Procs : H!IsInjective(H!LinesOf(list[p]))

\* Whoever reads or writes the history has the lock, so that what is about to replace
\* the file is made of the file as it is.
HLocked == \A p \in Procs : pc[p] \in {"load", "locked", "written"} => lock = p
HReady == \A p \in Procs : pc[p] = "written" =>
            file # Missing /\ out[p] = H!Written(H!Merged(H!Loaded(file), list[p]))
HOut == \A p \in Procs : pc[p] # "written" => out[p] = <<>>

HInv == HTyped /\ HPlace /\ HUnique /\ HLocked /\ HReady /\ HOut

\* What one instance changes of its own, and of the lock and the file
HStep(p, l, c, o, st) ==
  /\ list' = [list EXCEPT ![p] = l] /\ cur' = [cur EXCEPT ![p] = c]
  /\ out' = [out EXCEPT ![p] = o] /\ pc' = [pc EXCEPT ![p] = st]

\* A step of one instance keeps the invariant when it leaves that instance in order, and
\* touches the file only with the lock.
LEMMA OneStep ==
  ASSUME HInv, NEW p \in Procs, Nobody \notin Procs,
         NEW l \in Seq(H!Entry), H!IsInjective(H!LinesOf(l)),
         NEW c \in Nat, c <= Len(l),
         NEW o \in Seq([prefix : Modes, line : Lines]),
         NEW st \in {"start", "load", "running", "temp", "locked", "written", "gone"},
         st \in {"start", "load", "gone"} => c = 0,
         HStep(p, l, c, o, st),
         \/ lock' = lock
         \/ lock = Nobody /\ lock' = p
         \/ lock = p /\ lock' = Nobody,
         file' = file \/ (lock = p /\ file' \in Seq(FileEntry)),
         st \in {"load", "locked", "written"} => lock' = p,
         st = "written" =>
           file' = file /\ file # Missing /\ o = H!Written(H!Merged(H!Loaded(file), l)),
         st # "written" => o = <<>>
  PROVE  HInv'
<1>1. HTyped'
  BY DEF HInv, HTyped, HStep
<1>2. /\ list'[p] = l /\ cur'[p] = c /\ out'[p] = o /\ pc'[p] = st
      /\ \A q \in Procs \ {p} : list'[q] = list[q] /\ cur'[q] = cur[q] /\ out'[q] = out[q]
                                /\ pc'[q] = pc[q]
  BY DEF HInv, HTyped, HStep
<1>3. HPlace'
  BY <1>2 DEF HInv, HPlace
<1>4. HUnique'
  BY <1>2 DEF HInv, HUnique
<1>5. HLocked'
  BY <1>2 DEF HInv, HLocked
<1>6. HReady'
  <2> SUFFICES ASSUME NEW q \in Procs, pc'[q] = "written"
               PROVE  /\ file' # Missing
                      /\ out'[q] = H!Written(H!Merged(H!Loaded(file'), list'[q]))
    BY DEF HReady
  <2>1. CASE q = p
    BY <1>2, <2>1
  <2>2. CASE q # p
    <3>1. lock = q
      BY <1>2, <2>2 DEF HInv, HLocked
    <3>2. file' = file
      BY <2>2, <3>1
    <3> QED
      BY <1>2, <2>2, <3>2 DEF HInv, HReady
  <2> QED
    BY <2>1, <2>2
<1>7. HOut'
  BY <1>2 DEF HInv, HOut
<1> QED
  BY <1>1, <1>3, <1>4, <1>5, <1>6, <1>7 DEF HInv

LEMMA NoLines == <<>> \in Seq(H!Entry) /\ H!IsInjective(H!LinesOf(<<>>))
<1>1. <<>> \in Seq(H!Entry)
  OBVIOUS
<1>2. H!IsInjective(H!LinesOf(<<>>))
  BY DEF H!LinesOf, H!IsInjective
<1> QED
  BY <1>1, <1>2

LEMMA HInitInv ==
  ASSUME H!FilesAssumption, H!Init
  PROVE  HInv
<1>1. HTyped
  <2>1. file = Missing \/ file \in Seq(FileEntry)
    BY DEF H!FilesAssumption, H!Init, FileEntry
  <2>2. <<>> \in Seq(H!Entry) /\ <<>> \in Seq([prefix : Modes, line : Lines])
    OBVIOUS
  <2> QED
    BY <2>1, <2>2 DEF H!Init, HTyped
<1>2. HPlace /\ HLocked /\ HReady /\ HOut
  BY DEF H!Init, HPlace, HLocked, HReady, HOut
<1>3. HUnique
  BY NoLines DEF H!Init, HUnique
<1> QED
  BY <1>1, <1>2, <1>3 DEF HInv

\* What holds of one instance
LEMMA HOf ==
  ASSUME HInv, NEW p \in Procs
  PROVE  /\ list[p] \in Seq(H!Entry) /\ H!IsInjective(H!LinesOf(list[p]))
         /\ cur[p] \in Nat /\ cur[p] <= Len(list[p])
         /\ out[p] \in Seq([prefix : Modes, line : Lines])
         /\ pc[p] \in {"start", "load", "running", "temp", "locked", "written", "gone"}
         /\ pc[p] \in {"start", "load", "gone"} => cur[p] = 0
         /\ pc[p] \in {"load", "locked", "written"} => lock = p
         /\ pc[p] # "written" => out[p] = <<>>
  BY DEF HInv, HTyped, HPlace, HUnique, HLocked, HOut

LEMMA HWhole ==
  ASSUME HInv
  PROVE  /\ DOMAIN list = Procs /\ DOMAIN cur = Procs /\ DOMAIN out = Procs /\ DOMAIN pc = Procs
         /\ \A p \in Procs : /\ list = [list EXCEPT ![p] = list[p]]
                             /\ cur = [cur EXCEPT ![p] = cur[p]]
                             /\ out = [out EXCEPT ![p] = out[p]]
                             /\ pc = [pc EXCEPT ![p] = pc[p]]
  BY DEF HInv, HTyped

\* The end of an instance, with or without a new file
LEMMA GoneInv ==
  ASSUME HInv, NEW p \in Procs, Nobody \notin Procs, H!Gone(p), H!Release(p) \/ lock' = lock,
         file' = file \/ (lock = p /\ file' \in Seq(FileEntry))
  PROVE  HInv'
<1>1. HStep(p, <<>>, 0, <<>>, "gone")
  BY DEF H!Gone, H!Goto, HStep
<1>2. lock' = lock \/ (lock = p /\ lock' = Nobody)
  BY DEF H!Release
<1>3. <<>> \in Seq([prefix : Modes, line : Lines]) /\ 0 <= Len(<<>>)
  OBVIOUS
<1> QED
  BY <1>1, <1>2, <1>3, NoLines, OneStep

LEMMA HNextInv ==
  ASSUME HInv, H!ProcsAssumption, H!TypedAssumption, HistSize \in Nat, H!Next
  PROVE  HInv'
<1>0. Nobody \notin Procs
  BY DEF H!ProcsAssumption
<1>1. PICK p \in Procs :
        \/ H!Loading(p) \/ H!Writing(p) \/ H!MakeTemp(p) \/ H!Crash(p) \/ H!Start(p)
        \/ H!Reset(p) \/ H!HistoryPrev(p) \/ H!HistoryNext(p)
        \/ \E e \in Typed : H!HistoryAppend(p, e.prefix, e.line)
  BY DEF H!Next
<1> DEFINE l == list[p]
           c == cur[p]
           o == out[p]
<1>2. /\ l \in Seq(H!Entry) /\ H!IsInjective(H!LinesOf(l)) /\ c \in Nat /\ c <= Len(l)
      /\ o \in Seq([prefix : Modes, line : Lines])
      /\ pc[p] \in {"start", "load", "gone"} => c = 0
      /\ pc[p] \in {"load", "locked", "written"} => lock = p
      /\ pc[p] # "written" => o = <<>>
  BY HOf
<1>3. /\ list = [list EXCEPT ![p] = l] /\ cur = [cur EXCEPT ![p] = c]
      /\ out = [out EXCEPT ![p] = o] /\ pc = [pc EXCEPT ![p] = pc[p]]
  BY HWhole
<1> HIDE DEF l, c, o
<1>4. CASE H!LockToLoad(p)
  <2>1. HStep(p, l, c, o, "load") /\ lock = Nobody /\ lock' = p /\ file' = file /\ pc[p] = "start"
    BY <1>3, <1>4 DEF H!LockToLoad, H!Acquire, H!Goto, HStep
  <2> QED
    BY <1>0, <1>2, <2>1, OneStep
<1>5. CASE H!LoadGivesUp(p)
  <2>1. HStep(p, l, c, o, "running") /\ lock' = lock /\ file' = file /\ pc[p] = "start"
    BY <1>3, <1>5 DEF H!LoadGivesUp, H!TimedOut, H!Goto, HStep
  <2> QED
    BY <1>0, <1>2, <2>1, OneStep
<1>6. CASE H!Load(p)
  <2> DEFINE k == IF file = Missing THEN <<>> ELSE H!Loaded(file)
  <2>1. k \in Seq(H!Entry) /\ H!IsInjective(H!LinesOf(k))
    BY NoLines, LoadedType DEF HInv, HTyped
  <2>2. /\ HStep(p, k, c, o, "running") /\ file' = file /\ pc[p] = "load"
        /\ lock = p /\ lock' = Nobody
    BY <1>2, <1>3, <1>6 DEF H!Load, H!Release, H!Goto, HStep
  <2>3. c = 0 /\ o = <<>>
    BY <1>2, <2>2
  <2> HIDE DEF k
  <2>4. 0 <= Len(k)
    BY <2>1
  <2> QED
    BY <1>0, <1>2, <2>1, <2>2, <2>3, <2>4, OneStep
<1>7. CASE H!LockToWrite(p)
  <2>1. HStep(p, l, c, o, "locked") /\ lock = Nobody /\ lock' = p /\ file' = file /\ pc[p] = "temp"
    BY <1>3, <1>7 DEF H!LockToWrite, H!Acquire, H!Goto, H!Own, HStep
  <2> QED
    BY <1>0, <1>2, <2>1, OneStep
<1>8. CASE H!WriteGivesUp(p)
  <2>1. H!Gone(p) /\ lock' = lock /\ file' = file
    BY <1>8 DEF H!WriteGivesUp, H!TimedOut
  <2> QED
    BY <1>0, <2>1, GoneInv
<1>9. CASE H!ReadAgain(p)
  <2> DEFINE w == H!Written(H!Merged(H!Loaded(file), l))
  <2>1. file # Missing /\ file \in Seq(FileEntry)
    BY <1>9 DEF H!ReadAgain, HInv, HTyped
  <2>2. H!Loaded(file) \in Seq(H!Entry) /\ H!IsInjective(H!LinesOf(H!Loaded(file)))
    BY <2>1, LoadedType
  <2>3. H!Merged(H!Loaded(file), l) \in Seq(H!Entry)
    BY <1>2, <2>2, MergedLines
  <2>4. w \in Seq([prefix : Modes, line : Lines])
    BY <2>3, WrittenIs
  <2>5. HStep(p, l, c, w, "written") /\ file' = file /\ lock' = lock /\ pc[p] = "locked"
    BY <1>3, <1>9 DEF H!ReadAgain, H!Goto, H!Own, HStep, l
  <2>6. w = H!Written(H!Merged(H!Loaded(file), l))
    OBVIOUS
  <2> HIDE DEF w
  <2> QED
    BY <1>0, <1>2, <2>1, <2>4, <2>5, <2>6, OneStep
<1>10. CASE H!ReadOrWriteFails(p)
  <2>1. H!Gone(p) /\ H!Release(p) /\ file' = file
    BY <1>10 DEF H!ReadOrWriteFails, H!Abandon
  <2> QED
    BY <1>0, <2>1, GoneInv
<1>11. CASE H!Rename(p)
  <2>1. H!Gone(p) /\ H!Release(p) /\ file' = o /\ lock = p
    BY <1>2, <1>11 DEF H!Rename, o
  <2>2. o \in Seq(FileEntry)
    <3>1. [prefix : Modes, line : Lines] \subseteq FileEntry
      BY DEF FileEntry
    <3>2. o \in Seq([prefix : Modes, line : Lines])
      BY <1>2
    <3> QED
      BY <3>1, <3>2, MoreSeq
  <2> QED
    BY <1>0, <2>1, <2>2, GoneInv
<1>12. CASE H!RenameFails(p)
  <2>1. H!Gone(p) /\ H!Release(p) /\ file' = file
    BY <1>12 DEF H!RenameFails, H!Abandon
  <2> QED
    BY <1>0, <2>1, GoneInv
<1>13. CASE H!MakeTemp(p)
  <2>1. CASE H!Gone(p)
    <3>1. lock' = lock /\ file' = file
      BY <1>13 DEF H!MakeTemp
    <3> QED
      BY <1>0, <2>1, <3>1, GoneInv
  <2>2. CASE ~H!Gone(p)
    <3>1. HStep(p, l, 0, o, "temp") /\ lock' = lock /\ file' = file /\ pc[p] = "running"
      BY <1>3, <1>13, <2>2 DEF H!MakeTemp, H!Goto, HStep
    <3>2. 0 <= Len(l)
      BY <1>2
    <3> QED
      BY <1>0, <1>2, <3>1, <3>2, OneStep
  <2> QED
    BY <2>1, <2>2
<1>14. CASE H!Crash(p)
  <2>1. H!Gone(p) /\ H!Release(p) /\ file' = file
    BY <1>14 DEF H!Crash, H!Abandon
  <2> QED
    BY <1>0, <2>1, GoneInv
<1>15. CASE H!Start(p)
  <2>1. HStep(p, l, c, o, "start") /\ lock' = lock /\ file' = file /\ pc[p] = "gone"
    BY <1>3, <1>15 DEF H!Start, H!Goto, HStep
  <2> QED
    BY <1>0, <1>2, <2>1, OneStep
<1>16. CASE H!Reset(p)
  <2>1. HStep(p, l, 0, o, pc[p]) /\ lock' = lock /\ file' = file /\ pc[p] = "running"
    BY <1>3, <1>16 DEF H!Reset, HStep
  <2>2. 0 <= Len(l)
    BY <1>2
  <2> QED
    BY <1>0, <1>2, <2>1, <2>2, OneStep
<1>17. CASE H!HistoryPrev(p)
  <2> DEFINE d == H!Prev(l, c)
  <2>1. d \in Nat /\ d <= Len(l)
    BY <1>2 DEF H!Prev
  <2>2. HStep(p, l, d, o, pc[p]) /\ lock' = lock /\ file' = file /\ pc[p] = "running"
    BY <1>3, <1>17 DEF H!HistoryPrev, HStep, l, c
  <2> HIDE DEF d
  <2> QED
    BY <1>0, <1>2, <2>1, <2>2, OneStep
<1>18. CASE H!HistoryNext(p)
  <2> DEFINE d == H!NextEntry(l, c)
  <2>1. d \in Nat /\ d <= Len(l)
    BY <1>2 DEF H!NextEntry
  <2>2. HStep(p, l, d, o, pc[p]) /\ lock' = lock /\ file' = file /\ pc[p] = "running"
    BY <1>3, <1>18 DEF H!HistoryNext, HStep, l, c
  <2> HIDE DEF d
  <2> QED
    BY <1>0, <1>2, <2>1, <2>2, OneStep
<1>19. ASSUME NEW e \in Typed, H!HistoryAppend(p, e.prefix, e.line)
       PROVE  HInv'
  <2> DEFINE f == [prefix |-> e.prefix, line |-> e.line, new |-> TRUE]
             k == H!AppendOrMove[l][f]
  <2>1. f \in H!Entry
    BY DEF H!TypedAssumption, H!Entry
  <2> HIDE DEF f
  <2>2. k \in Seq(H!Entry) /\ H!IsInjective(H!LinesOf(k))
    BY <1>2, <2>1, MoveType, MoveUnique
  <2>3. HStep(p, k, 0, o, pc[p]) /\ lock' = lock /\ file' = file /\ pc[p] = "running"
    BY <1>3, <1>19 DEF H!HistoryAppend, HStep, l, f
  <2> HIDE DEF k
  <2>4. 0 <= Len(k)
    BY <2>2
  <2> QED
    BY <1>0, <1>2, <2>2, <2>3, <2>4, OneStep
<1> QED
  BY <1>1, <1>4, <1>5, <1>6, <1>7, <1>8, <1>9, <1>10, <1>11, <1>12, <1>13, <1>14, <1>15, <1>16,
     <1>17, <1>18, <1>19 DEF H!Loading, H!Writing

-----------------------------------------------------------------------------
(* What the invariant gives *)

LEMMA HTypeOK ==
  ASSUME HInv
  PROVE  H!TypeOK
<1>1. \A p \in Procs : cur[p] \in 0..Len(list[p])
  <2> SUFFICES ASSUME NEW p \in Procs
               PROVE  cur[p] \in 0..Len(list[p])
    OBVIOUS
  <2>1. Len(list[p]) \in Nat
    BY HOf
  <2> QED
    BY <2>1, HOf
<1> QED
  BY <1>1 DEF HInv, HTyped, H!TypeOK, FileEntry

LEMMA HLinesUnique ==
  ASSUME HInv, HistSize \in Nat
  PROVE  H!LinesAreUnique
<1> SUFFICES ASSUME NEW p \in Procs
             PROVE  /\ H!IsInjective(H!LinesOf(list[p])) /\ H!IsInjective(H!LinesOf(out[p]))
                    /\ pc[p] = "written" => Len(out[p]) <= HistSize
  BY DEF H!LinesAreUnique
<1>1. list[p] \in Seq(H!Entry) /\ H!IsInjective(H!LinesOf(list[p]))
  BY HOf
<1>2. CASE pc[p] = "written"
  <2> DEFINE m == H!Merged(H!Loaded(file), list[p])
  <2>1. file \in Seq(FileEntry) /\ out[p] = H!Written(m)
    BY <1>2 DEF HInv, HTyped, HReady
  <2>2. H!Loaded(file) \in Seq(H!Entry) /\ H!IsInjective(H!LinesOf(H!Loaded(file)))
    BY <2>1, LoadedType
  <2>3. m \in Seq(H!Entry) /\ H!IsInjective(H!LinesOf(m))
    BY <1>1, <2>2, MergedLines
  <2> HIDE DEF m
  <2> QED
    BY <1>1, <2>1, <2>3, WrittenIs
<1>3. CASE pc[p] # "written"
  <2>1. out[p] = <<>>
    BY <1>3, HOf
  <2> QED
    BY <1>1, <1>3, <2>1, NoLines
<1> QED
  BY <1>2, <1>3

\* Going back, from the newest to the oldest
LEMMA HRecall ==
  ASSUME HInv
  PROVE  H!RecallWalksTheList
<1> SUFFICES ASSUME NEW p \in Procs, list[p] # <<>>
             PROVE  LET l == list[p]
                        back[n \in 0..Len(l)] == IF n = 0 THEN 0 ELSE H!Prev(l, back[n - 1])
                    IN /\ {back[n] : n \in 1..Len(l)} = DOMAIN l
                       /\ H!Prev(l, back[Len(l)]) = back[Len(l)]
                       /\ \A n \in 1..Len(l) : H!NextEntry(l, back[n]) = back[n - 1]
  BY DEF H!RecallWalksTheList
<1> DEFINE
  l == list[p]
  Is(f) == f = [n \in 0..Len(l) |-> IF n = 0 THEN 0 ELSE H!Prev(l, f[n - 1])]
  back == CHOOSE f : Is(f)
  way == [n \in 0..Len(l) |-> IF n = 0 THEN 0 ELSE Len(l) + 1 - n]
<1>1. l \in Seq(H!Entry) /\ Len(l) \in Nat /\ Len(l) # 0 /\ DOMAIN l = 1..Len(l)
  <2>1. l \in Seq(H!Entry)
    BY HOf
  <2> QED
    BY <2>1
<1> HIDE DEF l
<1>2. Is(way)
  <2>1. ASSUME NEW n \in 0..Len(l)
        PROVE  way[n] = IF n = 0 THEN 0 ELSE H!Prev(l, way[n - 1])
    <3>1. CASE n = 0
      BY <3>1
    <3>2. CASE n = 1
      BY <1>1, <3>2 DEF H!Prev
    <3>3. CASE n \in 2..Len(l)
      <4>1. n - 1 \in 0..Len(l) /\ n - 1 # 0
        BY <1>1, <3>3
      <4>2. way[n - 1] = Len(l) + 1 - (n - 1)
        BY <4>1
      <4>3. way[n - 1] > 1
        BY <1>1, <3>3, <4>2
      <4> QED
        BY <1>1, <3>3, <4>2, <4>3 DEF H!Prev
    <3> QED
      BY <1>1, <3>1, <3>2, <3>3
  <2> QED
    BY <2>1
<1>3. Is(back)
  <2> HIDE DEF Is
  <2> QED
    BY <1>2
<1> HIDE DEF back
<1>4. \A n \in 0..Len(l) : back[n] = way[n]
  <2> DEFINE N == {n \in Nat : n <= Len(l) => back[n] = way[n]}
  <2>1. 0 \in N
    BY <1>1, <1>2, <1>3
  <2>2. ASSUME NEW n \in Nat, n \in N
        PROVE  n + 1 \in N
    <3> SUFFICES ASSUME n + 1 <= Len(l)
                 PROVE  back[n + 1] = way[n + 1]
      OBVIOUS
    <3>1. back[n] = way[n]
      BY <1>1, <2>2
    <3>2. n + 1 \in 0..Len(l) /\ n + 1 # 0 /\ (n + 1) - 1 = n
      BY <1>1
    <3>3. back[n + 1] = H!Prev(l, back[n])
      BY <1>3, <3>2
    <3>4. way[n + 1] = H!Prev(l, way[n])
      <4> HIDE DEF way
      <4> QED
        BY <1>2, <3>2
    <3> QED
      BY <3>1, <3>3, <3>4
  <2>3. Nat \subseteq N
    <3> HIDE DEF N
    <3> QED
      BY <2>1, <2>2, NatIndSet
  <2> SUFFICES ASSUME NEW n \in 0..Len(l)
               PROVE  back[n] = way[n]
    OBVIOUS
  <2>4. n \in N /\ n <= Len(l)
    <3> HIDE DEF N
    <3> QED
      BY <1>1, <2>3
  <2> QED
    BY <2>4
<1>5. \A n \in 1..Len(l) : way[n] = Len(l) + 1 - n
  BY <1>1
<1>6. {back[n] : n \in 1..Len(l)} = DOMAIN l
  <2>1. ASSUME NEW n \in 1..Len(l) PROVE back[n] \in 1..Len(l)
    <3>1. n \in 0..Len(l) /\ back[n] = Len(l) + 1 - n
      BY <1>1, <1>4, <1>5
    <3> QED
      BY <1>1, <3>1
  <2>2. ASSUME NEW i \in 1..Len(l) PROVE \E n \in 1..Len(l) : back[n] = i
    <3>1. Len(l) + 1 - i \in 1..Len(l) /\ Len(l) + 1 - i \in 0..Len(l)
      BY <1>1
    <3>2. back[Len(l) + 1 - i] = Len(l) + 1 - (Len(l) + 1 - i)
      BY <1>4, <1>5, <3>1
    <3> QED
      BY <1>1, <3>1, <3>2
  <2> QED
    BY <1>1, <2>1, <2>2
<1>7. H!Prev(l, back[Len(l)]) = back[Len(l)]
  <2>1. Len(l) \in 0..Len(l) /\ Len(l) \in 1..Len(l)
    BY <1>1
  <2>2. back[Len(l)] = 1
    BY <1>1, <1>4, <1>5, <2>1
  <2> QED
    BY <2>2 DEF H!Prev
<1>8. ASSUME NEW n \in 1..Len(l)
      PROVE  H!NextEntry(l, back[n]) = back[n - 1]
  <2>1. n \in 0..Len(l) /\ n - 1 \in 0..Len(l)
    BY <1>1
  <2>2. back[n] = Len(l) + 1 - n
    BY <1>4, <1>5, <2>1
  <2>3. CASE n = 1
    <3>1. back[n - 1] = 0 /\ back[n] = Len(l)
      BY <1>1, <1>4, <2>1, <2>2, <2>3
    <3> QED
      BY <3>1 DEF H!NextEntry
  <2>4. CASE n # 1
    <3>1. n - 1 \in 1..Len(l)
      BY <1>1, <2>4
    <3>2. back[n - 1] = Len(l) + 1 - (n - 1)
      BY <1>4, <1>5, <2>1, <3>1
    <3>3. back[n] # 0 /\ back[n] # Len(l) /\ back[n] + 1 = back[n - 1]
      BY <1>1, <2>2, <2>4, <3>2
    <3> QED
      BY <3>3 DEF H!NextEntry
  <2> QED
    BY <2>3, <2>4
<1> QED
  BY <1>6, <1>7, <1>8 DEF back, l

\* Replacing the file
LEMMA HRename ==
  ASSUME HInv, HistSize \in Nat, NEW p \in Procs, H!Rename(p)
  PROVE  LET new == H!Those(H!LinesOf(list[p]), H!NewLines(p))
             others == H!Those(H!LinesOf(H!Loaded(file)), Lines \ H!NewLines(p))
         IN H!LinesOf(file') = H!Newest(others \o new)
<1> DEFINE m == H!Merged(H!Loaded(file), list[p])
<1>1. file \in Seq(FileEntry) /\ file' = H!Written(m)
  BY DEF H!Rename, HInv, HTyped, HReady
<1>2. list[p] \in Seq(H!Entry) /\ H!IsInjective(H!LinesOf(list[p]))
  BY HOf
<1>3. H!Loaded(file) \in Seq(H!Entry) /\ H!IsInjective(H!LinesOf(H!Loaded(file)))
  BY <1>1, LoadedType
<1>4. /\ m \in Seq(H!Entry)
      /\ H!LinesOf(m) = H!Those(H!LinesOf(H!Loaded(file)), Lines \ NewOf(list[p]))
                          \o H!Those(H!LinesOf(list[p]), NewOf(list[p]))
  BY <1>2, <1>3, MergedLines
<1> HIDE DEF m
<1>5. H!LinesOf(H!Written(m)) = H!Newest(H!LinesOf(m))
  BY <1>4, WrittenIs
<1>6. H!NewLines(p) = NewOf(list[p])
  BY DEF H!NewLines, NewOf
<1> QED
  BY <1>1, <1>4, <1>5, <1>6

-----------------------------------------------------------------------------
(* Lines of programs *)

Chunks == {"n", "f"}
Lengths == [lines : Seq(Nat), part : Nat]

\* How the folds of the programs go on by an element
Splitting(g, chunk) == IF chunk = "n" THEN [lines |-> Append(g.lines, g.part + 1), part |-> 0]
                       ELSE [lines |-> g.lines, part |-> g.part + 1]
Adding(n, x) == n + x

LEMMA SplittingType ==
  ASSUME NEW g \in Lengths, NEW chunk \in Chunks
  PROVE  Splitting(g, chunk) \in Lengths
  BY DEF Splitting, Lengths

\* Split, chunk by chunk
LEMMA SplitTrail ==
  ASSUME NEW got \in Lengths, NEW s \in Seq(Chunks)
  PROVE  \E w : /\ w[0] = got
                /\ \A k \in 1..Len(s) : w[k] = Splitting(w[k - 1], s[k])
                /\ w[Len(s)] = P!Split(got, s)
<1> DEFINE
  A == Lengths
  g == [p \in A \X Chunks |-> Splitting(p[1], p[2])]
  Is(it) == it = [x \in SUBSET DOMAIN s |->
                    IF x = {} THEN got
                    ELSE Splitting(it[x \ {H!Max(x)}], s[H!Max(x)])]
  iter == CHOOSE it : Is(it)
<1>1. P!Split(got, s) = iter[DOMAIN s]
  BY DEF P!Split, P!FoldLeft, P!MapThenFoldSet, H!Max, P!Max, Splitting
<1>2. \E it : Is(it)
  <2>1. g \in [A \X Chunks -> A] /\ got \in A
    BY SplittingType
  <2>2. PICK it \in [SUBSET (1..Len(s)) -> A] : Folds(it, got, g, s)
    <3> HIDE DEF g, A
    <3> QED
      BY <2>1, FoldExists
  <2>3. \A x \in SUBSET (1..Len(s)) :
          it[x] = IF x = {} THEN got ELSE Splitting(it[x \ {H!Max(x)}], s[H!Max(x)])
    <3> SUFFICES ASSUME NEW x \in SUBSET (1..Len(s)), x # {}
                 PROVE  g[<<it[x \ {H!Max(x)}], s[H!Max(x)]>>] =
                          Splitting(it[x \ {H!Max(x)}], s[H!Max(x)])
      BY <2>2 DEF Folds
    <3> HIDE DEF A
    <3>1. H!Max(x) \in 1..Len(s)
      <4>1. Len(s) \in Nat
        OBVIOUS
      <4> QED
        BY <4>1, MaxOf
    <3>2. it[x \ {H!Max(x)}] \in A /\ s[H!Max(x)] \in Chunks
      <4>1. x \ {H!Max(x)} \in SUBSET (1..Len(s))
        OBVIOUS
      <4>2. s[H!Max(x)] \in Chunks
        BY <3>1
      <4> QED
        BY <4>1, <4>2
    <3> QED
      BY <3>2
  <2>4. DOMAIN s = 1..Len(s)
    OBVIOUS
  <2>5. Is(it)
    <3> HIDE DEF A, g
    <3> QED
      BY <2>2, <2>3, <2>4
  <2> QED
    BY <2>5
<1>3. Is(iter)
  <2> HIDE DEF Is
  <2> QED
    BY <1>2
<1> HIDE DEF iter, g
<1> DEFINE w == [k \in 0..Len(s) |-> iter[1..k]]
<1>4. w[0] = got
  <2>1. iter[{}] = got
    BY <1>3
  <2>2. 1..0 = {}
    OBVIOUS
  <2> QED
    BY <2>1, <2>2
<1>5. ASSUME NEW k \in 1..Len(s)
      PROVE  w[k] = Splitting(w[k - 1], s[k])
  <2>1. (1..k) \in SUBSET (1..Len(s)) /\ 1..k # {} /\ k \in Nat
    <3>1. Len(s) \in Nat
      OBVIOUS
    <3>2. k \in Nat /\ k \in 1..k
      BY <3>1
    <3>3. \A i \in 1..k : i \in 1..Len(s)
      BY <3>1
    <3> QED
      BY <3>2, <3>3
  <2>2. H!Max(1..k) = k
    <3>1. (1..k) \in SUBSET (1..k)
      OBVIOUS
    <3>2. H!Max(1..k) \in 1..k /\ \A y \in 1..k : y <= H!Max(1..k)
      BY <2>1, <3>1, MaxOf, Zenon
    <3>3. k \in 1..k
      BY <2>1
    <3> QED
      BY <2>1, <3>2, <3>3
  <2>3. (1..k) \ {k} = 1..(k - 1)
    OBVIOUS
  <2>4. (1..k) \in SUBSET DOMAIN s
    BY <2>1
  <2>5. iter[1..k] = Splitting(iter[(1..k) \ {H!Max(1..k)}], s[H!Max(1..k)])
    <3> HIDE DEF w
    <3> QED
      BY <1>3, <2>1, <2>4, Zenon
  <2>6. iter[1..k] = Splitting(iter[1..(k - 1)], s[k])
    BY <2>2, <2>3, <2>5
  <2> QED
    BY <2>6
<1>6. w[Len(s)] = P!Split(got, s)
  BY <1>1
<1> HIDE DEF w
<1> QED
  BY <1>4, <1>5, <1>6

\* The value for no element, and with one more
LEMMA SplitStep ==
  ASSUME NEW got \in Lengths
  PROVE  /\ P!Split(got, <<>>) = got
         /\ \A s \in Seq(Chunks), x \in Chunks :
              P!Split(got, Append(s, x)) = Splitting(P!Split(got, s), x)
<1>1. P!Split(got, <<>>) = got
  <2> DEFINE none == <<>>
  <2>1. none \in Seq(Chunks) /\ Len(none) = 0
    OBVIOUS
  <2> HIDE DEF none
  <2>2. PICK w : /\ w[0] = got
                 /\ \A k \in 1..Len(none) : w[k] = Splitting(w[k - 1], none[k])
                 /\ w[Len(none)] = P!Split(got, none)
    BY <2>1, SplitTrail
  <2>3. P!Split(got, none) = got
    BY <2>1, <2>2
  <2> QED
    BY <2>3 DEF none
<1>2. ASSUME NEW s \in Seq(Chunks), NEW x \in Chunks
      PROVE  P!Split(got, Append(s, x)) = Splitting(P!Split(got, s), x)
  <2> DEFINE more == Append(s, x)
  <2>1. /\ more \in Seq(Chunks) /\ Len(more) = Len(s) + 1 /\ more[Len(s) + 1] = x
        /\ \A k \in 1..Len(s) : more[k] = s[k]
        /\ Len(s) \in Nat
    OBVIOUS
  <2> HIDE DEF more
  <2>2. PICK v : /\ v[0] = got
                 /\ \A k \in 1..Len(s) : v[k] = Splitting(v[k - 1], s[k])
                 /\ v[Len(s)] = P!Split(got, s)
    BY SplitTrail
  <2>3. PICK w : /\ w[0] = got
                 /\ \A k \in 1..Len(more) : w[k] = Splitting(w[k - 1], more[k])
                 /\ w[Len(more)] = P!Split(got, more)
    BY <2>1, SplitTrail
  <2> DEFINE N == {n \in Nat : n <= Len(s) => w[n] = v[n]}
  <2>4. 0 \in N
    BY <2>2, <2>3
  <2>5. ASSUME NEW n \in Nat, n \in N
        PROVE  n + 1 \in N
    <3> SUFFICES ASSUME n + 1 <= Len(s)
                 PROVE  w[n + 1] = v[n + 1]
      OBVIOUS
    <3>1. w[n] = v[n]
      BY <2>1, <2>5
    <3>2. n + 1 \in 1..Len(s) /\ n + 1 \in 1..Len(more) /\ (n + 1) - 1 = n
      BY <2>1
    <3>3. more[n + 1] = s[n + 1]
      BY <2>1, <3>2
    <3>4. w[n + 1] = Splitting(w[(n + 1) - 1], more[n + 1])
      BY <2>3, <3>2
    <3>5. v[n + 1] = Splitting(v[(n + 1) - 1], s[n + 1])
      BY <2>2, <3>2
    <3> QED
      BY <3>1, <3>2, <3>3, <3>4, <3>5
  <2>6. Nat \subseteq N
    <3> HIDE DEF N
    <3> QED
      BY <2>4, <2>5, NatIndSet
  <2>7. w[Len(s)] = v[Len(s)]
    BY <2>1, <2>6
  <2>8. Len(s) + 1 \in 1..Len(more) /\ (Len(s) + 1) - 1 = Len(s)
    BY <2>1
  <2>9. w[Len(s) + 1] = Splitting(w[(Len(s) + 1) - 1], more[Len(s) + 1])
    BY <2>3, <2>8
  <2>10. P!Split(got, more) = Splitting(P!Split(got, s), x)
    BY <2>1, <2>2, <2>3, <2>7, <2>8, <2>9
  <2> QED
    BY <2>10 DEF more
<1> QED
  BY <1>1, <1>2

\* Totals
LEMMA TotalTrail ==
  ASSUME NEW s \in Seq(Nat)
  PROVE  \E w : /\ w[0] = 0
                /\ \A k \in 1..Len(s) : w[k] = Adding(w[k - 1], s[k])
                /\ w[Len(s)] = P!Total(s)
<1> DEFINE
  A == Nat
  g == [p \in A \X Nat |-> Adding(p[1], p[2])]
  Is(it) == it = [x \in SUBSET DOMAIN s |->
                    IF x = {} THEN 0
                    ELSE Adding(it[x \ {H!Max(x)}], s[H!Max(x)])]
  iter == CHOOSE it : Is(it)
<1>1. P!Total(s) = iter[DOMAIN s]
  BY DEF P!Total, P!FoldLeft, P!MapThenFoldSet, H!Max, P!Max, Adding
<1>2. \E it : Is(it)
  <2>1. g \in [A \X Nat -> A] /\ 0 \in A
    BY DEF Adding
  <2>2. PICK it \in [SUBSET (1..Len(s)) -> A] : Folds(it, 0, g, s)
    <3> HIDE DEF g, A
    <3> QED
      BY <2>1, FoldExists
  <2>3. \A x \in SUBSET (1..Len(s)) :
          it[x] = IF x = {} THEN 0 ELSE Adding(it[x \ {H!Max(x)}], s[H!Max(x)])
    <3> SUFFICES ASSUME NEW x \in SUBSET (1..Len(s)), x # {}
                 PROVE  g[<<it[x \ {H!Max(x)}], s[H!Max(x)]>>] =
                          Adding(it[x \ {H!Max(x)}], s[H!Max(x)])
      BY <2>2 DEF Folds
    <3> HIDE DEF A
    <3>1. H!Max(x) \in 1..Len(s)
      <4>1. Len(s) \in Nat
        OBVIOUS
      <4> QED
        BY <4>1, MaxOf
    <3>2. it[x \ {H!Max(x)}] \in A /\ s[H!Max(x)] \in Nat
      <4>1. x \ {H!Max(x)} \in SUBSET (1..Len(s))
        OBVIOUS
      <4>2. s[H!Max(x)] \in Nat
        BY <3>1
      <4> QED
        BY <4>1, <4>2
    <3> QED
      BY <3>2
  <2>4. DOMAIN s = 1..Len(s)
    OBVIOUS
  <2>5. Is(it)
    <3> HIDE DEF A, g
    <3> QED
      BY <2>2, <2>3, <2>4
  <2> QED
    BY <2>5
<1>3. Is(iter)
  <2> HIDE DEF Is
  <2> QED
    BY <1>2
<1> HIDE DEF iter, g
<1> DEFINE w == [k \in 0..Len(s) |-> iter[1..k]]
<1>4. w[0] = 0
  <2>1. iter[{}] = 0
    BY <1>3
  <2>2. 1..0 = {}
    OBVIOUS
  <2> QED
    BY <2>1, <2>2
<1>5. ASSUME NEW k \in 1..Len(s)
      PROVE  w[k] = Adding(w[k - 1], s[k])
  <2>1. (1..k) \in SUBSET (1..Len(s)) /\ 1..k # {} /\ k \in Nat
    <3>1. Len(s) \in Nat
      OBVIOUS
    <3>2. k \in Nat /\ k \in 1..k
      BY <3>1
    <3>3. \A i \in 1..k : i \in 1..Len(s)
      BY <3>1
    <3> QED
      BY <3>2, <3>3
  <2>2. H!Max(1..k) = k
    <3>1. (1..k) \in SUBSET (1..k)
      OBVIOUS
    <3>2. H!Max(1..k) \in 1..k /\ \A y \in 1..k : y <= H!Max(1..k)
      BY <2>1, <3>1, MaxOf, Zenon
    <3>3. k \in 1..k
      BY <2>1
    <3> QED
      BY <2>1, <3>2, <3>3
  <2>3. (1..k) \ {k} = 1..(k - 1)
    OBVIOUS
  <2>4. (1..k) \in SUBSET DOMAIN s
    BY <2>1
  <2>5. iter[1..k] = Adding(iter[(1..k) \ {H!Max(1..k)}], s[H!Max(1..k)])
    <3> HIDE DEF w
    <3> QED
      BY <1>3, <2>1, <2>4, Zenon
  <2>6. iter[1..k] = Adding(iter[1..(k - 1)], s[k])
    BY <2>2, <2>3, <2>5
  <2> QED
    BY <2>6
<1>6. w[Len(s)] = P!Total(s)
  BY <1>1
<1> HIDE DEF w
<1> QED
  BY <1>4, <1>5, <1>6

\* The value for no element, and with one more
LEMMA TotalStep ==
         /\ P!Total(<<>>) = 0
         /\ \A s \in Seq(Nat), x \in Nat :
              P!Total(Append(s, x)) = Adding(P!Total(s), x)
<1>1. P!Total(<<>>) = 0
  <2> DEFINE none == <<>>
  <2>1. none \in Seq(Nat) /\ Len(none) = 0
    OBVIOUS
  <2> HIDE DEF none
  <2>2. PICK w : /\ w[0] = 0
                 /\ \A k \in 1..Len(none) : w[k] = Adding(w[k - 1], none[k])
                 /\ w[Len(none)] = P!Total(none)
    BY <2>1, TotalTrail
  <2>3. P!Total(none) = 0
    BY <2>1, <2>2
  <2> QED
    BY <2>3 DEF none
<1>2. ASSUME NEW s \in Seq(Nat), NEW x \in Nat
      PROVE  P!Total(Append(s, x)) = Adding(P!Total(s), x)
  <2> DEFINE more == Append(s, x)
  <2>1. /\ more \in Seq(Nat) /\ Len(more) = Len(s) + 1 /\ more[Len(s) + 1] = x
        /\ \A k \in 1..Len(s) : more[k] = s[k]
        /\ Len(s) \in Nat
    OBVIOUS
  <2> HIDE DEF more
  <2>2. PICK v : /\ v[0] = 0
                 /\ \A k \in 1..Len(s) : v[k] = Adding(v[k - 1], s[k])
                 /\ v[Len(s)] = P!Total(s)
    BY TotalTrail
  <2>3. PICK w : /\ w[0] = 0
                 /\ \A k \in 1..Len(more) : w[k] = Adding(w[k - 1], more[k])
                 /\ w[Len(more)] = P!Total(more)
    BY <2>1, TotalTrail
  <2> DEFINE N == {n \in Nat : n <= Len(s) => w[n] = v[n]}
  <2>4. 0 \in N
    BY <2>2, <2>3
  <2>5. ASSUME NEW n \in Nat, n \in N
        PROVE  n + 1 \in N
    <3> SUFFICES ASSUME n + 1 <= Len(s)
                 PROVE  w[n + 1] = v[n + 1]
      OBVIOUS
    <3>1. w[n] = v[n]
      BY <2>1, <2>5
    <3>2. n + 1 \in 1..Len(s) /\ n + 1 \in 1..Len(more) /\ (n + 1) - 1 = n
      BY <2>1
    <3>3. more[n + 1] = s[n + 1]
      BY <2>1, <3>2
    <3>4. w[n + 1] = Adding(w[(n + 1) - 1], more[n + 1])
      BY <2>3, <3>2
    <3>5. v[n + 1] = Adding(v[(n + 1) - 1], s[n + 1])
      BY <2>2, <3>2
    <3> QED
      BY <3>1, <3>2, <3>3, <3>4, <3>5
  <2>6. Nat \subseteq N
    <3> HIDE DEF N
    <3> QED
      BY <2>4, <2>5, NatIndSet
  <2>7. w[Len(s)] = v[Len(s)]
    BY <2>1, <2>6
  <2>8. Len(s) + 1 \in 1..Len(more) /\ (Len(s) + 1) - 1 = Len(s)
    BY <2>1
  <2>9. w[Len(s) + 1] = Adding(w[(Len(s) + 1) - 1], more[Len(s) + 1])
    BY <2>3, <2>8
  <2>10. P!Total(more) = Adding(P!Total(s), x)
    BY <2>1, <2>2, <2>3, <2>7, <2>8, <2>9
  <2> QED
    BY <2>10 DEF more
<1> QED
  BY <1>1, <1>2

LEMMA TotalType ==
  ASSUME NEW l \in Seq(Nat)
  PROVE  P!Total(l) \in Nat
<1> DEFINE U == {s \in Seq(Nat) : P!Total(s) \in Nat}
<1>1. <<>> \in U
  <2>1. <<>> \in Seq(Nat)
    OBVIOUS
  <2> QED
    BY <2>1, TotalStep
<1>2. ASSUME NEW s \in Seq(Nat), s \in U, NEW x \in Nat
      PROVE  Append(s, x) \in U
  <2>1. P!Total(Append(s, x)) = P!Total(s) + x
    BY TotalStep DEF Adding
  <2> QED
    BY <1>2, <2>1
<1>3. l \in U
  <2> HIDE DEF U
  <2>1. Seq(Nat) \subseteq U
    BY <1>1, <1>2, SeqIndSet
  <2> QED
    BY <2>1
<1> QED
  BY <1>3

LEMMA TotalNext ==
  ASSUME NEW l \in Seq(Nat), NEW x \in Nat
  PROVE  P!Total(Append(l, x)) = P!Total(l) + x
<1>1. P!Total(Append(l, x)) = Adding(P!Total(l), x)
  BY TotalStep
<1> QED
  BY <1>1 DEF Adding

\* A sequence up to its last element, and up to one before
LEMMA Prefixes ==
  ASSUME NEW S, NEW l \in Seq(S), NEW x \in S
  PROVE  /\ SubSeq(l, 1, Len(l)) = l
         /\ SubSeq(Append(l, x), 1, Len(l) + 1) = Append(l, x)
         /\ \A i \in 1..Len(l) : SubSeq(Append(l, x), 1, i) = SubSeq(l, 1, i)
<1>1. SubSeq(l, 1, Len(l)) = l
  OBVIOUS
<1>2. SubSeq(Append(l, x), 1, Len(l) + 1) = Append(l, x)
  OBVIOUS
<1>3. ASSUME NEW i \in 1..Len(l)
      PROVE  SubSeq(Append(l, x), 1, i) = SubSeq(l, 1, i)
  OBVIOUS
<1> QED
  BY <1>1, <1>2, <1>3

\* The ends of lines, with one more line
LEMMA CutsAppend ==
  ASSUME NEW l \in Seq(Nat), NEW x \in Nat
  PROVE  P!CutsOf(Append(l, x)) = P!CutsOf(l) \cup {P!Total(l) + x}
<1> DEFINE m == Append(l, x)
           T(i) == P!Total(SubSeq(m, 1, i))
           V(i) == P!Total(SubSeq(l, 1, i))
<1>1. DOMAIN m = 1..(Len(l) + 1) /\ DOMAIN l = 1..Len(l) /\ Len(l) \in Nat
  OBVIOUS
<1>2. T(Len(l) + 1) = P!Total(l) + x
  BY Prefixes, TotalNext
<1>3. \A i \in 1..Len(l) : T(i) = V(i)
  BY Prefixes
<1>4. P!CutsOf(m) = {T(i) : i \in DOMAIN m} /\ P!CutsOf(l) = {V(i) : i \in DOMAIN l}
  BY DEF P!CutsOf
<1> HIDE DEF m, T, V
<1>5. ASSUME NEW y
      PROVE  y \in P!CutsOf(m) <=> (y \in P!CutsOf(l) \/ y = P!Total(l) + x)
  <2>1. ASSUME y \in P!CutsOf(m) PROVE y \in P!CutsOf(l) \/ y = P!Total(l) + x
    <3>1. PICK i \in 1..(Len(l) + 1) : y = T(i)
      BY <1>1, <1>4, <2>1
    <3>2. i = Len(l) + 1 \/ i \in 1..Len(l)
      BY <1>1
    <3>3. CASE i \in 1..Len(l)
      <4>1. y = V(i) /\ i \in DOMAIN l
        BY <1>1, <1>3, <3>1, <3>3
      <4> QED
        BY <1>4, <4>1
    <3> QED
      BY <1>2, <3>1, <3>2, <3>3
  <2>2. ASSUME y \in P!CutsOf(l) PROVE y \in P!CutsOf(m)
    <3>1. PICK i \in 1..Len(l) : y = V(i)
      BY <1>1, <1>4, <2>2
    <3>2. y = T(i) /\ i \in DOMAIN m
      BY <1>1, <1>3, <3>1
    <3> QED
      BY <1>4, <3>2
  <2>3. P!Total(l) + x \in P!CutsOf(m)
    <3>1. Len(l) + 1 \in DOMAIN m
      BY <1>1
    <3> QED
      BY <1>2, <1>4, <3>1
  <2> QED
    BY <2>1, <2>2, <2>3
<1>6. P!CutsOf(m) = P!CutsOf(l) \cup {P!Total(l) + x}
  BY <1>5
<1> QED
  BY <1>6 DEF m

LEMMA CutsTotal ==
  ASSUME NEW l \in Seq(Nat), P!Total(l) > 0
  PROVE  P!Total(l) \in P!CutsOf(l)
<1>1. l # <<>>
  <2> SUFFICES ASSUME l = <<>>
               PROVE  P!Total(l) = 0
    BY TotalType
  <2> QED
    BY TotalStep
<1>2. Len(l) \in DOMAIN l /\ SubSeq(l, 1, Len(l)) = l
  BY <1>1
<1> QED
  BY <1>2 DEF P!CutsOf

LEMMA SplitNext ==
  ASSUME NEW got \in Lengths, NEW t \in Seq(Chunks), NEW x \in Chunks
  PROVE  P!Split(got, Append(t, x)) =
           IF x = "n" THEN [lines |-> Append(P!Split(got, t).lines, P!Split(got, t).part + 1),
                            part |-> 0]
           ELSE [lines |-> P!Split(got, t).lines, part |-> P!Split(got, t).part + 1]
<1>1. P!Split(got, Append(t, x)) = Splitting(P!Split(got, t), x)
  BY SplitStep
<1> QED
  BY <1>1 DEF Splitting

LEMMA SplitType ==
  ASSUME NEW got \in Lengths, NEW t \in Seq(Chunks)
  PROVE  P!Split(got, t) \in Lengths
<1> DEFINE U == {s \in Seq(Chunks) : P!Split(got, s) \in Lengths}
<1>1. <<>> \in U
  <2>1. <<>> \in Seq(Chunks)
    OBVIOUS
  <2> QED
    BY <2>1, SplitStep
<1>2. ASSUME NEW s \in Seq(Chunks), s \in U, NEW x \in Chunks
      PROVE  Append(s, x) \in U
  <2>1. P!Split(got, Append(s, x)) = Splitting(P!Split(got, s), x)
    BY SplitStep
  <2>2. Append(s, x) \in Seq(Chunks) /\ P!Split(got, s) \in Lengths
    BY <1>2
  <2> QED
    BY <2>1, <2>2, SplittingType
<1>3. t \in U
  <2> HIDE DEF U
  <2>1. Seq(Chunks) \subseteq U
    BY <1>1, <1>2, SeqIndSet
  <2> QED
    BY <2>1
<1> QED
  BY <1>3

\* The newlines of a text, counted from where it begins
Newlines(n, t) == {n + j : j \in {i \in 1..Len(t) : t[i] = "n"}}

LEMMA NewlinesAppend ==
  ASSUME NEW n \in Nat, NEW t \in Seq(Chunks), NEW x \in Chunks
  PROVE  Newlines(n, Append(t, x)) =
           IF x = "n" THEN Newlines(n, t) \cup {n + (Len(t) + 1)} ELSE Newlines(n, t)
<1> DEFINE m == Append(t, x)
<1>1. /\ Len(m) = Len(t) + 1 /\ Len(t) \in Nat /\ m[Len(t) + 1] = x
      /\ \A i \in 1..Len(t) : m[i] = t[i]
  OBVIOUS
<1> HIDE DEF m
<1>2. {i \in 1..Len(m) : m[i] = "n"} =
        IF x = "n" THEN {i \in 1..Len(t) : t[i] = "n"} \cup {Len(t) + 1}
        ELSE {i \in 1..Len(t) : t[i] = "n"}
  <2>1. ASSUME NEW i
        PROVE  i \in 1..Len(m) <=> (i \in 1..Len(t) \/ i = Len(t) + 1)
    BY <1>1
  <2> QED
    BY <1>1, <2>1
<1>3. Newlines(n, m) = IF x = "n" THEN Newlines(n, t) \cup {n + (Len(t) + 1)} ELSE Newlines(n, t)
  BY <1>2 DEF Newlines
<1> QED
  BY <1>3 DEF m

\* Lines end where there was a newline, and no chunk is lost or counted twice.
LEMMA SplitCuts ==
  ASSUME NEW got \in Lengths, NEW t \in Seq(Chunks)
  PROVE  /\ P!Total(P!Split(got, t).lines) + P!Split(got, t).part =
              P!Total(got.lines) + got.part + Len(t)
         /\ P!CutsOf(P!Split(got, t).lines) =
              P!CutsOf(got.lines) \cup Newlines(P!Total(got.lines) + got.part, t)
<1> DEFINE
  start == P!Total(got.lines) + got.part
  All(s) == P!Total(P!Split(got, s).lines) + P!Split(got, s).part = start + Len(s)
  Ends(s) == P!CutsOf(P!Split(got, s).lines) = P!CutsOf(got.lines) \cup Newlines(start, s)
  U == {s \in Seq(Chunks) : All(s) /\ Ends(s)}
<1>0. got.lines \in Seq(Nat) /\ got.part \in Nat /\ P!Total(got.lines) \in Nat /\ start \in Nat
  BY TotalType DEF Lengths
<1> HIDE DEF start
<1>1. <<>> \in U
  <2>1. <<>> \in Seq(Chunks) /\ Len(<<>>) = 0
    OBVIOUS
  <2>2. P!Split(got, <<>>) = got
    BY SplitStep
  <2>3. Newlines(start, <<>>) = {}
    BY DEF Newlines
  <2>4. All(<<>>)
    BY <1>0, <2>1, <2>2 DEF start
  <2>5. Ends(<<>>)
    BY <2>2, <2>3
  <2> QED
    BY <2>1, <2>4, <2>5
<1>2. ASSUME NEW s \in Seq(Chunks), s \in U, NEW x \in Chunks
      PROVE  Append(s, x) \in U
  <2> DEFINE g == P!Split(got, s)
             h == P!Split(got, Append(s, x))
  <2>1. g.lines \in Seq(Nat) /\ g.part \in Nat /\ P!Total(g.lines) \in Nat
    BY SplitType, TotalType DEF Lengths
  <2>2. All(s) /\ Ends(s)
    BY <1>2
  <2>3. h = IF x = "n" THEN [lines |-> Append(g.lines, g.part + 1), part |-> 0]
            ELSE [lines |-> g.lines, part |-> g.part + 1]
    BY SplitNext
  <2>4. Append(s, x) \in Seq(Chunks) /\ Len(Append(s, x)) = Len(s) + 1 /\ Len(s) \in Nat
    OBVIOUS
  <2>5. Newlines(start, Append(s, x)) =
          IF x = "n" THEN Newlines(start, s) \cup {start + (Len(s) + 1)} ELSE Newlines(start, s)
    BY <1>0, NewlinesAppend
  <2>6. P!Total(g.lines) + g.part = start + Len(s)
    BY <2>2
  <2>7. P!CutsOf(g.lines) = P!CutsOf(got.lines) \cup Newlines(start, s)
    BY <2>2
  <2> HIDE DEF g, h
  <2>10. P!Total(g.lines) + (g.part + 1) = start + (Len(s) + 1)
    <3>1. ASSUME NEW a \in Nat, NEW b \in Nat, NEW c \in Nat, NEW d \in Nat, a + b = c + d
          PROVE  a + (b + 1) = c + (d + 1)
      BY <3>1
    <3>2. P!Total(g.lines) \in Nat /\ g.part \in Nat /\ start \in Nat /\ Len(s) \in Nat
      BY <1>0, <2>1, <2>4
    <3> QED
      BY <2>6, <3>2
  <2>8. CASE x = "n"
    <3>1. h.lines = Append(g.lines, g.part + 1) /\ h.part = 0
      BY <2>3, <2>8
    <3>2. /\ P!Total(h.lines) = P!Total(g.lines) + (g.part + 1)
          /\ P!CutsOf(h.lines) = P!CutsOf(g.lines) \cup {P!Total(g.lines) + (g.part + 1)}
      <4>1. g.part + 1 \in Nat
        BY <2>1
      <4> QED
        BY <2>1, <3>1, <4>1, TotalNext, CutsAppend
    <3>3. P!Total(g.lines) + (g.part + 1) = start + (Len(s) + 1)
      BY <2>10
    <3>4. All(Append(s, x))
      BY <1>0, <2>4, <3>1, <3>2, <3>3 DEF h
    <3>5. Ends(Append(s, x))
      BY <2>5, <2>7, <2>8, <3>2, <3>3 DEF h
    <3> QED
      BY <2>4, <3>4, <3>5
  <2>9. CASE x # "n"
    <3>1. h.lines = g.lines /\ h.part = g.part + 1
      BY <2>3, <2>9
    <3>2. P!Total(g.lines) + (g.part + 1) = start + (Len(s) + 1)
      BY <2>10
    <3>3. All(Append(s, x))
      BY <2>4, <3>1, <3>2 DEF h
    <3>4. Ends(Append(s, x))
      BY <2>5, <2>7, <2>9, <3>1 DEF h
    <3> QED
      BY <2>4, <3>3, <3>4
  <2> QED
    BY <2>8, <2>9
<1>3. t \in U
  <2> HIDE DEF U
  <2>1. Seq(Chunks) \subseteq U
    BY <1>1, <1>2, SeqIndSet
  <2> QED
    BY <2>1
<1> QED
  BY <1>3 DEF start

\* It does not matter into which pieces a text is broken.
LEMMA SplitAgain ==
  ASSUME NEW got \in Lengths, NEW t \in Seq(Chunks), NEW u \in Seq(Chunks)
  PROVE  P!Split(P!Split(got, t), u) = P!Split(got, Joined(t, u))
<1> DEFINE U == {s \in Seq(Chunks) : P!Split(P!Split(got, t), s) = P!Split(got, Joined(t, s))}
<1>0. P!Split(got, t) \in Lengths
  BY SplitType
<1>1. <<>> \in U
  <2>1. <<>> \in Seq(Chunks) /\ t \o <<>> = t
    OBVIOUS
  <2>2. Joined(t, <<>>) = t
    BY <2>1 DEF Joined
  <2>3. P!Split(P!Split(got, t), <<>>) = P!Split(got, t)
    BY <1>0, SplitStep
  <2> QED
    BY <2>1, <2>2, <2>3
<1>2. ASSUME NEW s \in Seq(Chunks), s \in U, NEW x \in Chunks
      PROVE  Append(s, x) \in U
  <2>1. Joined(t, Append(s, x)) = Append(Joined(t, s), x)
    BY JoinedAppend
  <2>2. Joined(t, s) \in Seq(Chunks) /\ Append(s, x) \in Seq(Chunks)
    BY DEF Joined
  <2>3. P!Split(got, Append(Joined(t, s), x)) = Splitting(P!Split(got, Joined(t, s)), x)
    BY <2>2, SplitStep
  <2>4. P!Split(P!Split(got, t), Append(s, x)) = Splitting(P!Split(P!Split(got, t), s), x)
    BY <1>0, SplitStep
  <2>5. P!Split(P!Split(got, t), s) = P!Split(got, Joined(t, s))
    BY <1>2
  <2> QED
    BY <2>1, <2>2, <2>3, <2>4, <2>5
<1>3. u \in U
  <2> HIDE DEF U
  <2>1. Seq(Chunks) \subseteq U
    BY <1>1, <1>2, SeqIndSet
  <2> QED
    BY <2>1
<1> QED
  BY <1>3

LEMMA WholeCuts ==
  ASSUME NEW g \in Lengths
  PROVE  /\ P!Whole(g) \in Seq(Nat) /\ P!Total(P!Whole(g)) = P!Total(g.lines) + g.part
         /\ P!CutsOf(P!Whole(g)) = IF g.part > 0 THEN P!CutsOf(g.lines) \cup {P!Total(g.lines) + g.part}
                                   ELSE P!CutsOf(g.lines)
<1>1. g.lines \in Seq(Nat) /\ g.part \in Nat /\ P!Total(g.lines) \in Nat
  BY TotalType DEF Lengths
<1>2. CASE g.part > 0
  <2>1. P!Whole(g) = Append(g.lines, g.part)
    BY <1>2 DEF P!Whole
  <2>2. /\ Append(g.lines, g.part) \in Seq(Nat)
        /\ P!Total(Append(g.lines, g.part)) = P!Total(g.lines) + g.part
        /\ P!CutsOf(Append(g.lines, g.part)) = P!CutsOf(g.lines) \cup {P!Total(g.lines) + g.part}
    BY <1>1, TotalNext, CutsAppend
  <2> QED
    BY <1>2, <2>1, <2>2
<1>3. CASE ~(g.part > 0)
  <2>1. P!Whole(g) = g.lines /\ g.part = 0
    BY <1>1, <1>3 DEF P!Whole
  <2> QED
    BY <1>1, <1>3, <2>1
<1> QED
  BY <1>2, <1>3

\* The lines of a text end at its newlines, and at its end.
LEMMA LineCuts ==
  ASSUME NEW t \in Seq(Chunks)
  PROVE  P!CutsOf(P!LineLengths(t)) \subseteq Newlines(0, t) \cup (IF Len(t) > 0 THEN {Len(t)} ELSE {})
<1> DEFINE got == [lines |-> <<>>, part |-> 0]
           g == P!Split(got, t)
<1>1. got \in Lengths /\ got.lines = <<>> /\ got.part = 0
  <2>1. <<>> \in Seq(Nat)
    OBVIOUS
  <2> QED
    BY <2>1 DEF Lengths
<1>2. P!LineLengths(t) = P!Whole(g)
  BY DEF P!LineLengths
<1> HIDE DEF got, g
<1>3. P!Total(got.lines) = 0 /\ P!CutsOf(got.lines) = {}
  BY <1>1, TotalStep DEF P!CutsOf
<1>4. g \in Lengths
  BY <1>1, SplitType DEF g
<1>5. P!Total(g.lines) + g.part = Len(t) /\ P!CutsOf(g.lines) = Newlines(0, t)
  <2>1. /\ P!Total(g.lines) + g.part = P!Total(got.lines) + got.part + Len(t)
        /\ P!CutsOf(g.lines) = P!CutsOf(got.lines) \cup Newlines(P!Total(got.lines) + got.part, t)
    BY <1>1, SplitCuts DEF g
  <2>2. P!Total(got.lines) + got.part = 0 /\ Len(t) \in Nat
    BY <1>1, <1>3
  <2> QED
    BY <1>3, <2>1, <2>2
<1>6. g.part > 0 => Len(t) > 0
  <2>1. P!Total(g.lines) \in Nat /\ g.part \in Nat
    BY <1>4, TotalType DEF Lengths
  <2> QED
    BY <1>5, <2>1
<1> QED
  BY <1>2, <1>4, <1>5, <1>6, WholeCuts

-----------------------------------------------------------------------------
(* The inductive invariant of Programs *)

Streams == P!Streams

Kid == [live : {"no", "run", "zombie", "gone"}, kind : {"echo", "collect", "deaf"},
        cap : SUBSET Streams, watched : BOOLEAN, stdin : {"none", "open", "closed"},
        in : 0..Pipe, read : Nat, told : Nat, said : [Streams -> Seq(Chunks)],
        seen : [Streams -> Nat], lines : [Streams -> Seq(Nat)],
        reported : {"no", "due", "yes"}, chunks : Nat]

Main == [op : {"loop", "spawn", "write", "execute"}, kid : Kids \cup {Nobody},
         left : 0..MaxInput, step : {"", "top", "before", "poll", "wait"},
         sending : BOOLEAN, open : SUBSET Streams, part : [Streams -> Nat]]

NoText == [lines |-> <<>>, part |-> 0]

\* No program says more than it may.
ToldOK(kid) == IF kid.kind = "deaf" THEN kid.told <= Says ELSE kid.told <= kid.read

\* What was passed on of a stream of a background program is what was read of it, and
\* lines end at every newline, and where else a read ended.
Passed(kid, s) ==
  /\ P!Total(kid.lines[s]) = kid.seen[s]
  /\ \A i \in 1..kid.seen[s] : kid.said[s][i] = "n" => i \in P!CutsOf(kid.lines[s])

TextOK(k, kid) ==
  /\ \A s \in Streams : kid.seen[s] <= Len(kid.said[s])
  /\ kid.reported # "no" => kid.live = "gone"
  /\ k \in Background =>
       \A s \in Streams :
         /\ Passed(kid, s)
         /\ (kid.reported = "yes" /\ s \in kid.cap) => kid.seen[s] = Len(kid.said[s])
  /\ k \notin Background =>
       /\ kid.reported # "due"
       /\ \A s \in Streams : (kid.reported = "yes" /\ s \in kid.cap)
                               => kid.lines[s] = P!LineLengths(kid.said[s])

KidOK(k, kid) == kid \in Kid /\ ToldOK(kid) /\ TextOK(k, kid)

\* While a program is executed, what was read of it is its output so far, and a stream
\* is closed when there is nothing more to come.
Executed(kid, m) ==
  /\ kid.live # "no" /\ kid.reported = "no"
  /\ \A s \in Streams : [lines |-> kid.lines[s], part |-> m.part[s]] =
                          P!Split(NoText, SubSeq(kid.said[s], 1, kid.seen[s]))
  /\ \A s \in kid.cap \ m.open : kid.live # "run" /\ kid.seen[s] = Len(kid.said[s])
  /\ m.step = "wait" => m.open = {}

PInvariant ==
  /\ kids \in [Kids -> Kid]
  /\ \A k \in Kids : KidOK(k, kids[k])
  /\ main \in Main
  /\ main.op = "execute" => main.kid \in Kids \ Background /\ Executed(kids[main.kid], main)

\* A step that changes one program
LEMMA OneKid ==
  ASSUME PInvariant, NEW k \in Kids, NEW kid, KidOK(k, kid),
         kids' = [kids EXCEPT ![k] = kid], main' \in Main,
         main'.op = "execute" => main'.kid \in Kids \ Background /\ Executed(kids'[main'.kid], main')
  PROVE  PInvariant'
<1>1. kid \in Kid
  BY DEF KidOK
<1>2. kids' \in [Kids -> Kid]
  BY <1>1 DEF PInvariant
<1>3. ASSUME NEW q \in Kids
      PROVE  KidOK(q, kids'[q])
  <2>1. kids'[q] = IF q = k THEN kid ELSE kids[q]
    BY DEF PInvariant
  <2> QED
    BY <2>1 DEF PInvariant
<1> QED
  BY <1>2, <1>3 DEF PInvariant

\* One that is not of the program executed
LEMMA OtherKid ==
  ASSUME PInvariant, NEW k \in Kids, NEW kid, KidOK(k, kid),
         kids' = [kids EXCEPT ![k] = kid], main' = main, main.op = "execute" => main.kid # k
  PROVE  PInvariant'
<1>1. main' \in Main
  BY DEF PInvariant
<1>2. ASSUME main.op = "execute"
      PROVE  main'.kid \in Kids \ Background /\ Executed(kids'[main'.kid], main')
  <2>1. kids'[main.kid] = kids[main.kid]
    BY <1>2 DEF PInvariant
  <2> QED
    BY <1>2, <2>1 DEF PInvariant
<1> QED
  BY <1>1, <1>2, OneKid

\* One of the thread of lfm while it executes nothing
LEMMA NotExecuting ==
  ASSUME PInvariant, NEW k \in Kids, NEW kid, KidOK(k, kid),
         kids' = [kids EXCEPT ![k] = kid], main' \in Main, main'.op # "execute"
  PROVE  PInvariant'
  BY OneKid

\* What a program is known by
LEMMA KidOf ==
  ASSUME PInvariant, NEW k \in Kids
  PROVE  /\ KidOK(k, kids[k]) /\ kids[k] \in Kid
         /\ kids[k].said \in [Streams -> Seq(Chunks)] /\ kids[k].seen \in [Streams -> Nat]
         /\ kids[k].lines \in [Streams -> Seq(Nat)]
<1>1. KidOK(k, kids[k]) /\ kids[k] \in Kid
  BY DEF PInvariant, KidOK
<1> QED
  BY <1>1 DEF Kid

\* Text is as it was when neither it nor what is known of it changes.
LEMMA SameText ==
  ASSUME NEW k, NEW kid, NEW new, TextOK(k, kid),
         new.said = kid.said, new.seen = kid.seen, new.lines = kid.lines,
         new.reported = kid.reported, new.cap = kid.cap,
         new.live = kid.live \/ kid.reported = "no"
  PROVE  TextOK(k, new)
  BY DEF TextOK, Passed

\* Programs start without any.
LEMMA StartedOK ==
  ASSUME NEW k \in Kids, NEW job \in Jobs[k], P!JobsAssumption, P!PipeAssumption,
         NEW w \in BOOLEAN, NEW st \in {"none", "open"}
  PROVE  /\ KidOK(k, P!Started(job, w, st)) /\ P!Started(job, w, st).live = "run"
         /\ P!Started(job, w, st).cap = job.cap /\ P!Started(job, w, st).reported = "no"
         /\ \A s \in Streams : /\ P!Started(job, w, st).lines[s] = <<>>
                               /\ P!Started(job, w, st).said[s] = <<>>
                               /\ P!Started(job, w, st).seen[s] = 0
<1> DEFINE kid == P!Started(job, w, st)
<1>1. /\ job.kind \in {"echo", "collect", "deaf"} /\ job.cap \in SUBSET Streams
      /\ job.chunks \in 0..MaxInput /\ Pipe \in Nat /\ Says \in Nat /\ MaxInput \in Nat
  BY DEF P!JobsAssumption, P!PipeAssumption, Streams
<1>2. /\ kid.live = "run" /\ kid.kind = job.kind /\ kid.cap = job.cap /\ kid.watched = w
      /\ kid.stdin = st /\ kid.in = 0 /\ kid.read = 0 /\ kid.told = 0
      /\ kid.said = [s \in Streams |-> <<>>] /\ kid.seen = [s \in Streams |-> 0]
      /\ kid.lines = [s \in Streams |-> <<>>] /\ kid.reported = "no" /\ kid.chunks = job.chunks
  BY DEF P!Started, P!Fresh, Streams
<1>3. <<>> \in Seq(Chunks) /\ <<>> \in Seq(Nat)
  OBVIOUS
<1>4. kid \in Kid
  <2>1. /\ [s \in Streams |-> <<>>] \in [Streams -> Seq(Chunks)]
        /\ [s \in Streams |-> <<>>] \in [Streams -> Seq(Nat)]
        /\ [s \in Streams |-> 0] \in [Streams -> Nat]
    BY <1>3
  <2>2. P!Fresh \in Kid
    <3>1. 0 \in 0..Pipe /\ {} \in SUBSET Streams
      BY <1>1
    <3> QED
      BY <2>1, <3>1 DEF P!Fresh, Kid, Streams
  <2>3. job.chunks \in Nat
    BY <1>1
  <2> QED
    BY <1>1, <2>2, <2>3 DEF P!Started, Kid
<1> HIDE DEF kid
<1>5. ToldOK(kid)
  BY <1>1, <1>2 DEF ToldOK
<1>6. TextOK(k, kid)
  <2>1. \A s \in Streams : kid.seen[s] = 0 /\ kid.said[s] = <<>> /\ kid.lines[s] = <<>>
    BY <1>2
  <2>2. P!Total(<<>>) = 0
    BY TotalStep
  <2>3. \A s \in Streams : Passed(kid, s)
    BY <2>1, <2>2 DEF Passed
  <2> QED
    BY <1>2, <2>1, <2>3 DEF TextOK
<1> QED
  BY <1>2, <1>4, <1>5, <1>6 DEF KidOK, kid

\* Reading what there is of a stream
LEMMA ReadOn ==
  ASSUME NEW said \in Seq(Chunks), NEW n \in Nat, n <= Len(said)
  PROVE  LET u == SubSeq(said, n + 1, Len(said)) IN
         /\ u \in Seq(Chunks) /\ Len(u) = Len(said) - n
         /\ \A j \in 1..Len(u) : u[j] = said[n + j]
         /\ Joined(SubSeq(said, 1, n), u) = said /\ SubSeq(said, 1, n) \in Seq(Chunks)
<1> DEFINE u == SubSeq(said, n + 1, Len(said))
           v == SubSeq(said, 1, n)
<1>1. u \in Seq(Chunks) /\ Len(u) = Len(said) - n /\ Len(said) \in Nat
  OBVIOUS
<1>2. \A j \in 1..Len(u) : u[j] = said[n + j]
  OBVIOUS
<1>3. v \in Seq(Chunks) /\ Len(v) = n /\ \A j \in 1..n : v[j] = said[j]
  OBVIOUS
<1> HIDE DEF u, v
<1>4. v \o u \in Seq(Chunks) /\ Len(v \o u) = Len(said)
  BY <1>1, <1>3
<1>5. ASSUME NEW j \in 1..Len(said)
      PROVE  (v \o u)[j] = said[j]
  <2>1. CASE j <= n
    BY <1>1, <1>3, <2>1
  <2>2. CASE ~(j <= n)
    <3>1. j - n \in 1..Len(u) /\ n + (j - n) = j
      BY <1>1, <2>2
    <3>2. (v \o u)[j] = u[j - n]
      BY <1>1, <1>3, <2>2, <3>1
    <3> QED
      BY <1>2, <3>1, <3>2
  <2> QED
    BY <2>1, <2>2
<1>6. said = v \o u
  BY <1>4, <1>5, SameSeq
<1> QED
  BY <1>1, <1>2, <1>3, <1>6 DEF Joined, u, v

LEMMA OutputOK ==
  ASSUME NEW k \in Background, NEW kid, KidOK(k, kid), NEW s \in Streams
  PROVE  LET new == P!Output(kid, s) IN
         /\ KidOK(k, new)
         /\ new.said = kid.said /\ new.reported = kid.reported /\ new.live = kid.live
         /\ new.cap = kid.cap
         /\ \A r \in Streams : new.seen[r] = IF r = s THEN Len(kid.said[s]) ELSE kid.seen[r]
<1> DEFINE
  said == kid.said[s]
  n == kid.seen[s]
  l == kid.lines[s]
  u == SubSeq(said, n + 1, Len(said))
  got == [lines |-> l, part |-> 0]
  g == P!Split(got, u)
  w == P!Whole(g)
  new == P!Output(kid, s)
<1>1. /\ kid \in Kid /\ kid.said \in [Streams -> Seq(Chunks)] /\ kid.seen \in [Streams -> Nat]
      /\ kid.lines \in [Streams -> Seq(Nat)] /\ ToldOK(kid) /\ TextOK(k, kid)
  BY DEF KidOK, Kid
<1>2. said \in Seq(Chunks) /\ n \in Nat /\ l \in Seq(Nat) /\ n <= Len(said) /\ Len(said) \in Nat
  BY <1>1 DEF TextOK
<1>3. P!Total(l) = n /\ \A i \in 1..n : said[i] = "n" => i \in P!CutsOf(l)
  BY <1>1 DEF TextOK, Passed
<1>4. new = [kid EXCEPT !.lines = [@ EXCEPT ![s] = w], !.seen = [@ EXCEPT ![s] = Len(said)]]
  BY DEF P!Output
<1> HIDE DEF said, n, l, new
<1>5. u \in Seq(Chunks) /\ Len(u) = Len(said) - n /\ \A j \in 1..Len(u) : u[j] = said[n + j]
  BY <1>2, ReadOn
<1>6. got \in Lengths /\ got.lines = l /\ got.part = 0
  BY <1>2 DEF Lengths
<1> HIDE DEF u, got
<1>7. /\ g \in Lengths
      /\ P!Total(g.lines) + g.part = n + Len(u)
      /\ P!CutsOf(g.lines) = P!CutsOf(l) \cup Newlines(n, u)
  <2>1. /\ P!Total(g.lines) + g.part = P!Total(got.lines) + got.part + Len(u)
        /\ P!CutsOf(g.lines) = P!CutsOf(got.lines) \cup Newlines(P!Total(got.lines) + got.part, u)
    BY <1>5, <1>6, SplitCuts
  <2>2. P!Total(got.lines) + got.part = n
    BY <1>2, <1>3, <1>6
  <2>3. g \in Lengths
    BY <1>5, <1>6, SplitType
  <2> QED
    BY <1>6, <2>1, <2>2, <2>3
<1> HIDE DEF g
<1>8. w \in Seq(Nat) /\ P!Total(w) = Len(said) /\ P!CutsOf(g.lines) \subseteq P!CutsOf(w)
  <2>1. n + Len(u) = Len(said)
    BY <1>2, <1>5
  <2> QED
    BY <1>7, <2>1, WholeCuts
<1> HIDE DEF w
<1>9. \A i \in 1..Len(said) : said[i] = "n" => i \in P!CutsOf(w)
  <2> SUFFICES ASSUME NEW i \in 1..Len(said), said[i] = "n"
               PROVE  i \in P!CutsOf(w)
    OBVIOUS
  <2>1. CASE i <= n
    BY <1>2, <1>3, <1>7, <1>8, <2>1
  <2>2. CASE ~(i <= n)
    <3>1. i - n \in 1..Len(u) /\ n + (i - n) = i
      BY <1>2, <1>5, <2>2
    <3>2. u[i - n] = "n"
      BY <1>5, <3>1
    <3>3. i \in Newlines(n, u)
      BY <3>1, <3>2 DEF Newlines
    <3> QED
      BY <1>7, <1>8, <3>3
  <2> QED
    BY <2>1, <2>2
<1>10. /\ new.said = kid.said /\ new.reported = kid.reported /\ new.live = kid.live
       /\ new.cap = kid.cap /\ new.told = kid.told /\ new.read = kid.read /\ new.kind = kid.kind
       /\ new.lines = [kid.lines EXCEPT ![s] = w] /\ new.seen = [kid.seen EXCEPT ![s] = Len(said)]
  BY <1>1, <1>4 DEF Kid
<1>11. new \in Kid
  <2>1. /\ [kid.lines EXCEPT ![s] = w] \in [Streams -> Seq(Nat)]
        /\ [kid.seen EXCEPT ![s] = Len(said)] \in [Streams -> Nat]
    BY <1>1, <1>2, <1>8
  <2>2. new = [kid EXCEPT !.lines = [kid.lines EXCEPT ![s] = w],
                          !.seen = [kid.seen EXCEPT ![s] = Len(said)]]
    BY <1>4
  <2> QED
    BY <1>1, <2>1, <2>2 DEF Kid
<1>12. \A r \in Streams : /\ new.seen[r] = IF r = s THEN Len(said) ELSE kid.seen[r]
                          /\ new.lines[r] = IF r = s THEN w ELSE kid.lines[r]
  BY <1>1, <1>10
<1>13. ToldOK(new)
  BY <1>1, <1>10 DEF ToldOK
<1>14. TextOK(k, new)
  <2>1. \A r \in Streams : new.seen[r] <= Len(new.said[r])
    BY <1>1, <1>2, <1>10, <1>12 DEF TextOK, said
  <2>2. \A r \in Streams : Passed(new, r)
    <3> SUFFICES ASSUME NEW r \in Streams
                 PROVE  Passed(new, r)
      OBVIOUS
    <3>1. CASE r = s
      BY <1>8, <1>9, <1>10, <1>12, <3>1 DEF Passed, said
    <3>2. CASE r # s
      <4>1. Passed(kid, r)
        BY <1>1 DEF TextOK
      <4> QED
        BY <1>10, <1>12, <3>2, <4>1 DEF Passed
    <3> QED
      BY <3>1, <3>2
  <2>3. \A r \in Streams : (new.reported = "yes" /\ r \in new.cap) => new.seen[r] = Len(new.said[r])
    BY <1>1, <1>10, <1>12 DEF TextOK, said
  <2> QED
    BY <1>1, <1>10, <2>1, <2>2, <2>3 DEF TextOK
<1> QED
  BY <1>10, <1>11, <1>12, <1>13, <1>14 DEF KidOK, new, said

LEMMA PInitInv ==
  ASSUME P!Init, P!PipeAssumption
  PROVE  PInvariant
<1> DEFINE kid == P!Fresh
<1>1. kids = [k \in Kids |-> kid] /\ main = P!Loop
  BY DEF P!Init
<1>2. Pipe \in Nat /\ Says \in Nat /\ MaxInput \in Nat
  BY DEF P!PipeAssumption
<1>3. <<>> \in Seq(Chunks) /\ <<>> \in Seq(Nat)
  OBVIOUS
<1>4. kid \in Kid
  <2>1. /\ [s \in Streams |-> <<>>] \in [Streams -> Seq(Chunks)]
        /\ [s \in Streams |-> <<>>] \in [Streams -> Seq(Nat)]
        /\ [s \in Streams |-> 0] \in [Streams -> Nat]
    BY <1>3
  <2>2. 0 \in 0..Pipe /\ {} \in SUBSET Streams
    BY <1>2
  <2> QED
    BY <2>1, <2>2 DEF P!Fresh, Kid, Streams
<1>5. /\ kid.live = "no" /\ kid.kind = "deaf" /\ kid.told = 0 /\ kid.reported = "no"
      /\ kid.said = [s \in Streams |-> <<>>] /\ kid.seen = [s \in Streams |-> 0]
      /\ kid.lines = [s \in Streams |-> <<>>]
  BY DEF P!Fresh, Streams
<1> HIDE DEF kid
<1>6. ToldOK(kid)
  BY <1>2, <1>5 DEF ToldOK
<1>7. ASSUME NEW k \in Kids
      PROVE  TextOK(k, kid)
  <2>1. \A s \in Streams : kid.seen[s] = 0 /\ kid.said[s] = <<>> /\ kid.lines[s] = <<>>
    BY <1>5
  <2>2. P!Total(<<>>) = 0
    BY TotalStep
  <2>3. \A s \in Streams : Passed(kid, s)
    BY <2>1, <2>2 DEF Passed
  <2> QED
    BY <1>5, <2>1, <2>3 DEF TextOK
<1>8. main \in Main /\ main.op = "loop"
  <2>1. [s \in Streams |-> 0] \in [Streams -> Nat]
    OBVIOUS
  <2>2. 0 \in 0..MaxInput
    BY <1>2
  <2> QED
    BY <1>1, <2>1, <2>2 DEF P!Loop, Main, Streams
<1> QED
  BY <1>1, <1>4, <1>6, <1>7, <1>8 DEF PInvariant, KidOK

\* The loop of lfm, as it is when nothing runs in the foreground
LEMMA LoopOK ==
  ASSUME P!PipeAssumption
  PROVE  /\ P!Loop \in Main /\ P!Loop.op = "loop"
         /\ P!Loop.part = [s \in Streams |-> 0]
<1>1. [s \in Streams |-> 0] \in [Streams -> Nat]
  OBVIOUS
<1>2. 0 \in 0..MaxInput
  BY DEF P!PipeAssumption
<1> QED
  BY <1>1, <1>2 DEF P!Loop, Main, Streams

\* A step that leaves text alone, and what the thread of lfm has of it
LEMMA Quiet ==
  ASSUME PInvariant, NEW k \in Kids, NEW kid \in Kid, ToldOK(kid),
         kid.said = kids[k].said, kid.seen = kids[k].seen, kid.lines = kids[k].lines,
         kid.reported = kids[k].reported, kid.cap = kids[k].cap,
         \/ kid.live = kids[k].live
         \/ /\ kids[k].reported = "no" /\ kid.live # "no"
            /\ kid.live = "run" => kids[k].live = "run",
         kids' = [kids EXCEPT ![k] = kid], main' \in Main,
         main'.op = "execute" =>
           /\ main.op = "execute" /\ main'.kid = main.kid
           /\ main'.part = main.part /\ main'.open = main.open
           /\ main'.step = "wait" => main.step = "wait" \/ main.open = {}
  PROVE  PInvariant'
<1>1. KidOK(k, kid)
  <2>1. TextOK(k, kids[k])
    BY DEF PInvariant, KidOK
  <2>2. TextOK(k, kid)
    BY <2>1, SameText
  <2> QED
    BY <2>2 DEF KidOK
<1>2. ASSUME main'.op = "execute"
      PROVE  main'.kid \in Kids \ Background /\ Executed(kids'[main'.kid], main')
  <2>1. main.kid \in Kids \ Background /\ Executed(kids[main.kid], main)
    BY <1>2 DEF PInvariant
  <2>2. kids'[main.kid] = IF main.kid = k THEN kid ELSE kids[main.kid]
    BY <2>1 DEF PInvariant
  <2>3. CASE main.kid = k
    <3>1. Executed(kid, main')
      BY <1>2, <2>1, <2>3 DEF Executed
    <3> QED
      BY <1>2, <2>1, <2>2, <2>3, <3>1
  <2>4. CASE main.kid # k
    <3>1. Executed(kids[main.kid], main')
      BY <1>2, <2>1 DEF Executed
    <3> QED
      BY <1>2, <2>1, <2>2, <2>4, <3>1
  <2> QED
    BY <2>3, <2>4
<1> QED
  BY <1>1, <1>2, OneKid

LEMMA SpawnInv ==
  ASSUME PInvariant, P!PipeAssumption, P!KidsAssumption, P!JobsAssumption,
         NEW k \in Kids, NEW job \in Jobs[k], P!Spawn(k, job)
  PROVE  PInvariant'
<1> DEFINE kid == P!Started(job, job.onExit \/ job.cap # {},
                            IF job.stdin = "none" THEN "none" ELSE "open")
<1>1. kids' = [kids EXCEPT ![k] = kid]
  BY DEF P!Spawn
<1>2. KidOK(k, kid)
  <2>1. (job.onExit \/ job.cap # {}) \in BOOLEAN
    BY DEF P!JobsAssumption
  <2>2. (IF job.stdin = "none" THEN "none" ELSE "open") \in {"none", "open"}
    OBVIOUS
  <2> HIDE DEF kid
  <2> QED
    BY <2>1, <2>2, StartedOK DEF kid
<1>3. main' \in Main /\ main'.op # "execute"
  <2>1. job.chunks \in 0..MaxInput
    BY DEF P!JobsAssumption
  <2> QED
    BY <2>1, LoopOK DEF P!Spawn, P!Loop, Main
<1> HIDE DEF kid
<1> QED
  BY <1>1, <1>2, <1>3, NotExecuting

LEMMA ExecuteInv ==
  ASSUME PInvariant, P!PipeAssumption, P!KidsAssumption, P!JobsAssumption,
         NEW k \in Kids, NEW job \in Jobs[k], P!Execute(k, job)
  PROVE  PInvariant'
<1> DEFINE kid == P!Started(job, FALSE, IF job.stdin = "data" THEN "open" ELSE "none")
<1>1. kids' = [kids EXCEPT ![k] = kid] /\ k \in Kids \ Background
  BY DEF P!Execute
<1>2. /\ KidOK(k, kid) /\ kid.live = "run" /\ kid.cap = job.cap /\ kid.reported = "no"
      /\ \A s \in Streams : kid.lines[s] = <<>> /\ kid.said[s] = <<>> /\ kid.seen[s] = 0
  <2>2. (IF job.stdin = "data" THEN "open" ELSE "none") \in {"none", "open"}
    OBVIOUS
  <2> HIDE DEF kid
  <2> QED
    BY <2>2, StartedOK DEF kid
<1> HIDE DEF kid
<1>3. /\ main' \in Main /\ main'.op = "execute" /\ main'.kid = k /\ main'.open = job.cap
      /\ main'.part = [s \in Streams |-> 0] /\ main'.step = "top"
  <2>1. job.chunks \in 0..MaxInput /\ job.cap \in SUBSET Streams /\ (job.stdin = "data") \in BOOLEAN
    BY DEF P!JobsAssumption, Streams
  <2>2. main' = [P!Loop EXCEPT !.op = "execute", !.kid = k, !.left = job.chunks, !.step = "top",
                               !.sending = job.stdin = "data", !.open = job.cap]
    BY DEF P!Execute
  <2>3. [s \in Streams |-> 0] \in [Streams -> Nat]
    OBVIOUS
  <2> QED
    BY <2>1, <2>2, <2>3 DEF P!Loop, Main, Streams
<1>4. Executed(kid, main')
  <2>1. ASSUME NEW s \in Streams
        PROVE  [lines |-> kid.lines[s], part |-> main'.part[s]] =
                 P!Split(NoText, SubSeq(kid.said[s], 1, kid.seen[s]))
    <3>1. SubSeq(kid.said[s], 1, kid.seen[s]) = <<>>
      BY <1>2
    <3>2. NoText \in Lengths
      <4>1. <<>> \in Seq(Nat)
        OBVIOUS
      <4> QED
        BY <4>1 DEF NoText, Lengths
    <3>3. P!Split(NoText, <<>>) = NoText
      BY <3>2, SplitStep
    <3>4. kid.lines[s] = <<>> /\ main'.part[s] = 0
      BY <1>2, <1>3
    <3> QED
      BY <3>1, <3>3, <3>4 DEF NoText
  <2> QED
    BY <1>2, <1>3, <2>1 DEF Executed
<1>5. kids'[k] = kid
  BY <1>1 DEF PInvariant
<1> QED
  BY <1>1, <1>2, <1>3, <1>4, <1>5, OneKid

LEMMA SendInputInv ==
  ASSUME PInvariant, P!PipeAssumption, NEW k \in Kids, P!SendInput(k)
  PROVE  PInvariant'
<1> DEFINE kid == [kids[k] EXCEPT !.in = IF P!Running(k) THEN @ + 1 ELSE @]
<1>1. kids' = [kids EXCEPT ![k] = kid] /\ main' = [main EXCEPT !.left = @ - 1]
  BY DEF P!SendInput, P!Put
<1>2. kids[k] \in Kid /\ ToldOK(kids[k])
  BY DEF PInvariant, KidOK
<1>3. kid \in Kid
  <2>1. (IF P!Running(k) THEN kids[k].in + 1 ELSE kids[k].in) \in 0..Pipe
    BY <1>2 DEF P!SendInput, P!PipeTakes, P!PipeAssumption, Kid
  <2> QED
    BY <1>2, <2>1 DEF Kid
<1>4. main' \in Main /\ main'.op # "execute"
  <2>1. main \in Main /\ main.left > 0 /\ main.op = "spawn" /\ MaxInput \in Nat
    BY DEF PInvariant, P!SendInput, P!PipeAssumption
  <2>3. main.left \in 0..MaxInput
    BY <2>1 DEF Main
  <2>2. main.left - 1 \in 0..MaxInput
    BY <2>1, <2>3
  <2> QED
    BY <1>1, <2>1, <2>2 DEF Main
<1>5. /\ kid.said = kids[k].said /\ kid.seen = kids[k].seen /\ kid.lines = kids[k].lines
      /\ kid.reported = kids[k].reported /\ kid.cap = kids[k].cap /\ kid.live = kids[k].live
      /\ ToldOK(kid)
  BY <1>2 DEF ToldOK, Kid
<1> HIDE DEF kid
<1> QED
  BY <1>1, <1>3, <1>4, <1>5, Quiet

LEMMA InputSentInv ==
  ASSUME PInvariant, P!PipeAssumption, NEW k \in Kids, P!InputSent(k)
  PROVE  PInvariant'
<1> DEFINE kid == [kids[k] EXCEPT !.stdin = "closed"]
<1>1. kids' = [kids EXCEPT ![k] = kid] /\ main' = P!Loop
  BY DEF P!InputSent
<1>2. kids[k] \in Kid /\ ToldOK(kids[k])
  BY DEF PInvariant, KidOK
<1>3. kid \in Kid
  BY <1>2 DEF Kid
<1>4. main' \in Main /\ main'.op # "execute"
  BY <1>1, LoopOK
<1>5. /\ kid.said = kids[k].said /\ kid.seen = kids[k].seen /\ kid.lines = kids[k].lines
      /\ kid.reported = kids[k].reported /\ kid.cap = kids[k].cap /\ kid.live = kids[k].live
      /\ ToldOK(kid)
  BY <1>2 DEF ToldOK, Kid
<1> HIDE DEF kid
<1> QED
  BY <1>1, <1>3, <1>4, <1>5, Quiet

LEMMA StartWriteInv ==
  ASSUME PInvariant, P!PipeAssumption, NEW k \in Kids, P!StartWrite(k)
  PROVE  PInvariant'
<1> DEFINE kid == [kids[k] EXCEPT !.chunks = @ + 1]
<1>1. kids' = [kids EXCEPT ![k] = kid] /\ main' = [P!Loop EXCEPT !.op = "write", !.kid = k]
  BY DEF P!StartWrite
<1>2. kids[k] \in Kid /\ ToldOK(kids[k])
  BY DEF PInvariant, KidOK
<1>3. kid \in Kid
  <2>1. kids[k].chunks + 1 \in Nat
    BY <1>2 DEF Kid
  <2> QED
    BY <1>2, <2>1 DEF Kid
<1>4. main' \in Main /\ main'.op # "execute"
  BY <1>1, LoopOK DEF Main
<1>5. /\ kid.said = kids[k].said /\ kid.seen = kids[k].seen /\ kid.lines = kids[k].lines
      /\ kid.reported = kids[k].reported /\ kid.cap = kids[k].cap /\ kid.live = kids[k].live
      /\ ToldOK(kid)
  BY <1>2 DEF ToldOK, Kid
<1> HIDE DEF kid
<1> QED
  BY <1>1, <1>3, <1>4, <1>5, Quiet

LEMMA EndWriteInv ==
  ASSUME PInvariant, P!PipeAssumption, NEW k \in Kids, P!EndWrite(k)
  PROVE  PInvariant'
<1> DEFINE kid == IF P!Running(k) THEN [kids[k] EXCEPT !.in = @ + 1]
                  ELSE [kids[k] EXCEPT !.stdin = "closed"]
<1>1. kids' = [kids EXCEPT ![k] = kid] /\ main' = P!Loop
  BY DEF P!EndWrite, P!Put
<1>2. kids[k] \in Kid /\ ToldOK(kids[k])
  BY DEF PInvariant, KidOK
<1>3. kid \in Kid
  <2>1. CASE P!Running(k)
    <3>1. kids[k].in + 1 \in 0..Pipe
      BY <1>2, <2>1 DEF P!EndWrite, P!PipeTakes, P!PipeAssumption, Kid
    <3> QED
      BY <1>2, <2>1, <3>1 DEF Kid
  <2>2. CASE ~P!Running(k)
    BY <1>2, <2>2 DEF Kid
  <2> QED
    BY <2>1, <2>2
<1>4. main' \in Main /\ main'.op # "execute"
  BY <1>1, LoopOK
<1>5. /\ kid.said = kids[k].said /\ kid.seen = kids[k].seen /\ kid.lines = kids[k].lines
      /\ kid.reported = kids[k].reported /\ kid.cap = kids[k].cap /\ kid.live = kids[k].live
      /\ ToldOK(kid)
  BY <1>2 DEF ToldOK, Kid
<1> HIDE DEF kid
<1> QED
  BY <1>1, <1>3, <1>4, <1>5, Quiet

LEMMA CloseInputInv ==
  ASSUME PInvariant, NEW k \in Kids, P!CloseInput(k)
  PROVE  PInvariant'
<1> DEFINE kid == [kids[k] EXCEPT !.stdin = "closed"]
<1>1. kids' = [kids EXCEPT ![k] = kid] /\ main' = main /\ main.op = "loop"
  BY DEF P!CloseInput
<1>2. kids[k] \in Kid /\ ToldOK(kids[k])
  BY DEF PInvariant, KidOK
<1>3. kid \in Kid
  BY <1>2 DEF Kid
<1>4. main' \in Main /\ main'.op # "execute"
  BY <1>1 DEF PInvariant
<1>5. /\ kid.said = kids[k].said /\ kid.seen = kids[k].seen /\ kid.lines = kids[k].lines
      /\ kid.reported = kids[k].reported /\ kid.cap = kids[k].cap /\ kid.live = kids[k].live
      /\ ToldOK(kid)
  BY <1>2 DEF ToldOK, Kid
<1> HIDE DEF kid
<1> QED
  BY <1>1, <1>3, <1>4, <1>5, Quiet

LEMMA ReadsInv ==
  ASSUME PInvariant, NEW k \in Kids, P!Reads(k), P!PipeAssumption
  PROVE  PInvariant'
<1> DEFINE kid == [kids[k] EXCEPT !.in = @ - 1, !.read = @ + 1]
<1>1. kids' = [kids EXCEPT ![k] = kid] /\ main' = main
  BY DEF P!Reads
<1>2. kids[k] \in Kid /\ ToldOK(kids[k])
  BY DEF PInvariant, KidOK
<1>3. kid \in Kid
  <2>1. kids[k].in - 1 \in 0..Pipe /\ kids[k].read + 1 \in Nat
    BY <1>2 DEF Kid, P!Reads, P!PipeAssumption
  <2> QED
    BY <1>2, <2>1 DEF Kid
<1>4. main' \in Main
  BY <1>1 DEF PInvariant
<1>5. /\ kid.said = kids[k].said /\ kid.seen = kids[k].seen /\ kid.lines = kids[k].lines
      /\ kid.reported = kids[k].reported /\ kid.cap = kids[k].cap /\ kid.live = kids[k].live
  BY <1>2 DEF Kid
<1>6. ToldOK(kid)
  <2>1. /\ kid.kind = kids[k].kind /\ kid.told = kids[k].told /\ kid.read = kids[k].read + 1
        /\ kids[k].told \in Nat /\ kids[k].read \in Nat
    BY <1>2 DEF Kid
  <2> QED
    BY <1>2, <2>1 DEF ToldOK
<1> HIDE DEF kid
<1> QED
  BY <1>1, <1>3, <1>4, <1>5, <1>6, Quiet

LEMMA EndsInv ==
  ASSUME PInvariant, NEW k \in Kids, P!Ends(k)
  PROVE  PInvariant'
<1> DEFINE kid == [kids[k] EXCEPT !.live = "zombie"]
<1>1. /\ kids' = [kids EXCEPT ![k] = kid]
      /\ main' = IF main.step = "poll" THEN [main EXCEPT !.step = "top"] ELSE main
  BY DEF P!Ends
<1>2. kids[k] \in Kid /\ ToldOK(kids[k]) /\ TextOK(k, kids[k])
  BY DEF PInvariant, KidOK
<1>3. kid \in Kid
  BY <1>2 DEF Kid
<1>4. /\ main' \in Main /\ main'.op = main.op /\ main'.kid = main.kid /\ main'.part = main.part
      /\ main'.open = main.open
      /\ main'.step = "wait" => main.step = "wait"
  BY <1>1 DEF PInvariant, Main
<1>5. /\ kid.said = kids[k].said /\ kid.seen = kids[k].seen /\ kid.lines = kids[k].lines
      /\ kid.reported = kids[k].reported /\ kid.cap = kids[k].cap /\ kid.live = "zombie"
      /\ ToldOK(kid)
  BY <1>2 DEF ToldOK, Kid
<1>6. kids[k].reported = "no"
  <2>1. kids[k].live = "run"
    BY DEF P!Ends, P!Running
  <2>2. kids[k].reported \in {"no", "due", "yes"}
    BY <1>2 DEF Kid
  <2> QED
    BY <1>2, <2>1, <2>2 DEF TextOK
<1> HIDE DEF kid
<1> QED
  BY <1>1, <1>3, <1>4, <1>5, <1>6, Quiet

\* What is known of the program that is executed
LEMMA InExecute ==
  ASSUME PInvariant, main.op = "execute"
  PROVE  /\ main \in Main /\ main.kid \in Kids \ Background
         /\ kids[main.kid] \in Kid /\ ToldOK(kids[main.kid]) /\ TextOK(main.kid, kids[main.kid])
         /\ Executed(kids[main.kid], main)
  BY DEF PInvariant, KidOK

LEMMA LoopEndsInv ==
  ASSUME PInvariant, NEW k \in Kids, P!LoopEnds(k)
  PROVE  PInvariant'
<1> DEFINE kid == [kids[k] EXCEPT !.stdin = IF @ = "open" THEN "closed" ELSE @]
<1>1. /\ kids' = [kids EXCEPT ![k] = kid] /\ main' = [main EXCEPT !.step = "wait"]
      /\ main.op = "execute" /\ main.open = {}
  BY DEF P!LoopEnds, P!Executing
<1>2. kids[k] \in Kid /\ ToldOK(kids[k])
  BY DEF PInvariant, KidOK
<1>3. kid \in Kid
  BY <1>2 DEF Kid
<1>4. /\ main' \in Main /\ main'.op = main.op /\ main'.kid = main.kid /\ main'.part = main.part
      /\ main'.open = main.open
  BY <1>1 DEF PInvariant, Main
<1>5. /\ kid.said = kids[k].said /\ kid.seen = kids[k].seen /\ kid.lines = kids[k].lines
      /\ kid.reported = kids[k].reported /\ kid.cap = kids[k].cap /\ kid.live = kids[k].live
      /\ ToldOK(kid)
  BY <1>2 DEF ToldOK, Kid
<1> HIDE DEF kid
<1> QED
  BY <1>1, <1>3, <1>4, <1>5, Quiet

LEMMA SendInv ==
  ASSUME PInvariant, P!PipeAssumption, NEW k \in Kids, P!Send(k)
  PROVE  PInvariant'
<1>1. /\ main.op = "execute" /\ main.kid = k /\ main \in Main
      /\ kids[k] \in Kid /\ ToldOK(kids[k]) /\ TextOK(k, kids[k]) /\ Executed(kids[k], main)
  BY InExecute DEF P!Send, P!Executing
<1>2. CASE main.sending
  <2> DEFINE
    chunk == main.left > 0
    taken == chunk /\ P!Running(k) /\ kids[k].in < Pipe
    left == IF taken THEN main.left - 1 ELSE main.left
    dead == chunk /\ ~taken /\ kids[k].live = "gone"
    in == IF taken THEN kids[k].in + 1 ELSE kids[k].in
    live == IF chunk /\ ~taken /\ kids[k].live = "zombie" THEN "gone" ELSE kids[k].live
    stdin == IF left = 0 THEN "closed" ELSE kids[k].stdin
    kid == [kids[k] EXCEPT !.in = in, !.live = live, !.stdin = stdin]
  <2>1. P!Writes(k)
    BY <1>2 DEF P!Send
  <2>2. /\ kids' = [kids EXCEPT ![k] = kid]
        /\ main' = [main EXCEPT !.step = "before", !.left = left, !.sending = left > 0 /\ ~dead]
    BY <2>1 DEF P!Writes
  <2>3. in \in 0..Pipe /\ left \in 0..MaxInput
    <3>1. kids[k].in \in 0..Pipe /\ main.left \in 0..MaxInput /\ Pipe \in Nat /\ MaxInput \in Nat
      BY <1>1 DEF Kid, Main, P!PipeAssumption
    <3>2. in \in 0..Pipe
      BY <3>1
    <3>3. left \in 0..MaxInput
      BY <3>1
    <3> QED
      BY <3>2, <3>3
  <2>4. live \in {"no", "run", "zombie", "gone"} /\ stdin \in {"none", "open", "closed"}
    BY <1>1 DEF Kid
  <2>5. \/ live = kids[k].live
        \/ kids[k].reported = "no" /\ live # "no" /\ (live = "run" => kids[k].live = "run")
    BY <1>1 DEF Executed
  <2>6. (left > 0 /\ ~dead) \in BOOLEAN
    OBVIOUS
  <2> HIDE DEF in, live, stdin, left, dead, chunk, taken
  <2>7. kid \in Kid
    <3>1. [kids[k] EXCEPT !.in = in] \in Kid
      BY <1>1, <2>3 DEF Kid
    <3>2. [[kids[k] EXCEPT !.in = in] EXCEPT !.live = live] \in Kid
      BY <2>4, <3>1 DEF Kid
    <3>3. kid = [[[kids[k] EXCEPT !.in = in] EXCEPT !.live = live] EXCEPT !.stdin = stdin]
      BY <1>1 DEF Kid
    <3> QED
      BY <2>4, <3>2, <3>3 DEF Kid
  <2>8. /\ kid.said = kids[k].said /\ kid.seen = kids[k].seen /\ kid.lines = kids[k].lines
        /\ kid.reported = kids[k].reported /\ kid.cap = kids[k].cap /\ kid.live = live
        /\ ToldOK(kid)
    BY <1>1 DEF ToldOK, Kid
  <2>9. /\ main' \in Main /\ main'.op = main.op /\ main'.kid = main.kid /\ main'.part = main.part
        /\ main'.open = main.open /\ main'.step = "before"
    BY <1>1, <2>2, <2>3, <2>6 DEF Main
  <2> HIDE DEF kid
  <2> QED
    BY <1>1, <2>2, <2>5, <2>7, <2>8, <2>9, Quiet
<1>3. CASE ~main.sending
  <2>1. main' = [main EXCEPT !.step = "before"] /\ kids' = kids
    BY <1>3 DEF P!Send
  <2>2. kids' = [kids EXCEPT ![k] = kids[k]]
    BY <2>1 DEF PInvariant
  <2>3. /\ main' \in Main /\ main'.op = main.op /\ main'.kid = main.kid /\ main'.part = main.part
        /\ main'.open = main.open /\ main'.step = "before"
    BY <1>1, <2>1 DEF Main
  <2> QED
    BY <1>1, <2>2, <2>3, Quiet
<1> QED
  BY <1>2, <1>3

LEMMA BlocksInv ==
  ASSUME PInvariant, NEW k \in Kids, P!Blocks(k)
  PROVE  PInvariant'
<1>1. /\ main.op = "execute" /\ main.kid = k /\ main \in Main
      /\ kids[k] \in Kid /\ ToldOK(kids[k]) /\ TextOK(k, kids[k]) /\ Executed(kids[k], main)
  BY InExecute DEF P!Blocks, P!Executing
<1>2. main' = [main EXCEPT !.step = "poll"] /\ kids' = kids
  BY DEF P!Blocks
<1>3. kids' = [kids EXCEPT ![k] = kids[k]]
  BY <1>2 DEF PInvariant
<1>4. /\ main' \in Main /\ main'.op = main.op /\ main'.kid = main.kid /\ main'.part = main.part
      /\ main'.open = main.open /\ main'.step = "poll"
  BY <1>1, <1>2 DEF Main
<1> QED
  BY <1>1, <1>3, <1>4, Quiet

LEMMA ChildOutputInv ==
  ASSUME PInvariant, NEW k \in Kids, NEW s \in Streams, P!ChildOutput(k, s)
  PROVE  PInvariant'
<1> DEFINE kid == P!Output(kids[k], s)
<1>1. /\ kids' = [kids EXCEPT ![k] = kid] /\ main' = main /\ main.op = "loop" /\ k \in Background
  BY DEF P!ChildOutput, P!Listening
<1>2. KidOK(k, kids[k])
  BY DEF PInvariant
<1> HIDE DEF kid
<1>3. KidOK(k, kid)
  BY <1>1, <1>2, OutputOK DEF kid
<1> QED
  BY <1>1, <1>3, OtherKid

LEMMA ReapInv ==
  ASSUME PInvariant, NEW k \in Kids, P!Reap(k)
  PROVE  PInvariant'
<1> DEFINE kid == [kids[k] EXCEPT !.live = "gone",
                                  !.reported = IF kids[k].watched THEN "due" ELSE kids[k].reported]
<1>1. /\ kids' = [kids EXCEPT ![k] = kid] /\ main' = main /\ main.op = "loop" /\ k \in Background
      /\ kids[k].live = "zombie"
  BY DEF P!Reap, P!Reaped
<1>2. kids[k] \in Kid /\ ToldOK(kids[k]) /\ TextOK(k, kids[k])
  BY DEF PInvariant, KidOK
<1>3. kids[k].reported = "no"
  <2>1. kids[k].reported \in {"no", "due", "yes"}
    BY <1>2 DEF Kid
  <2> QED
    BY <1>1, <1>2, <2>1 DEF TextOK
<1>4. kid \in Kid
  <2>1. (IF kids[k].watched THEN "due" ELSE kids[k].reported) \in {"no", "due", "yes"}
    BY <1>3
  <2> QED
    BY <1>2, <2>1 DEF Kid
<1>5. /\ kid.said = kids[k].said /\ kid.seen = kids[k].seen /\ kid.lines = kids[k].lines
      /\ kid.cap = kids[k].cap /\ kid.live = "gone" /\ kid.reported \in {"no", "due"}
      /\ ToldOK(kid)
  BY <1>2, <1>3 DEF ToldOK, Kid
<1> HIDE DEF kid
<1>6. TextOK(k, kid)
  <2>1. \A s \in Streams : Passed(kid, s)
    BY <1>1, <1>2, <1>5 DEF TextOK, Passed
  <2> QED
    BY <1>1, <1>2, <1>5, <2>1 DEF TextOK
<1>7. KidOK(k, kid)
  BY <1>4, <1>5, <1>6 DEF KidOK
<1> QED
  BY <1>1, <1>7, OtherKid

\* Before the end of a program is reported, its streams are read to their end.
LEMMA AtExitOK ==
  ASSUME NEW k \in Background, NEW kid, KidOK(k, kid)
  PROVE  LET new == P!AtExit(kid) IN
         /\ KidOK(k, new)
         /\ new.said = kid.said /\ new.reported = kid.reported /\ new.live = kid.live
         /\ new.cap = kid.cap
         /\ \A s \in kid.cap : new.seen[s] = Len(kid.said[s])
<1> DEFINE new == P!AtExit(kid)
<1>0. kid.cap \subseteq Streams /\ Streams = {"out", "err"}
  BY DEF KidOK, Kid, Streams, P!Streams
<1>1. CASE kid.cap = {"out", "err"}
  <2> DEFINE one == P!Output(kid, "out")
             two == P!Output(one, "err")
  <2>1. new = two
    BY <1>1 DEF P!AtExit
  <2> HIDE DEF new, two, one
  <2>2. /\ KidOK(k, one)
        /\ one.said = kid.said /\ one.reported = kid.reported /\ one.live = kid.live
        /\ one.cap = kid.cap /\ one.seen["out"] = Len(kid.said["out"])
    BY <1>0, OutputOK DEF one
  <2>3. /\ KidOK(k, two)
        /\ two.said = one.said /\ two.reported = one.reported /\ two.live = one.live
        /\ two.cap = one.cap /\ two.seen["err"] = Len(one.said["err"])
        /\ two.seen["out"] = one.seen["out"]
    BY <1>0, <2>2, OutputOK DEF two
  <2> QED
    BY <1>1, <2>1, <2>2, <2>3 DEF new
<1>2. CASE kid.cap = {}
  <2>1. new = kid
    BY <1>2 DEF P!AtExit
  <2> QED
    BY <1>2, <2>1
<1>3. CASE kid.cap # {"out", "err"} /\ kid.cap # {}
  <2> DEFINE s == CHOOSE s \in kid.cap : TRUE
  <2>1. new = P!Output(kid, s)
    BY <1>3 DEF P!AtExit
  <2>2. s \in kid.cap
    BY <1>3
  <2> HIDE DEF s, new
  <2>3. kid.cap = {s} /\ s \in Streams
    BY <1>0, <1>3, <2>2
  <2>4. /\ KidOK(k, new)
        /\ new.said = kid.said /\ new.reported = kid.reported /\ new.live = kid.live
        /\ new.cap = kid.cap /\ new.seen[s] = Len(kid.said[s])
    BY <2>1, <2>3, OutputOK
  <2> QED
    BY <2>3, <2>4 DEF new
<1> QED
  BY <1>1, <1>2, <1>3

LEMMA ChildExitInv ==
  ASSUME PInvariant, NEW k \in Kids, P!ChildExit(k)
  PROVE  PInvariant'
<1> DEFINE r == P!AtExit(kids[k])
           kid == [r EXCEPT !.reported = "yes"]
<1>1. /\ kids' = [kids EXCEPT ![k] = kid] /\ main' = main /\ main.op = "loop"
      /\ kids[k].reported = "due"
  BY DEF P!ChildExit
<1>2. KidOK(k, kids[k])
  BY DEF PInvariant
<1>3. k \in Background
  BY <1>1, <1>2 DEF KidOK, TextOK
<1>4. /\ KidOK(k, r) /\ r.reported = "due"
      /\ \A s \in r.cap : r.seen[s] = Len(r.said[s])
  <2> HIDE DEF r
  <2> QED
    BY <1>1, <1>2, <1>3, AtExitOK DEF r
<1> HIDE DEF r
<1>5. /\ r \in Kid /\ ToldOK(r) /\ TextOK(k, r)
  BY <1>4 DEF KidOK
<1>6. kid \in Kid
  BY <1>5 DEF Kid
<1>7. /\ kid.said = r.said /\ kid.seen = r.seen /\ kid.lines = r.lines
      /\ kid.cap = r.cap /\ kid.live = r.live /\ kid.reported = "yes"
      /\ ToldOK(kid)
  BY <1>5 DEF ToldOK, Kid
<1> HIDE DEF kid
<1>8. TextOK(k, kid)
  <2>1. \A s \in Streams : Passed(kid, s)
    BY <1>3, <1>5, <1>7 DEF TextOK, Passed
  <2>2. r.live = "gone"
    BY <1>4, <1>5 DEF TextOK
  <2> QED
    BY <1>3, <1>4, <1>5, <1>7, <2>1, <2>2 DEF TextOK
<1>9. KidOK(k, kid)
  BY <1>6, <1>7, <1>8 DEF KidOK
<1> QED
  BY <1>1, <1>9, OtherKid

LEMMA NoTextType == NoText \in Lengths
<1>1. <<>> \in Seq(Nat)
  OBVIOUS
<1> QED
  BY <1>1 DEF NoText, Lengths

LEMMA WaitedInv ==
  ASSUME PInvariant, P!PipeAssumption, NEW k \in Kids, P!Waited(k)
  PROVE  PInvariant'
<1> DEFINE
  all == [s \in Streams |-> P!Whole([lines |-> kids[k].lines[s], part |-> main.part[s]])]
  kid == [kids[k] EXCEPT !.live = "gone", !.reported = "yes", !.lines = all]
<1>1. /\ main.op = "execute" /\ main.kid = k /\ main.step = "wait" /\ main' = P!Loop
      /\ kids' = [kids EXCEPT ![k] = kid]
  BY DEF P!Waited, P!Executing, Streams
<1>2. /\ main \in Main /\ k \notin Background
      /\ kids[k] \in Kid /\ ToldOK(kids[k]) /\ TextOK(k, kids[k]) /\ Executed(kids[k], main)
  BY <1>1, InExecute
<1>3. /\ kids[k].said \in [Streams -> Seq(Chunks)] /\ kids[k].seen \in [Streams -> Nat]
      /\ kids[k].lines \in [Streams -> Seq(Nat)] /\ main.part \in [Streams -> Nat]
      /\ kids[k].cap \subseteq Streams
  BY <1>2 DEF Kid, Main
<1>4. ASSUME NEW s \in Streams
      PROVE  /\ all[s] \in Seq(Nat)
             /\ s \in kids[k].cap => all[s] = P!LineLengths(kids[k].said[s])
  <2> DEFINE g == [lines |-> kids[k].lines[s], part |-> main.part[s]]
             said == kids[k].said[s]
  <2>1. g \in Lengths /\ all[s] = P!Whole(g) /\ said \in Seq(Chunks)
    BY <1>3 DEF Lengths
  <2>2. g = P!Split(NoText, SubSeq(said, 1, kids[k].seen[s]))
    BY <1>2 DEF Executed
  <2>3. s \in kids[k].cap => kids[k].seen[s] = Len(said)
    BY <1>1, <1>2 DEF Executed
  <2>4. P!LineLengths(said) = P!Whole(P!Split(NoText, said))
    BY DEF P!LineLengths, NoText
  <2> HIDE DEF g, said, all
  <2>5. SubSeq(said, 1, Len(said)) = said
    BY <2>1
  <2>6. P!Whole(g) \in Seq(Nat)
    BY <2>1, WholeCuts
  <2> QED
    BY <2>1, <2>2, <2>3, <2>4, <2>5, <2>6 DEF said
<1>5. all \in [Streams -> Seq(Nat)]
  <2>1. all = [s \in Streams |-> all[s]]
    OBVIOUS
  <2> HIDE DEF all
  <2> QED
    BY <1>4, <2>1
<1> HIDE DEF all
<1>6. kid \in Kid
  BY <1>2, <1>5 DEF Kid
<1>7. /\ kid.said = kids[k].said /\ kid.seen = kids[k].seen /\ kid.lines = all
      /\ kid.cap = kids[k].cap /\ kid.live = "gone" /\ kid.reported = "yes"
      /\ ToldOK(kid)
  BY <1>2 DEF ToldOK, Kid
<1> HIDE DEF kid
<1>8. TextOK(k, kid)
  <2>1. \A s \in Streams : kid.seen[s] <= Len(kid.said[s])
    BY <1>2, <1>7 DEF TextOK
  <2>2. \A s \in Streams : s \in kid.cap => kid.lines[s] = P!LineLengths(kid.said[s])
    BY <1>4, <1>7
  <2> QED
    BY <1>2, <1>7, <2>1, <2>2 DEF TextOK
<1>9. KidOK(k, kid)
  BY <1>6, <1>7, <1>8 DEF KidOK
<1>10. main' \in Main /\ main'.op # "execute"
  BY <1>1, LoopOK
<1> QED
  BY <1>1, <1>9, <1>10, NotExecuting

LEMMA TellsInv ==
  ASSUME PInvariant, P!PipeAssumption, NEW k \in Kids, NEW s \in Streams, NEW chunk \in Chunks,
         P!Tells(k, s, chunk)
  PROVE  PInvariant'
<1>1. /\ kids[k] \in Kid /\ ToldOK(kids[k]) /\ TextOK(k, kids[k]) /\ main \in Main
  BY DEF PInvariant, KidOK
<1>2. kids[k].live = "run" /\ kids[k].reported = "no" /\ main' = main
  <2>1. kids[k].reported \in {"no", "due", "yes"}
    BY <1>1 DEF Kid
  <2> QED
    BY <1>1, <2>1 DEF P!Tells, P!Running, TextOK
<1>3. /\ kids[k].told + 1 \in Nat
      /\ IF kids[k].kind = "deaf" THEN kids[k].told + 1 <= Says ELSE kids[k].told + 1 <= kids[k].read
  <2>1. kids[k].told \in Nat /\ kids[k].read \in Nat /\ Says \in Nat
    BY <1>1 DEF Kid, P!PipeAssumption
  <2>2. IF kids[k].kind = "deaf" THEN kids[k].told < Says ELSE kids[k].told < kids[k].read
    BY DEF P!Tells
  <2> QED
    BY <2>1, <2>2
<1>4. CASE s \notin kids[k].cap
  <2> DEFINE kid == [kids[k] EXCEPT !.told = @ + 1]
  <2>1. kids' = [kids EXCEPT ![k] = kid]
    BY <1>4 DEF P!Tells
  <2>2. kid \in Kid
    BY <1>1, <1>3 DEF Kid
  <2>3. /\ kid.said = kids[k].said /\ kid.seen = kids[k].seen /\ kid.lines = kids[k].lines
        /\ kid.reported = kids[k].reported /\ kid.cap = kids[k].cap /\ kid.live = kids[k].live
        /\ kid.kind = kids[k].kind /\ kid.read = kids[k].read /\ kid.told = kids[k].told + 1
    BY <1>1 DEF Kid
  <2>4. ToldOK(kid)
    BY <1>3, <2>3 DEF ToldOK
  <2> HIDE DEF kid
  <2> QED
    BY <1>1, <1>2, <2>1, <2>2, <2>3, <2>4, Quiet
<1>5. CASE s \in kids[k].cap
  <2> DEFINE said == [kids[k].said EXCEPT ![s] = Append(@, chunk)]
             kid == [kids[k] EXCEPT !.told = kids[k].told + 1, !.said = said]
  <2>1. kids' = [kids EXCEPT ![k] = kid]
    BY <1>5, ZenonT(60) DEF P!Tells
  <2>2. /\ kids[k].said \in [Streams -> Seq(Chunks)] /\ kids[k].seen \in [Streams -> Nat]
        /\ said \in [Streams -> Seq(Chunks)]
    <3>1. kids[k].said \in [Streams -> Seq(Chunks)] /\ kids[k].seen \in [Streams -> Nat]
      BY <1>1 DEF Kid
    <3>2. kids[k].said[s] \in Seq(Chunks)
      BY <3>1
    <3>3. Append(kids[k].said[s], chunk) \in Seq(Chunks)
      BY <3>2
    <3> QED
      BY <3>1, <3>3
  <2>3. ASSUME NEW r \in Streams
        PROVE  /\ kids[k].seen[r] <= Len(said[r])
               /\ \A i \in 1..kids[k].seen[r] : said[r][i] = kids[k].said[r][i]
               /\ SubSeq(said[r], 1, kids[k].seen[r]) = SubSeq(kids[k].said[r], 1, kids[k].seen[r])
    <3>1. kids[k].seen[r] \in Nat /\ kids[k].seen[r] <= Len(kids[k].said[r])
          /\ kids[k].said[r] \in Seq(Chunks)
      BY <1>1, <2>2 DEF TextOK
    <3>2. CASE r = s
      <4> DEFINE t == kids[k].said[s]
                 n == kids[k].seen[s]
      <4>1. said[r] = Append(t, chunk)
        BY <2>2, <3>2
      <4>2. t \in Seq(Chunks) /\ n \in Nat /\ n <= Len(t)
        BY <3>1, <3>2
      <4> HIDE DEF t, n, said
      <4>3. n <= Len(Append(t, chunk)) /\ \A i \in 1..n : Append(t, chunk)[i] = t[i]
        BY <4>2
      <4>4. SubSeq(Append(t, chunk), 1, n) = SubSeq(t, 1, n)
        BY <4>2
      <4> QED
        BY <3>2, <4>1, <4>3, <4>4 DEF t, n
    <3>3. CASE r # s
      <4>1. said[r] = kids[k].said[r]
        BY <2>2, <3>3
      <4> QED
        BY <3>1, <4>1
    <3> QED
      BY <3>2, <3>3
  <2> HIDE DEF said
  <2>4. kid \in Kid
    BY <1>1, <1>3, <2>2 DEF Kid
  <2>5. /\ kid.said = said /\ kid.seen = kids[k].seen /\ kid.lines = kids[k].lines
        /\ kid.reported = kids[k].reported /\ kid.cap = kids[k].cap /\ kid.live = kids[k].live
        /\ kid.kind = kids[k].kind /\ kid.read = kids[k].read /\ kid.told = kids[k].told + 1
    BY <1>1 DEF Kid
  <2> HIDE DEF kid
  <2>6. ToldOK(kid)
    BY <1>3, <2>5 DEF ToldOK
  <2>7. TextOK(k, kid)
    <3>1. \A r \in Streams : kid.seen[r] <= Len(kid.said[r])
      BY <2>3, <2>5
    <3>2. k \in Background => \A r \in Streams : Passed(kid, r)
      <4> SUFFICES ASSUME k \in Background, NEW r \in Streams
                   PROVE  Passed(kid, r)
        OBVIOUS
      <4>1. Passed(kids[k], r)
        BY <1>1 DEF TextOK
      <4> QED
        BY <2>3, <2>5, <4>1 DEF Passed
    <3> QED
      BY <1>2, <2>5, <3>1, <3>2 DEF TextOK
  <2>8. KidOK(k, kid)
    BY <2>4, <2>6, <2>7 DEF KidOK
  <2>9. ASSUME main.op = "execute", main.kid = k
        PROVE  Executed(kid, main)
    <3>1. Executed(kids[k], main)
      BY <2>9, InExecute
    <3>2. ASSUME NEW r \in Streams
          PROVE  [lines |-> kid.lines[r], part |-> main.part[r]] =
                   P!Split(NoText, SubSeq(kid.said[r], 1, kid.seen[r]))
      BY <2>3, <2>5, <3>1, ZenonT(60) DEF Executed
    <3>3. kids[k].cap \ main.open = {}
      BY <1>2, <3>1 DEF Executed
    <3> QED
      BY <2>5, <3>1, <3>2, <3>3 DEF Executed
  <2>10. ASSUME main'.op = "execute"
         PROVE  main'.kid \in Kids \ Background /\ Executed(kids'[main'.kid], main')
    <3>1. main.kid \in Kids \ Background /\ Executed(kids[main.kid], main)
      BY <1>2, <2>10, InExecute
    <3>2. kids'[main.kid] = IF main.kid = k THEN kid ELSE kids[main.kid]
      BY <2>1, <3>1 DEF PInvariant
    <3> QED
      BY <1>2, <2>9, <2>10, <3>1, <3>2
  <2> QED
    BY <1>1, <1>2, <2>1, <2>8, <2>10, OneKid
<1> QED
  BY <1>4, <1>5

LEMMA PolledInv ==
  ASSUME PInvariant, P!PipeAssumption, NEW k \in Kids, P!Polled(k)
  PROVE  PInvariant'
<1> DEFINE
  read == {s \in main.open : P!Unread(k, s) # <<>>}
  got == [s \in read |-> P!Split([lines |-> kids[k].lines[s], part |-> main.part[s]],
                                 P!Unread(k, s))]
  lines == [s \in Streams |-> IF s \in read THEN got[s].lines ELSE kids[k].lines[s]]
  seen == [s \in Streams |-> IF s \in read THEN Len(kids[k].said[s]) ELSE kids[k].seen[s]]
  part == [s \in Streams |-> IF s \in read THEN got[s].part ELSE main.part[s]]
  open == {s \in main.open : s \in read \/ P!Running(k)}
  kid == [kids[k] EXCEPT !.lines = lines, !.seen = seen]
<1>1. /\ main.op = "execute" /\ main.kid = k
      /\ kids' = [kids EXCEPT ![k] = kid]
      /\ main' = [main EXCEPT !.step = "top", !.open = open, !.part = part]
  BY DEF P!Polled, P!Executing, Streams
<1>2. /\ main \in Main /\ k \in Kids \ Background
      /\ kids[k] \in Kid /\ ToldOK(kids[k]) /\ TextOK(k, kids[k]) /\ Executed(kids[k], main)
  BY <1>1, InExecute
<1>3. /\ kids[k].said \in [Streams -> Seq(Chunks)] /\ kids[k].seen \in [Streams -> Nat]
      /\ kids[k].lines \in [Streams -> Seq(Nat)] /\ main.part \in [Streams -> Nat]
      /\ kids[k].cap \subseteq Streams /\ main.open \subseteq Streams
  BY <1>2 DEF Kid, Main
<1>4. read \subseteq main.open /\ open \subseteq main.open
  OBVIOUS
<1>5. ASSUME NEW s \in read
      PROVE  /\ got[s] \in Lengths
             /\ got[s] = P!Split(NoText, kids[k].said[s])
  <2> DEFINE g == [lines |-> kids[k].lines[s], part |-> main.part[s]]
             said == kids[k].said[s]
             n == kids[k].seen[s]
             u == SubSeq(said, n + 1, Len(said))
             v == SubSeq(said, 1, n)
  <2>1. /\ g \in Lengths /\ said \in Seq(Chunks) /\ n \in Nat /\ n <= Len(said) /\ s \in Streams
    BY <1>2, <1>3 DEF Lengths, TextOK
  <2>2. g = P!Split(NoText, v)
    BY <1>2, <2>1 DEF Executed
  <2>3. got[s] = P!Split(g, u)
    BY DEF P!Unread
  <2> HIDE DEF g, said, n, got
  <2>4. u \in Seq(Chunks) /\ Joined(v, u) = said /\ v \in Seq(Chunks)
    BY <2>1, ReadOn
  <2> HIDE DEF u, v
  <2>5. P!Split(P!Split(NoText, v), u) = P!Split(NoText, Joined(v, u))
    BY <2>4, SplitAgain, NoTextType
  <2>6. P!Split(g, u) \in Lengths
    BY <2>1, <2>4, SplitType
  <2> QED
    BY <2>2, <2>3, <2>4, <2>5, <2>6 DEF said
<1> HIDE DEF got
<1>6. ASSUME NEW s \in Streams
      PROVE  /\ lines[s] \in Seq(Nat) /\ seen[s] \in Nat /\ part[s] \in Nat
             /\ seen[s] <= Len(kids[k].said[s])
             /\ s \in read => lines[s] = got[s].lines /\ part[s] = got[s].part
                              /\ seen[s] = Len(kids[k].said[s])
             /\ s \notin read => lines[s] = kids[k].lines[s] /\ part[s] = main.part[s]
                                 /\ seen[s] = kids[k].seen[s]
  <2>1. s \in read => got[s].lines \in Seq(Nat) /\ got[s].part \in Nat
    BY <1>5 DEF Lengths
  <2>2. kids[k].said[s] \in Seq(Chunks) /\ kids[k].seen[s] <= Len(kids[k].said[s])
    BY <1>2, <1>3 DEF TextOK
  <2>3. Len(kids[k].said[s]) \in Nat
    BY <2>2
  <2> HIDE DEF read
  <2> QED
    BY <1>3, <2>1, <2>2, <2>3
<1>7. /\ lines \in [Streams -> Seq(Nat)] /\ seen \in [Streams -> Nat] /\ part \in [Streams -> Nat]
  <2>1. /\ lines = [s \in Streams |-> lines[s]] /\ seen = [s \in Streams |-> seen[s]]
        /\ part = [s \in Streams |-> part[s]]
    OBVIOUS
  <2> HIDE DEF lines, seen, part
  <2> QED
    BY <1>6, <2>1
<1>8. ASSUME NEW s \in main.open, s \notin open
      PROVE  kids[k].live # "run" /\ kids[k].seen[s] = Len(kids[k].said[s])
  <2>1. s \notin read /\ kids[k].live # "run"
    BY <1>8 DEF P!Running
  <2>2. SubSeq(kids[k].said[s], kids[k].seen[s] + 1, Len(kids[k].said[s])) = <<>>
    BY <2>1 DEF P!Unread
  <2>3. /\ kids[k].said[s] \in Seq(Chunks) /\ kids[k].seen[s] \in Nat
        /\ kids[k].seen[s] <= Len(kids[k].said[s])
    BY <1>2, <1>3 DEF TextOK
  <2>4. Len(SubSeq(kids[k].said[s], kids[k].seen[s] + 1, Len(kids[k].said[s]))) =
          Len(kids[k].said[s]) - kids[k].seen[s]
    BY <2>3, ReadOn
  <2>5. Len(kids[k].said[s]) - kids[k].seen[s] = 0
    BY <2>2, <2>4
  <2>6. Len(kids[k].said[s]) \in Nat
    BY <2>3
  <2> QED
    BY <2>1, <2>3, <2>5, <2>6
<1> HIDE DEF read, lines, seen, part, open
<1>9. kid \in Kid
  BY <1>2, <1>7 DEF Kid
<1>10. /\ kid.said = kids[k].said /\ kid.seen = seen /\ kid.lines = lines
       /\ kid.reported = kids[k].reported /\ kid.cap = kids[k].cap /\ kid.live = kids[k].live
       /\ ToldOK(kid)
  BY <1>2 DEF ToldOK, Kid
<1> HIDE DEF kid
<1>11. KidOK(k, kid)
  <2>1. kids[k].reported = "no"
    BY <1>2 DEF Executed
  <2>2. TextOK(k, kid)
    BY <1>2, <1>6, <1>10, <2>1 DEF TextOK
  <2> QED
    BY <1>9, <1>10, <2>2 DEF KidOK
<1>12. /\ main' \in Main /\ main'.op = "execute" /\ main'.kid = k /\ main'.open = open
       /\ main'.part = part /\ main'.step = "top"
  <2>1. open \in SUBSET Streams
    BY <1>3, <1>4
  <2> QED
    BY <1>1, <1>2, <1>7, <2>1 DEF Main
<1>13. Executed(kid, main')
  <2>1. ASSUME NEW s \in Streams
        PROVE  [lines |-> lines[s], part |-> part[s]] =
                 P!Split(NoText, SubSeq(kids[k].said[s], 1, seen[s]))
    <3>1. CASE s \in read
      <4>1. kids[k].said[s] \in Seq(Chunks)
        BY <1>3
      <4>2. SubSeq(kids[k].said[s], 1, Len(kids[k].said[s])) = kids[k].said[s]
        BY <4>1
      <4>3. got[s] = [lines |-> got[s].lines, part |-> got[s].part]
        BY <1>5, <3>1 DEF Lengths
      <4> QED
        BY <1>5, <1>6, <3>1, <4>2, <4>3
    <3>2. CASE s \notin read
      <4>1. [lines |-> kids[k].lines[s], part |-> main.part[s]] =
              P!Split(NoText, SubSeq(kids[k].said[s], 1, kids[k].seen[s]))
        BY <1>2 DEF Executed
      <4> QED
        BY <1>6, <3>2, <4>1
    <3> QED
      BY <3>1, <3>2
  <2>2. ASSUME NEW s \in kids[k].cap \ open
        PROVE  kids[k].live # "run" /\ seen[s] = Len(kids[k].said[s])
    <3>1. kids[k].live # "run" /\ kids[k].seen[s] = Len(kids[k].said[s])
      <4>1. CASE s \in main.open
        BY <1>8, <2>2, <4>1
      <4>2. CASE s \notin main.open
        BY <1>2, <2>2, <4>2 DEF Executed
      <4> QED
        BY <4>1, <4>2
    <3>2. s \in Streams
      BY <1>3, <2>2
    <3> QED
      BY <1>6, <3>1, <3>2
  <2> QED
    BY <1>2, <1>10, <1>12, <2>1, <2>2 DEF Executed
<1>14. kids'[k] = kid
  BY <1>1, <1>2 DEF PInvariant
<1> QED
  BY <1>2, <1>1, <1>11, <1>12, <1>13, <1>14, OneKid

\* Every step of the programs, and of lfm with them
LEMMA PNextInv ==
  ASSUME PInvariant, P!PipeAssumption, P!KidsAssumption, P!JobsAssumption, P!Next
  PROVE  PInvariant'
<1>1. CASE P!Lua
  <2>1. PICK k \in Kids : \/ \E job \in Jobs[k] : P!Spawn(k, job) \/ P!Execute(k, job)
                          \/ P!StartWrite(k) \/ P!CloseInput(k)
    BY <1>1 DEF P!Lua
  <2> QED
    BY <2>1, SpawnInv, ExecuteInv, StartWriteInv, CloseInputInv
<1>2. CASE P!Lfm
  <2>1. PICK k \in Kids : \/ P!SendInput(k) \/ P!InputSent(k) \/ P!EndWrite(k)
                          \/ P!LoopEnds(k) \/ P!Send(k) \/ P!Blocks(k) \/ P!Polled(k)
                          \/ P!Waited(k)
    BY <1>2 DEF P!Lfm
  <2> QED
    BY <2>1, SendInputInv, InputSentInv, EndWriteInv, LoopEndsInv, SendInv, BlocksInv, PolledInv,
       WaitedInv
<1>3. ASSUME NEW k \in Kids, P!Events(k)
      PROVE  PInvariant'
  BY <1>3, ChildOutputInv, ReapInv, ChildExitInv DEF P!Events, Streams
<1>4. ASSUME NEW k \in Kids, P!Program(k)
      PROVE  PInvariant'
  BY <1>4, ReadsInv, EndsInv, TellsInv DEF P!Program, Streams, Chunks
<1> QED
  BY <1>1, <1>2, <1>3, <1>4 DEF P!Next

-----------------------------------------------------------------------------
(* What the invariants give *)

LEMMA PTypeOK ==
  ASSUME PInvariant, P!PipeAssumption
  PROVE  P!TypeOK
<1>1. ASSUME NEW k \in Kids
      PROVE  LET kid == kids[k] IN
             /\ kid.live \in {"no", "run", "zombie", "gone"}
             /\ kid.kind \in {"echo", "collect", "deaf"}
             /\ kid.cap \subseteq Streams /\ kid.in \in 0..Pipe
             /\ kid.reported \in {"no", "due", "yes"} /\ kid.stdin \in {"none", "open", "closed"}
             /\ \A s \in Streams : kid.seen[s] \in 0..Len(kid.said[s])
             /\ kid.told <= Says \/ kid.told <= kid.read
  <2>1. kids[k] \in Kid /\ ToldOK(kids[k]) /\ TextOK(k, kids[k])
    BY DEF PInvariant, KidOK
  <2>2. ASSUME NEW s \in Streams
        PROVE  kids[k].seen[s] \in 0..Len(kids[k].said[s])
    <3>1. /\ kids[k].said[s] \in Seq(Chunks) /\ kids[k].seen[s] \in Nat
          /\ kids[k].seen[s] <= Len(kids[k].said[s])
      BY <2>1 DEF Kid, TextOK
    <3>2. Len(kids[k].said[s]) \in Nat
      BY <3>1
    <3> QED
      BY <3>1, <3>2
  <2>3. kids[k].told <= Says \/ kids[k].told <= kids[k].read
    BY <2>1 DEF ToldOK
  <2> QED
    BY <2>1, <2>2, <2>3 DEF Kid
<1>2. /\ main.op \in {"loop", "spawn", "write", "execute"} /\ main.kid \in Kids \cup {Nobody}
      /\ main.left \in 0..MaxInput /\ main.open \subseteq Streams
  BY DEF PInvariant, Main
<1> QED
  BY <1>1, <1>2 DEF P!TypeOK, Streams

LEMMA POutputBeforeExit ==
  ASSUME PInvariant, P!KidsAssumption
  PROVE  P!OutputBeforeExit
<1> SUFFICES ASSUME NEW k \in Background, NEW s \in Streams,
                    kids[k].reported = "yes", s \in kids[k].cap
             PROVE  /\ kids[k].seen[s] = Len(kids[k].said[s])
                    /\ P!CutsOf(P!LineLengths(kids[k].said[s])) \subseteq P!CutsOf(kids[k].lines[s])
  BY DEF P!OutputBeforeExit, Streams
<1> DEFINE said == kids[k].said[s]
           l == kids[k].lines[s]
<1>1. k \in Kids /\ kids[k] \in Kid /\ TextOK(k, kids[k])
  BY DEF PInvariant, KidOK, P!KidsAssumption
<1>2. kids[k].seen[s] = Len(said) /\ Passed(kids[k], s)
  BY <1>1 DEF TextOK
<1>3. said \in Seq(Chunks) /\ l \in Seq(Nat)
  BY <1>1 DEF Kid
<1>4. P!Total(l) = Len(said) /\ \A i \in 1..Len(said) : said[i] = "n" => i \in P!CutsOf(l)
  BY <1>2 DEF Passed
<1> HIDE DEF said, l
<1>5. P!CutsOf(P!LineLengths(said)) \subseteq Newlines(0, said) \cup (IF Len(said) > 0 THEN {Len(said)} ELSE {})
  BY <1>3, LineCuts
<1>6. ASSUME NEW i \in Newlines(0, said)
      PROVE  i \in P!CutsOf(l)
  <2>1. PICK j \in 1..Len(said) : said[j] = "n" /\ i = 0 + j
    BY <1>6 DEF Newlines
  <2>2. i = j
    BY <2>1
  <2> QED
    BY <1>4, <2>1, <2>2
<1>7. ASSUME Len(said) > 0
      PROVE  Len(said) \in P!CutsOf(l)
  BY <1>3, <1>4, <1>7, CutsTotal
<1>8. P!CutsOf(P!LineLengths(said)) \subseteq P!CutsOf(l)
  BY <1>5, <1>6, <1>7
<1> QED
  BY <1>2, <1>8 DEF said, l

LEMMA PResultIsOutput ==
  ASSUME PInvariant
  PROVE  P!ResultIsOutput
<1> SUFFICES ASSUME NEW k \in Kids \ Background, NEW s \in Streams,
                    kids[k].reported = "yes", s \in kids[k].cap
             PROVE  kids[k].lines[s] = P!LineLengths(kids[k].said[s])
  BY DEF P!ResultIsOutput, Streams
<1> QED
  BY DEF PInvariant, KidOK, TextOK

\* The assumptions of History and of Programs on their constants
HAssumptions == H!FilesAssumption /\ H!ProcsAssumption /\ H!TypedAssumption /\ H!HistSizeAssumption
PAssumptions == P!PipeAssumption /\ P!KidsAssumption /\ P!JobsAssumption

LEMMA HSame ==
  ASSUME HInv, UNCHANGED historyVars
  PROVE  HInv'
<1>1. /\ file' = file /\ lock' = lock /\ pc' = pc /\ list' = list /\ cur' = cur /\ out' = out
      /\ appends' = appends /\ lives' = lives
  BY DEF historyVars
<1> QED
  BY <1>1 DEF HInv, HTyped, HPlace, HUnique, HLocked, HReady, HOut

LEMMA PSame ==
  ASSUME PInvariant, UNCHANGED programVars
  PROVE  PInvariant'
<1>1. kids' = kids /\ main' = main
  BY DEF programVars
<1> QED
  BY <1>1 DEF PInvariant

\* What the three components keep in every behaviour
LEMMA RecordsInvariant ==
  ASSUME HAssumptions, PAssumptions
  PROVE  SpecAll => [](HInv /\ PInvariant)
<1>1. InitAll => HInv /\ PInvariant
  BY HInitInv, PInitInv DEF InitAll, HAssumptions, PAssumptions
<1>2. HInv /\ PInvariant /\ [NextAll]_allVars => (HInv /\ PInvariant)'
  <2> SUFFICES ASSUME HInv, PInvariant, [NextAll]_allVars
               PROVE  HInv' /\ PInvariant'
    OBVIOUS
  <2>0. HistSize \in Nat
    BY DEF HAssumptions, H!HistSizeAssumption
  <2>1. CASE H!Next /\ UNCHANGED programVars
    BY <2>0, <2>1, HNextInv, PSame DEF HAssumptions
  <2>2. CASE P!Next /\ UNCHANGED historyVars
    BY <2>2, HSame, PNextInv DEF PAssumptions
  <2>3. CASE UNCHANGED <<historyVars, programVars>>
    BY <2>3, HSame, PSame
  <2> QED
    BY <2>1, <2>2, <2>3 DEF NextAll, allVars
<1> QED
  BY <1>1, <1>2, PTL DEF SpecAll

\* However instances of lfm take turns with the history file and end, a line is in their
\* lists and in the file once and recalled in order; and however programs write, are read
\* and end, background programs are reported with all of their output before, cut at their
\* newlines, and executed ones return exactly their lines (cmdline/history.c,
\* lua/spawn.c, lua/execute.c).
THEOREM RecordsAreConsistent ==
  ASSUME HAssumptions, PAssumptions
  PROVE  SpecAll => []RecordsConsistent
<1>1. HInv /\ PInvariant => RecordsConsistent
  <2> SUFFICES ASSUME HInv, PInvariant
               PROVE  RecordsConsistent
    OBVIOUS
  <2>1. H!TypeOK /\ H!LinesAreUnique /\ H!RecallWalksTheList
    BY HTypeOK, HLinesUnique, HRecall DEF HAssumptions, H!HistSizeAssumption
  <2>2. P!TypeOK /\ P!OutputBeforeExit /\ P!ResultIsOutput
    BY PTypeOK, POutputBeforeExit, PResultIsOutput DEF PAssumptions
  <2> QED
    BY <2>1, <2>2 DEF RecordsConsistent
<1> QED
  BY <1>1, RecordsInvariant, PTL

\* Ending an instance writes the lines of others that are in the file, and its own new
\* ones behind them, for any number of instances, lives and lines, at most the newest
\* HistSize (history_write).
THEOREM NobodysLinesAreLost ==
  ASSUME HAssumptions, PAssumptions
  PROVE  SpecAll => NoUpdateLost
<1> DEFINE A == \A p \in Procs : H!Rename(p) =>
                  LET new == H!Those(H!LinesOf(list[p]), H!NewLines(p))
                      others == H!Those(H!LinesOf(H!Loaded(file)), Lines \ H!NewLines(p))
                  IN H!LinesOf(file') = H!Newest(others \o new)
<1>1. HInv => A
  BY HRename DEF HAssumptions, H!HistSizeAssumption
<1>2. SpecAll => []HInv
  BY RecordsInvariant, PTL
<1>3. SpecAll => [][A]_historyVars
  <2> HIDE DEF A
  <2> QED
    BY <1>1, <1>2, PTL
<1>4. NoUpdateLost <=> [][A]_historyVars
  BY DEF NoUpdateLost, H!NoUpdateLost, historyVars, H!vars
<1> QED
  BY <1>3, <1>4, PTL
-----------------------------------------------------------------------------
(* Previews: the invariant *)

PreviewRec == [ref : Nat \ {0}, cached : BOOLEAN, status : {"delayed", "loaded"}, loading : BOOLEAN,
               height : 1..Tall, mtime : Nat, content : Nat, draws : {"text", "image"},
               holds : {"text", "image"}, in_progress : BOOLEAN, requested : BOOLEAN]
LoadRec == [pv : Files \X Nat, n : 0..MaxWork, height : 1..Tall, mtime : Nat \cup {None},
            from : Nat, content : Nat \cup {None}, kind : {"text", "image", None},
            child : {"none", "runs", "gone"}, sem : BOOLEAN, done : BOOLEAN, cancelled : BOOLEAN]
CheckRec == [pv : Files \X Nat, n : 0..MaxWork, mtime : Nat, done : BOOLEAN]

\* What is passed along is a record of the right kind.
Shape(s) ==
  /\ s = [pvs |-> s.pvs, timers |-> s.timers, loads |-> s.loads, checks |-> s.checks,
          rows |-> s.rows, raced |-> s.raced, looked |-> s.looked]
  /\ s.pvs \in [DOMAIN s.pvs -> PreviewRec]
  /\ DOMAIN s.pvs \subseteq Files \X Nat
  /\ s.loads \subseteq LoadRec /\ s.checks \subseteq CheckRec
  /\ s.timers \subseteq DOMAIN s.pvs
  /\ s.rows \in 1..Tall

One(b) == IF b THEN 1 ELSE 0
\* Every Preview has the references it should, and those of owed besides.
Counted(s, owed) ==
  /\ IsFiniteSet(s.loads \cup s.checks)
  /\ Cardinality(s.loads \cup s.checks) <= MaxWork
  /\ \A w, v \in s.loads \cup s.checks : w.n = v.n => w = v
  /\ \A w \in s.loads, c \in s.checks : w.n # c.n
  /\ \A w \in s.loads \cup s.checks : w.pv \in DOMAIN s.pvs
  /\ \A id \in DOMAIN s.pvs : s.pvs[id].ref = Holders(s, id) + One(s.pvs[id].cached) + One(id \in owed)

\* The cache has the Previews made since it was last dropped, and so do timers and loads.
Current(s, e) ==
  /\ \A id \in DOMAIN s.pvs : id[2] <= e /\ (s.pvs[id].cached <=> id[2] = e)
  /\ \A id \in s.timers : id[2] = e
  /\ \A w \in s.loads : ~w.cancelled => w.pv[2] = e

Drawn(s, e, l) ==
  /\ \A w \in s.loads :
       /\ ~w.cancelled => (w.child = "none" <=> l)
       /\ w.done => /\ w.child # "runs"
                    /\ w.kind = IF w.child = "gone" /\ w.pv[1] \in Images THEN "image" ELSE "text"
  /\ \A id \in DOMAIN s.pvs :
       /\ s.pvs[id].draws = s.pvs[id].holds
       /\ s.pvs[id].draws = "image" => id[1] \in Images /\ (id[2] = e => ~l)

Under(s, f) == {w \in s.loads : w.pv[1] = f /\ ~w.cancelled}

\* Nothing has read more than there is, and loads that no change came between what there is.
Read(s, dk) ==
  /\ \A id \in DOMAIN s.pvs : s.pvs[id].mtime <= dk[id[1]] /\ s.pvs[id].content <= dk[id[1]]
  /\ \A w \in s.loads :
       /\ w.from <= dk[w.pv[1]] 
       /\ w.mtime # None => w.mtime <= dk[w.pv[1]]
       /\ w.child = "gone" \/ w.done => w.content \in 0..dk[w.pv[1]]
       /\ w.done => w.mtime \in 0..dk[w.pv[1]]
       /\ ~w.cancelled /\ w.pv[1] \notin s.raced =>
            /\ w.height = s.rows /\ w.from = dk[w.pv[1]]
            /\ w.mtime # None \/ w.done => w.mtime = dk[w.pv[1]]
            /\ w.child = "gone" \/ w.done => w.content = dk[w.pv[1]]

Noticed(s, id, dk) ==
  \/ s.pvs[id].content = dk[id[1]]
  \/ Under(s, id[1]) # {}
  \/ \E c \in s.checks : c.pv = id /\ (c.done \/ c.mtime < dk[id[1]])
  \/ id \in s.timers
  \/ s.pvs[id].requested

Waits(s, e, l, dk) ==
  \A id \in DOMAIN s.pvs :
    id[2] = e =>
      /\ s.pvs[id].status = "loaded" /\ s.pvs[id].loading => Under(s, id[1]) # {}
      /\ id[1] \notin s.raced => Under(s, id[1]) # {} \/ s.pvs[id].mtime = s.pvs[id].content
      /\ id[1] \in s.looked \ s.raced /\ ~l /\ s.pvs[id].status = "loaded" => Noticed(s, id, dk)

Screen(s, e, u, h) ==
  /\ u = [preview |-> u.preview, hidden |-> u.hidden, cursor |-> u.cursor, resting |-> u.resting]
  /\ u.cursor \in Files \cup {None} /\ u.resting \in BOOLEAN /\ u.hidden = u.resting
  /\ u.preview # None =>
       /\ u.cursor \in Files /\ u.preview = <<u.cursor, e>> /\ u.preview \in DOMAIN s.pvs
       /\ u.hidden => u.cursor \in h
       /\ ~u.hidden => s.pvs[u.preview].status = "loaded"
       /\ u.cursor \notin h \cup s.raced =>
            Under(s, u.cursor) # {} \/ s.pvs[u.preview].height >= s.rows

\* The screen is as right after a step from s to t as it was before.
Keeps(s, t, e) ==
  /\ t.rows = s.rows
  /\ \A id \in DOMAIN s.pvs :
       id[2] = e =>
         /\ id \in DOMAIN t.pvs
         /\ s.pvs[id].status = "loaded" => t.pvs[id].status = "loaded"
         /\ \/ id[1] \in t.raced
            \/ Under(t, id[1]) # {}
            \/ t.pvs[id].height >= t.rows
            \/ id[1] \notin s.raced /\ Under(s, id[1]) = {} /\ s.pvs[id].height = t.pvs[id].height

Epoch == IF Running THEN drops ELSE drops + 1

Good(s, owed, e, l, dk) == /\ Shape(s) /\ Counted(s, owed) /\ Current(s, e) /\ Drawn(s, e, l)
                           /\ Read(s, dk) /\ Waits(s, e, l, dk)

Rest ==
  /\ disk \in [Files -> 1..MaxChanges] /\ lua \in BOOLEAN /\ drops \in 0..MaxDrops
  /\ phase \in {"running", "stopping", "stopped"}
Ended ==
  /\ ~Running => /\ timers = {} /\ ui.preview = None
                 /\ \A id \in DOMAIN pvs : ~pvs[id].cached
                 /\ \A w \in loads : w.cancelled
  /\ phase = "stopped" => loads = {} /\ checks = {} /\ DOMAIN pvs = {}

PInv == Rest /\ Good(State, {}, Epoch, lua, disk) /\ Screen(State, Epoch, ui, hurried) /\ Ended

-----------------------------------------------------------------------------
(* Loads and checks that hold a reference *)

Share(S, id) == {w \in S : w.pv = id}

LEMMA ShareAdd ==
  ASSUME NEW S, IsFiniteSet(S), NEW w, w \notin S, NEW id
  PROVE  /\ Cardinality(Share(S, id)) \in Nat
         /\ Cardinality(Share(S \cup {w}, id)) = Cardinality(Share(S, id)) + One(w.pv = id)
<1>1. IsFiniteSet(Share(S, id)) /\ Cardinality(Share(S, id)) \in Nat
  BY FS_Subset, FS_CardinalityType DEF Share
<1>2. CASE w.pv = id
  <2>1. Share(S \cup {w}, id) = Share(S, id) \cup {w} /\ w \notin Share(S, id)
    BY <1>2 DEF Share
  <2> QED
    BY <1>1, <1>2, <2>1, FS_AddElement DEF One
<1>3. CASE w.pv # id
  <2>1. Share(S \cup {w}, id) = Share(S, id)
    BY <1>3 DEF Share
  <2> QED
    BY <1>1, <1>3, <2>1 DEF One
<1> QED
  BY <1>1, <1>2, <1>3

LEMMA ShareRemove ==
  ASSUME NEW S, IsFiniteSet(S), NEW w \in S, NEW id
  PROVE  /\ Cardinality(Share(S \ {w}, id)) \in Nat
         /\ Cardinality(Share(S, id)) = Cardinality(Share(S \ {w}, id)) + One(w.pv = id)
<1>1. (S \ {w}) \cup {w} = S /\ w \notin S \ {w}
  OBVIOUS
<1>2. IsFiniteSet(S \ {w})
  BY FS_RemoveElement
<1> QED
  BY <1>1, <1>2, ShareAdd

\* With one of another number in its place, a set is as large.
LEMMA ShareReplace ==
  ASSUME NEW S, IsFiniteSet(S), NEW w \in S, NEW v, v \notin S \ {w}, v.pv = w.pv, NEW id
  PROVE  Cardinality(Share((S \ {w}) \cup {v}, id)) = Cardinality(Share(S, id))
<1>1. IsFiniteSet(S \ {w})
  BY FS_RemoveElement
<1> QED
  BY <1>1, ShareAdd, ShareRemove

LEMMA HoldersShare ==
  ASSUME NEW s, NEW id
  PROVE  Holders(s, id) = Cardinality(Share(s.loads \cup s.checks, id))
BY DEF Holders, Share

\* A work more, with a number of its own, and a reference for it
LEMMA CountedAdd ==
  ASSUME NEW s, NEW t, NEW owed, NEW w, Counted(s, owed), MaxWork \in Nat,
         Cardinality(s.loads \cup s.checks) < MaxWork,
         \/ t.loads = s.loads \cup {w} /\ t.checks = s.checks
         \/ t.loads = s.loads /\ t.checks = s.checks \cup {w},
         \A v \in s.loads \cup s.checks : v.n # w.n,
         w.pv \in DOMAIN s.pvs, DOMAIN t.pvs = DOMAIN s.pvs,
         \A i \in DOMAIN s.pvs : /\ t.pvs[i].cached = s.pvs[i].cached
                                 /\ t.pvs[i].ref = s.pvs[i].ref + One(w.pv = i)
  PROVE  Counted(t, owed)
<1>1. PICK S : S = s.loads \cup s.checks
  OBVIOUS
<1>2. IsFiniteSet(S) /\ w \notin S /\ t.loads \cup t.checks = S \cup {w}
  BY <1>1 DEF Counted
<1>3. IsFiniteSet(S \cup {w}) /\ Cardinality(S \cup {w}) = Cardinality(S) + 1
      /\ Cardinality(S) \in Nat
  BY <1>2, FS_AddElement, FS_CardinalityType
<1>4. Cardinality(t.loads \cup t.checks) <= MaxWork /\ IsFiniteSet(t.loads \cup t.checks)
  <2>1. Cardinality(S) < MaxWork
    BY <1>1
  <2>2. Cardinality(S \cup {w}) <= MaxWork
    BY <1>3, <2>1
  <2> QED
    BY <1>2, <1>3, <2>2, Zenon
<1>5. ASSUME NEW i \in DOMAIN t.pvs
      PROVE  t.pvs[i].ref = Holders(t, i) + One(t.pvs[i].cached) + One(i \in owed)
  <2>1. Holders(s, i) = Cardinality(Share(S, i)) /\ Holders(t, i) = Cardinality(Share(S \cup {w}, i))
    BY <1>1, <1>2, HoldersShare
  <2>2. Holders(t, i) = Holders(s, i) + One(w.pv = i) /\ Holders(s, i) \in Nat
    BY <1>2, <2>1, ShareAdd
  <2>3. s.pvs[i].ref = Holders(s, i) + One(s.pvs[i].cached) + One(i \in owed)
    BY <1>5 DEF Counted
  <2> QED
    BY <1>5, <2>2, <2>3 DEF One
<1>6. \A v \in t.loads, c \in t.checks : v.n # c.n
  BY DEF Counted
<1>7. \A v, c \in t.loads \cup t.checks : v.n = c.n => v = c
  BY <1>1, <1>2 DEF Counted
<1>8. \A v \in t.loads \cup t.checks : v.pv \in DOMAIN t.pvs
  BY <1>1, <1>2 DEF Counted
<1> QED
  BY <1>4, <1>5, <1>6, <1>7, <1>8 DEF Counted

\* A work less, to whose Preview a reference is due
LEMMA CountedRemove ==
  ASSUME NEW s, NEW t, NEW w \in s.loads \cup s.checks, Counted(s, {}), MaxWork \in Nat,
         \/ t.loads = s.loads \ {w} /\ t.checks = s.checks /\ w \in s.loads
         \/ t.loads = s.loads /\ t.checks = s.checks \ {w} /\ w \in s.checks,
         DOMAIN t.pvs = DOMAIN s.pvs,
         \A i \in DOMAIN s.pvs : /\ t.pvs[i].cached = s.pvs[i].cached
                                 /\ t.pvs[i].ref = s.pvs[i].ref
  PROVE  /\ Counted(t, {w.pv})
         /\ Cardinality(t.loads \cup t.checks) < MaxWork
<1>1. PICK S : S = s.loads \cup s.checks
  OBVIOUS
<1>2. IsFiniteSet(S) /\ w \in S /\ t.loads \cup t.checks = S \ {w}
  BY <1>1 DEF Counted
<1>3. IsFiniteSet(S \ {w}) /\ Cardinality(S \ {w}) = Cardinality(S) - 1
      /\ Cardinality(S) \in Nat
  BY <1>2, FS_RemoveElement, FS_CardinalityType
<1>4. Cardinality(t.loads \cup t.checks) < MaxWork /\ IsFiniteSet(t.loads \cup t.checks)
  <2>1. Cardinality(S) <= MaxWork
    BY <1>1 DEF Counted
  <2>2. Cardinality(S \ {w}) < MaxWork
    BY <1>3, <2>1
  <2> QED
    BY <1>2, <1>3, <2>2, Zenon
<1>5. ASSUME NEW i \in DOMAIN t.pvs
      PROVE  t.pvs[i].ref = Holders(t, i) + One(t.pvs[i].cached) + One(i \in {w.pv})
  <2>1. Holders(s, i) = Cardinality(Share(S, i)) /\ Holders(t, i) = Cardinality(Share(S \ {w}, i))
    BY <1>1, <1>2, HoldersShare
  <2>2. Holders(s, i) = Holders(t, i) + One(w.pv = i) /\ Holders(t, i) \in Nat
    BY <1>2, <2>1, ShareRemove
  <2>3. s.pvs[i].ref = Holders(s, i) + One(s.pvs[i].cached) + One(i \in {})
    BY <1>5 DEF Counted
  <2> QED
    BY <1>5, <2>2, <2>3 DEF One
<1>6. Cardinality(t.loads \cup t.checks) <= MaxWork
  <2>1. Cardinality(t.loads \cup t.checks) \in Nat
    BY <1>4, FS_CardinalityType
  <2> QED
    BY <1>4, <2>1
<1>7. \A v \in t.loads, c \in t.checks : v.n # c.n
  BY DEF Counted
<1>8. \A v, c \in t.loads \cup t.checks : v.n = c.n => v = c
  BY <1>1, <1>2 DEF Counted
<1>9. \A v \in t.loads \cup t.checks : v.pv \in DOMAIN t.pvs
  BY <1>1, <1>2 DEF Counted
<1> QED
  BY <1>4, <1>5, <1>6, <1>7, <1>8, <1>9 DEF Counted

\* One work in another's place, with its number
LEMMA CountedReplace ==
  ASSUME NEW s, NEW t, NEW w, NEW v, Counted(s, {}),
         \/ t.loads = (s.loads \ {w}) \cup {v} /\ t.checks = s.checks /\ w \in s.loads
         \/ t.loads = s.loads /\ t.checks = (s.checks \ {w}) \cup {v} /\ w \in s.checks,
         v.pv = w.pv, v.n = w.n, t.pvs = s.pvs
  PROVE  Counted(t, {})
<1>1. PICK S : S = s.loads \cup s.checks
  OBVIOUS
<1>2. IsFiniteSet(S) /\ w \in S /\ t.loads \cup t.checks = (S \ {w}) \cup {v}
  BY <1>1 DEF Counted
<1>3. v \notin S \ {w}
  BY <1>1, <1>2 DEF Counted
<1>4. IsFiniteSet((S \ {w}) \cup {v}) /\ Cardinality((S \ {w}) \cup {v}) = Cardinality(S)
  <2>1. IsFiniteSet(S \ {w}) /\ Cardinality(S \ {w}) = Cardinality(S) - 1
        /\ Cardinality(S) \in Nat
    BY <1>2, FS_RemoveElement, FS_CardinalityType
  <2> QED
    BY <1>3, <2>1, FS_AddElement
<1>5. Cardinality(t.loads \cup t.checks) <= MaxWork /\ IsFiniteSet(t.loads \cup t.checks)
  <2>1. Cardinality(S) <= MaxWork
    BY <1>1 DEF Counted
  <2> QED
    BY <1>2, <1>4, <2>1
<1>6. ASSUME NEW i \in DOMAIN t.pvs
      PROVE  t.pvs[i].ref = Holders(t, i) + One(t.pvs[i].cached) + One(i \in {})
  <2>1. /\ Holders(s, i) = Cardinality(Share(S, i))
        /\ Holders(t, i) = Cardinality(Share((S \ {w}) \cup {v}, i))
    BY <1>1, <1>2, HoldersShare
  <2>2. Holders(s, i) = Holders(t, i)
    BY <1>2, <1>3, <2>1, ShareReplace
  <2> QED
    BY <1>6, <2>2 DEF Counted
<1>7. \A x \in t.loads, c \in t.checks : x.n # c.n
  BY DEF Counted
<1>8. \A x, c \in t.loads \cup t.checks : x.n = c.n => x = c
  BY <1>1, <1>2 DEF Counted
<1>9. \A x \in t.loads \cup t.checks : x.pv \in DOMAIN t.pvs
  BY <1>1, <1>2 DEF Counted
<1> QED
  BY <1>5, <1>6, <1>7, <1>8, <1>9 DEF Counted

\* A number is left as long as there is room.
LEMMA RoomForOne ==
  ASSUME NEW s, NEW owed, Counted(s, owed), MaxWork \in Nat
  PROVE  /\ Unused(s) \in 0..MaxWork
         /\ \A w \in s.loads \cup s.checks : w.n # Unused(s)
<1> DEFINE S == s.loads \cup s.checks
           f == [w \in S |-> w.n]
           T == {f[w] : w \in S}
<1>1. IsFiniteSet(S) /\ Cardinality(S) \in Nat /\ Cardinality(S) <= MaxWork
  BY FS_CardinalityType DEF Counted
<1>2. f \in Surjection(S, T)
  BY DEF Surjection
<1>3. IsFiniteSet(T) /\ Cardinality(T) <= Cardinality(S)
  BY <1>1, <1>2, FS_Surjection
<1>4. \E n \in 0..MaxWork : n \notin T
  <2> SUFFICES ASSUME 0..MaxWork \subseteq T PROVE FALSE
    OBVIOUS
  <2>1. Cardinality(0..MaxWork) = MaxWork + 1
    BY FS_Interval
  <2>2. Cardinality(0..MaxWork) <= Cardinality(T) /\ Cardinality(T) \in Nat
    BY <1>3, FS_Subset, FS_CardinalityType
  <2> QED
    BY <1>1, <1>3, <2>1, <2>2
<1>5. \E n \in 0..MaxWork : \A w \in s.loads \cup s.checks : w.n # n
  BY <1>4
<1> QED
  BY <1>5 DEF Unused

-----------------------------------------------------------------------------
(* Loads *)

\* The work w that a load adds, and what it makes of its Preview
LoadMakes(s, id, l, w, p) ==
  /\ w \in LoadRec /\ w.pv = id /\ ~w.done /\ ~w.cancelled /\ w.height = s.rows
  /\ w.mtime = None /\ w.from = disk[id[1]] /\ (w.child = "none" <=> l)
  /\ w.child # "gone"
  /\ \A v \in s.loads \cup s.checks : v.n # w.n
  /\ p \in PreviewRec /\ p.status = "loaded" /\ p.ref = s.pvs[id].ref + 1
  /\ p.cached = s.pvs[id].cached /\ p.height = s.pvs[id].height
  /\ p.mtime = s.pvs[id].mtime /\ p.content = s.pvs[id].content
  /\ p.draws = s.pvs[id].draws /\ p.holds = s.pvs[id].holds
  /\ p.requested = s.pvs[id].requested
  /\ LoadWith(s, id, l) =
       [pvs |-> [s.pvs EXCEPT ![id] = p], timers |-> s.timers, loads |-> s.loads \cup {w},
        checks |-> s.checks, rows |-> s.rows,
        raced |-> IF Under(s, id[1]) # {} THEN s.raced ELSE s.raced \ {id[1]},
        looked |-> s.looked \cup {id[1]}]

LEMMA LoadFields ==
  ASSUME NEW s, NEW owed, Shape(s), Counted(s, owed), NEW id \in DOMAIN s.pvs, NEW l \in BOOLEAN,
         disk \in [Files -> Nat], MaxWork \in Nat
  PROVE  \E w, p : LoadMakes(s, id, l, w, p)
<1>1. PICK n : n = Unused(s) /\ n \in 0..MaxWork /\ \A w \in s.loads \cup s.checks : w.n # n
  BY RoomForOne
<1>2. id \in Files \X Nat /\ s.rows \in 1..Tall /\ s.pvs[id] \in PreviewRec /\ disk[id[1]] \in Nat
  BY DEF Shape
<1>3. PICK w : w = [pv |-> id, n |-> n, height |-> s.rows, mtime |-> None,
                    from |-> disk[id[1]], content |-> None, kind |-> None,
                    child |-> IF l THEN "none" ELSE "runs", sem |-> FALSE,
                    done |-> FALSE, cancelled |-> FALSE]
  OBVIOUS
<1>4. w \in LoadRec
  BY <1>1, <1>2, <1>3 DEF LoadRec
<1>5. PICK p : p = [s.pvs[id] EXCEPT !.status = "loaded", !.loading = TRUE, !.ref = @ + 1]
  OBVIOUS
<1>6. PICK q : q = s.pvs[id]
  OBVIOUS
<1>7. p = [ref |-> q.ref + 1, cached |-> q.cached, status |-> "loaded", loading |-> TRUE,
           height |-> q.height, mtime |-> q.mtime, content |-> q.content, draws |-> q.draws,
           holds |-> q.holds, in_progress |-> q.in_progress, requested |-> q.requested]
  <2>1. q = [ref |-> q.ref, cached |-> q.cached, status |-> q.status, loading |-> q.loading,
             height |-> q.height, mtime |-> q.mtime, content |-> q.content, draws |-> q.draws,
             holds |-> q.holds, in_progress |-> q.in_progress, requested |-> q.requested]
    BY <1>2, <1>6 DEF PreviewRec
  <2> QED
    BY <1>5, <1>6, <2>1
<1>8. Under(s, id[1]) # {} <=> \E v \in s.loads : v.pv[1] = id[1] /\ ~v.cancelled
  BY DEF Under
<1>9. LoadWith(s, id, l) =
        [pvs |-> [s.pvs EXCEPT ![id] = p], timers |-> s.timers, loads |-> s.loads \cup {w},
         checks |-> s.checks, rows |-> s.rows,
         raced |-> IF Under(s, id[1]) # {} THEN s.raced ELSE s.raced \ {id[1]},
         looked |-> s.looked \cup {id[1]}]
  <2>1. LoadWith(s, id, l) =
        [s EXCEPT !.pvs[id] = [s.pvs[id] EXCEPT !.status = "loaded", !.loading = TRUE, !.ref = @ + 1],
                  !.loads = s.loads \cup {[pv |-> id, n |-> Unused(s), height |-> s.rows, mtime |-> None,
                    from |-> disk[id[1]], content |-> None, kind |-> None,
                    child |-> IF l THEN "none" ELSE "runs", sem |-> FALSE,
                    done |-> FALSE, cancelled |-> FALSE]},
                  !.raced = IF \E v \in s.loads : v.pv[1] = id[1] /\ ~v.cancelled THEN s.raced
                            ELSE s.raced \ {id[1]},
                  !.looked = s.looked \cup {id[1]}]
    BY DEF LoadWith, Rows
  <2>2. LoadWith(s, id, l) =
        [s EXCEPT !.pvs[id] = p, !.loads = s.loads \cup {w},
                  !.raced = IF \E v \in s.loads : v.pv[1] = id[1] /\ ~v.cancelled THEN s.raced
                            ELSE s.raced \ {id[1]},
                  !.looked = s.looked \cup {id[1]}]
    BY <1>1, <1>3, <1>5, <2>1
  <2>3. s = [pvs |-> s.pvs, timers |-> s.timers, loads |-> s.loads, checks |-> s.checks,
             rows |-> s.rows, raced |-> s.raced, looked |-> s.looked]
    BY DEF Shape
  <2> QED
    BY <1>8, <2>2, <2>3
<1>10. /\ w.pv = id /\ ~w.done /\ ~w.cancelled /\ w.height = s.rows
       /\ w.mtime = None /\ w.from = disk[id[1]] /\ (w.child = "none" <=> l)
       /\ w.child # "gone" /\ w.n = n
  BY <1>3
<1>11. /\ p \in PreviewRec /\ p.status = "loaded" /\ p.ref = q.ref + 1
       /\ p.cached = q.cached /\ p.height = q.height /\ p.mtime = q.mtime
       /\ p.content = q.content /\ p.draws = q.draws /\ p.holds = q.holds
       /\ p.requested = q.requested
  BY <1>2, <1>6, <1>7 DEF PreviewRec
<1> WITNESS w, p
<1> QED
  BY <1>1, <1>4, <1>6, <1>9, <1>10, <1>11 DEF LoadMakes

\* There is room for a load or check of a Preview of the cache.
Takes(s, owed, e, l, id) ==
  /\ Good(s, owed, e, l, disk) /\ id \in DOMAIN s.pvs /\ id[2] = e /\ l \in BOOLEAN
  /\ disk \in [Files -> Nat] /\ MaxWork \in Nat
  /\ Cardinality(s.loads \cup s.checks) < MaxWork

LEMMA LoadGood ==
  ASSUME NEW s, NEW owed, NEW e, NEW l, NEW id, Takes(s, owed, e, l, id),
         NEW t, t = LoadWith(s, id, l)
  PROVE  /\ Good(t, owed, e, l, disk) /\ Keeps(s, t, e)
         /\ DOMAIN t.pvs = DOMAIN s.pvs /\ t.pvs[id].status = "loaded"
         /\ t.pvs[id].cached = s.pvs[id].cached
         /\ Under(t, id[1]) # {} /\ t.timers = s.timers /\ t.rows = s.rows
<1>a. /\ Good(s, owed, e, l, disk) /\ id \in DOMAIN s.pvs /\ id[2] = e /\ l \in BOOLEAN
      /\ disk \in [Files -> Nat] /\ MaxWork \in Nat
      /\ Cardinality(s.loads \cup s.checks) < MaxWork
  BY DEF Takes
<1> USE <1>a
<1>1. Shape(s) /\ Counted(s, owed) /\ Current(s, e) /\ Drawn(s, e, l) /\ Read(s, disk)
      /\ Waits(s, e, l, disk)
  BY DEF Good
<1>0. PICK w, p : LoadMakes(s, id, l, w, p)
  BY <1>1, LoadFields
<1>2. /\ w \in LoadRec /\ w.pv = id /\ ~w.done /\ ~w.cancelled /\ w.height = s.rows
      /\ w.mtime = None /\ w.from = disk[id[1]] /\ (w.child = "none" <=> l)
      /\ w.child # "gone"
      /\ \A v \in s.loads \cup s.checks : v.n # w.n
      /\ p \in PreviewRec /\ p.status = "loaded" /\ p.ref = s.pvs[id].ref + 1
      /\ p.cached = s.pvs[id].cached /\ p.height = s.pvs[id].height
      /\ p.mtime = s.pvs[id].mtime /\ p.content = s.pvs[id].content
      /\ p.draws = s.pvs[id].draws /\ p.holds = s.pvs[id].holds
      /\ p.requested = s.pvs[id].requested
      /\ LoadWith(s, id, l) =
           [pvs |-> [s.pvs EXCEPT ![id] = p], timers |-> s.timers, loads |-> s.loads \cup {w},
            checks |-> s.checks, rows |-> s.rows,
            raced |-> IF Under(s, id[1]) # {} THEN s.raced ELSE s.raced \ {id[1]},
            looked |-> s.looked \cup {id[1]}]
  BY <1>0 DEF LoadMakes
<1>4. /\ t = [pvs |-> t.pvs, timers |-> t.timers, loads |-> t.loads, checks |-> t.checks,
              rows |-> t.rows, raced |-> t.raced, looked |-> t.looked]
      /\ t.pvs = [s.pvs EXCEPT ![id] = p] /\ t.timers = s.timers /\ t.loads = s.loads \cup {w}
      /\ t.checks = s.checks /\ t.rows = s.rows
      /\ t.raced = IF Under(s, id[1]) # {} THEN s.raced ELSE s.raced \ {id[1]}
      /\ t.looked = s.looked \cup {id[1]}
  BY <1>2
<1>5. /\ DOMAIN t.pvs = DOMAIN s.pvs /\ t.pvs[id] = p
      /\ \A i \in DOMAIN s.pvs : i # id => t.pvs[i] = s.pvs[i]
  BY <1>4
<1>6. Shape(t)
  BY <1>1, <1>2, <1>4, <1>5 DEF Shape
<1>7. Counted(t, owed)
  <2>1. \A i \in DOMAIN s.pvs : /\ t.pvs[i].cached = s.pvs[i].cached
                                /\ t.pvs[i].ref = s.pvs[i].ref + One(w.pv = i)
    <3> TAKE i \in DOMAIN s.pvs
    <3>1. s.pvs[i].ref \in Nat
      BY <1>1 DEF Shape, PreviewRec
    <3> QED
      BY <1>2, <1>5, <3>1 DEF One
  <2> QED
    BY <1>1, <1>2, <1>4, <1>5, <2>1, CountedAdd, SMTT(30)
<1>8. Current(t, e)
  BY <1>1, <1>2, <1>4, <1>5 DEF Current
<1>9. Drawn(t, e, l)
  BY <1>1, <1>2, <1>4, <1>5 DEF Drawn
<1>10. /\ Under(t, id[1]) # {}
       /\ \A f : f # id[1] => Under(t, f) = Under(s, f) /\ (f \in t.raced <=> f \in s.raced)
  BY <1>2, <1>4 DEF Under
<1>11. Read(t, disk)
  <2>1. id \in Files \X Nat /\ disk[id[1]] \in Nat
    BY <1>1 DEF Shape
  <2>2. \A v \in s.loads : ~v.cancelled /\ v.pv[1] \notin t.raced => v.pv[1] \notin s.raced
    BY <1>4 DEF Under
  <2> QED
    BY <1>1, <1>2, <1>4, <1>5, <2>1, <2>2 DEF Read
<1>12. Waits(t, e, l, disk)
  <2> SUFFICES ASSUME NEW i \in DOMAIN t.pvs, i[2] = e
               PROVE  /\ t.pvs[i].status = "loaded" /\ t.pvs[i].loading => Under(t, i[1]) # {}
                      /\ i[1] \notin t.raced =>
                           Under(t, i[1]) # {} \/ t.pvs[i].mtime = t.pvs[i].content
                      /\ i[1] \in t.looked \ t.raced /\ ~l /\ t.pvs[i].status = "loaded" =>
                           Noticed(t, i, disk)
    BY DEF Waits
  <2>1. CASE i[1] = id[1]
    BY <1>10, <2>1 DEF Noticed
  <2>2. CASE i[1] # id[1]
    <3>1. i # id /\ t.pvs[i] = s.pvs[i] /\ i \in DOMAIN s.pvs
      BY <1>5, <2>2
    <3>2. (i[1] \in t.looked <=> i[1] \in s.looked) /\ (i[1] \in t.raced <=> i[1] \in s.raced)
          /\ Under(t, i[1]) = Under(s, i[1])
      BY <1>4, <1>10, <2>2
    <3>3. Noticed(s, i, disk) => Noticed(t, i, disk)
      BY <1>4, <3>1, <3>2 DEF Noticed
    <3> QED
      BY <1>1, <3>1, <3>2, <3>3 DEF Waits
  <2> QED
    BY <2>1, <2>2
<1>13. Keeps(s, t, e)
  BY <1>2, <1>4, <1>5, <1>10, ZenonT(60) DEF Keeps
<1>14. Good(t, owed, e, l, disk)
  BY <1>6, <1>7, <1>8, <1>9, <1>11, <1>12 DEF Good
<1> QED
  BY <1>2, <1>4, <1>5, <1>10, <1>13, <1>14

-----------------------------------------------------------------------------
(* Checks *)

LEMMA CheckFields ==
  ASSUME NEW s, NEW owed, Shape(s), Counted(s, owed), NEW id \in DOMAIN s.pvs, MaxWork \in Nat
  PROVE  \E c, p :
           /\ c \in CheckRec /\ c.pv = id /\ ~c.done /\ c.mtime = s.pvs[id].mtime
           /\ \A v \in s.loads \cup s.checks : v.n # c.n
           /\ p \in PreviewRec /\ p.ref = s.pvs[id].ref + 1
           /\ p.status = s.pvs[id].status /\ p.loading = s.pvs[id].loading
           /\ p.cached = s.pvs[id].cached /\ p.height = s.pvs[id].height
           /\ p.mtime = s.pvs[id].mtime /\ p.content = s.pvs[id].content
           /\ p.draws = s.pvs[id].draws /\ p.holds = s.pvs[id].holds
           /\ p.requested = s.pvs[id].requested
           /\ Check(s, id) =
                [pvs |-> [s.pvs EXCEPT ![id] = p], timers |-> s.timers, loads |-> s.loads,
                 checks |-> s.checks \cup {c}, rows |-> s.rows, raced |-> s.raced,
                 looked |-> s.looked \cup {id[1]}]
<1>1. PICK n : n = Unused(s) /\ n \in 0..MaxWork /\ \A w \in s.loads \cup s.checks : w.n # n
  BY RoomForOne
<1>2. id \in Files \X Nat /\ s.pvs[id] \in PreviewRec
  BY DEF Shape
<1>3. PICK c : c = [pv |-> id, n |-> n, mtime |-> s.pvs[id].mtime, done |-> FALSE]
  OBVIOUS
<1>4. c \in CheckRec
  BY <1>1, <1>2, <1>3 DEF CheckRec, PreviewRec
<1>5. PICK p : p = [s.pvs[id] EXCEPT !.ref = @ + 1]
  OBVIOUS
<1>6. p \in PreviewRec
  BY <1>2, <1>5 DEF PreviewRec
<1>7. /\ p.ref = s.pvs[id].ref + 1
      /\ p.status = s.pvs[id].status /\ p.loading = s.pvs[id].loading
      /\ p.cached = s.pvs[id].cached /\ p.height = s.pvs[id].height
      /\ p.mtime = s.pvs[id].mtime /\ p.content = s.pvs[id].content
      /\ p.draws = s.pvs[id].draws /\ p.holds = s.pvs[id].holds
      /\ p.requested = s.pvs[id].requested
  BY <1>2, <1>5 DEF PreviewRec
<1>8. Check(s, id) =
        [pvs |-> [s.pvs EXCEPT ![id] = p], timers |-> s.timers, loads |-> s.loads,
         checks |-> s.checks \cup {c}, rows |-> s.rows, raced |-> s.raced,
         looked |-> s.looked \cup {id[1]}]
  <2>1. Check(s, id) =
        [s EXCEPT !.pvs[id].ref = s.pvs[id].ref + 1,
                  !.checks = s.checks \cup {[pv |-> id, n |-> Unused(s), mtime |-> s.pvs[id].mtime,
                                             done |-> FALSE]},
                  !.looked = s.looked \cup {id[1]}]
    BY DEF Check
  <2>2. Check(s, id) =
        [s EXCEPT !.pvs[id] = p, !.checks = s.checks \cup {c}, !.looked = s.looked \cup {id[1]}]
    BY <1>1, <1>3, <1>5, <2>1
  <2>3. s = [pvs |-> s.pvs, timers |-> s.timers, loads |-> s.loads, checks |-> s.checks,
             rows |-> s.rows, raced |-> s.raced, looked |-> s.looked]
    BY DEF Shape
  <2> QED
    BY <2>2, <2>3
<1>9. c.pv = id /\ ~c.done /\ c.mtime = s.pvs[id].mtime /\ c.n = n
  BY <1>3
<1> WITNESS c, p
<1> QED
  BY <1>1, <1>4, <1>6, <1>7, <1>8, <1>9

\* A check notices what is new: the time of what a Preview holds is that of its contents.
LEMMA CheckGood ==
  ASSUME NEW s, NEW owed, NEW e, NEW l, NEW id, Takes(s, owed, e, l, id),
         NEW t, t = Check(s, id)
  PROVE  /\ Good(t, owed, e, l, disk) /\ Keeps(s, t, e)
         /\ DOMAIN t.pvs = DOMAIN s.pvs /\ t.pvs[id].status = s.pvs[id].status
         /\ t.pvs[id].height = s.pvs[id].height /\ t.rows = s.rows
<1>a. /\ Good(s, owed, e, l, disk) /\ id \in DOMAIN s.pvs /\ id[2] = e /\ l \in BOOLEAN
      /\ disk \in [Files -> Nat] /\ MaxWork \in Nat
      /\ Cardinality(s.loads \cup s.checks) < MaxWork
  BY DEF Takes
<1> USE <1>a
<1>1. Shape(s) /\ Counted(s, owed) /\ Current(s, e) /\ Drawn(s, e, l) /\ Read(s, disk)
      /\ Waits(s, e, l, disk)
  BY DEF Good
<1>2. PICK c, p :
           /\ c \in CheckRec /\ c.pv = id /\ ~c.done /\ c.mtime = s.pvs[id].mtime
           /\ \A v \in s.loads \cup s.checks : v.n # c.n
           /\ p \in PreviewRec /\ p.ref = s.pvs[id].ref + 1
           /\ p.status = s.pvs[id].status /\ p.loading = s.pvs[id].loading
           /\ p.cached = s.pvs[id].cached /\ p.height = s.pvs[id].height
           /\ p.mtime = s.pvs[id].mtime /\ p.content = s.pvs[id].content
           /\ p.draws = s.pvs[id].draws /\ p.holds = s.pvs[id].holds
           /\ p.requested = s.pvs[id].requested
           /\ Check(s, id) =
                [pvs |-> [s.pvs EXCEPT ![id] = p], timers |-> s.timers, loads |-> s.loads,
                 checks |-> s.checks \cup {c}, rows |-> s.rows, raced |-> s.raced,
                 looked |-> s.looked \cup {id[1]}]
  BY <1>1, CheckFields, Zenon
<1>4. /\ t = [pvs |-> t.pvs, timers |-> t.timers, loads |-> t.loads, checks |-> t.checks,
              rows |-> t.rows, raced |-> t.raced, looked |-> t.looked]
      /\ t.pvs = [s.pvs EXCEPT ![id] = p] /\ t.timers = s.timers /\ t.loads = s.loads
      /\ t.checks = s.checks \cup {c} /\ t.rows = s.rows /\ t.raced = s.raced
      /\ t.looked = s.looked \cup {id[1]}
  BY <1>2
<1>5. /\ DOMAIN t.pvs = DOMAIN s.pvs /\ t.pvs[id] = p
      /\ \A i \in DOMAIN s.pvs : i # id => t.pvs[i] = s.pvs[i]
  BY <1>4
<1>6. Shape(t)
  BY <1>1, <1>2, <1>4, <1>5 DEF Shape
<1>7. Counted(t, owed)
  <2>1. \A i \in DOMAIN s.pvs : /\ t.pvs[i].cached = s.pvs[i].cached
                                /\ t.pvs[i].ref = s.pvs[i].ref + One(c.pv = i)
    <3> TAKE i \in DOMAIN s.pvs
    <3>1. s.pvs[i].ref \in Nat
      BY <1>1 DEF Shape, PreviewRec
    <3> QED
      BY <1>2, <1>5, <3>1 DEF One
  <2> QED
    BY <1>1, <1>2, <1>4, <1>5, <2>1, CountedAdd, SMTT(30)
<1>8. Current(t, e)
  BY <1>1, <1>2, <1>4, <1>5 DEF Current
<1>9. Drawn(t, e, l)
  BY <1>1, <1>2, <1>4, <1>5 DEF Drawn
<1>10. \A f : Under(t, f) = Under(s, f)
  BY <1>4 DEF Under
<1>11. Read(t, disk)
  BY <1>1, <1>2, <1>4, <1>5 DEF Read
<1>12. Waits(t, e, l, disk)
  <2> SUFFICES ASSUME NEW i \in DOMAIN t.pvs, i[2] = e
               PROVE  /\ t.pvs[i].status = "loaded" /\ t.pvs[i].loading => Under(t, i[1]) # {}
                      /\ i[1] \notin t.raced =>
                           Under(t, i[1]) # {} \/ t.pvs[i].mtime = t.pvs[i].content
                      /\ i[1] \in t.looked \ t.raced /\ ~l /\ t.pvs[i].status = "loaded" =>
                           Noticed(t, i, disk)
    BY DEF Waits
  <2>1. CASE i = id
    <3>1. /\ s.pvs[id].status = "loaded" /\ s.pvs[id].loading => Under(s, id[1]) # {}
          /\ id[1] \notin s.raced => Under(s, id[1]) # {} \/ s.pvs[id].mtime = s.pvs[id].content
      BY <1>1, <2>1 DEF Waits
    <3>2. /\ disk[id[1]] \in Nat /\ s.pvs[id].content \in Nat /\ s.pvs[id].mtime \in Nat
          /\ s.pvs[id].content <= disk[id[1]]
      BY <1>1 DEF Shape, PreviewRec, Read
    <3>3. id[1] \notin t.raced => Noticed(t, id, disk)
      <4> SUFFICES ASSUME id[1] \notin s.raced, Under(s, id[1]) = {},
                          s.pvs[id].content # disk[id[1]]
                   PROVE  \E d \in t.checks : d.pv = id /\ d.mtime < disk[id[1]]
        BY <1>2, <1>4, <1>5, <1>10 DEF Noticed
      <4>1. c \in t.checks /\ c.pv = id /\ c.mtime < disk[id[1]]
        BY <1>2, <1>4, <3>1, <3>2
      <4> QED
        BY <4>1
    <3> QED
      BY <1>2, <1>4, <1>5, <1>10, <2>1, <3>1, <3>3, ZenonT(60)
  <2>2. CASE i # id
    <3>1. i[1] # id[1] /\ t.pvs[i] = s.pvs[i] /\ i \in DOMAIN s.pvs
      BY <1>1, <1>5, <2>2 DEF Shape
    <3>2. (i[1] \in t.looked <=> i[1] \in s.looked) /\ Under(t, i[1]) = Under(s, i[1])
      BY <1>4, <1>10, <3>1
    <3>3. Noticed(s, i, disk) => Noticed(t, i, disk)
      BY <1>4, <3>1, <3>2 DEF Noticed
    <3> QED
      BY <1>1, <1>4, <3>1, <3>2, <3>3 DEF Waits
  <2> QED
    BY <2>1, <2>2
<1>13. Keeps(s, t, e)
  <2> SUFFICES ASSUME NEW i \in DOMAIN s.pvs, i[2] = e
               PROVE  /\ s.pvs[i].status = "loaded" => t.pvs[i].status = "loaded"
                      /\ s.pvs[i].height = t.pvs[i].height
    BY <1>4, <1>5, <1>10 DEF Keeps
  <2> QED
    BY <1>2, <1>5
<1>14. Good(t, owed, e, l, disk)
  BY <1>6, <1>7, <1>8, <1>9, <1>11, <1>12 DEF Good
<1> QED
  BY <1>2, <1>4, <1>5, <1>13, <1>14

-----------------------------------------------------------------------------
(* Previews: made, marked and given back *)

LEMMA CreateGood ==
  ASSUME NEW s, NEW e \in Nat, NEW l, NEW dk, Good(s, {}, e, l, dk), NEW id \in Files \X Nat,
         id \notin DOMAIN s.pvs, id[2] = e, dk \in [Files -> Nat], TallAssumption,
         NEW t, t = [pvs |-> WithCreated(s.pvs, id), timers |-> s.timers, loads |-> s.loads,
                     checks |-> s.checks, rows |-> s.rows, raced |-> s.raced, looked |-> s.looked]
  PROVE  /\ Good(t, {}, e, l, dk) /\ Keeps(s, t, e)
         /\ DOMAIN t.pvs = DOMAIN s.pvs \cup {id} /\ t.pvs[id] = Created
         /\ t.loads = s.loads /\ t.checks = s.checks /\ t.rows = s.rows
         /\ t.raced = s.raced
<1>1. Shape(s) /\ Counted(s, {}) /\ Current(s, e) /\ Drawn(s, e, l) /\ Read(s, dk)
      /\ Waits(s, e, l, dk)
  BY DEF Good
<1>3. PICK f : f = WithCreated(s.pvs, id)
  OBVIOUS
<1>4. /\ DOMAIN f = DOMAIN s.pvs \cup {id} /\ f[id] = Created
      /\ \A i \in DOMAIN s.pvs : f[i] = s.pvs[i]
      /\ f = [i \in DOMAIN f |-> f[i]]
  BY <1>3 DEF WithCreated
<1>5. /\ t = [pvs |-> t.pvs, timers |-> t.timers, loads |-> t.loads, checks |-> t.checks,
              rows |-> t.rows, raced |-> t.raced, looked |-> t.looked]
      /\ t.pvs = f /\ t.timers = s.timers /\ t.loads = s.loads /\ t.checks = s.checks
      /\ t.rows = s.rows /\ t.raced = s.raced /\ t.looked = s.looked
  BY <1>1, <1>3 DEF Shape
<1>6. PICK p : p = Created
  OBVIOUS
<1>7. /\ p \in PreviewRec /\ p.ref = 1 /\ p.cached /\ p.status = "delayed" /\ p.mtime = 0
      /\ p.content = 0 /\ p.draws = "text" /\ p.holds = "text"
  BY <1>6 DEF Created, PreviewRec, TallAssumption
<1>8. Shape(t)
  BY <1>1, <1>4, <1>5, <1>6, <1>7 DEF Shape
<1>9. Counted(t, {})
  <2>1. \A i : Holders(t, i) = Holders(s, i)
    BY <1>5 DEF Holders
  <2>2. Holders(s, id) = 0
    <3>1. Share(s.loads \cup s.checks, id) = {}
      BY <1>1 DEF Counted, Share
    <3> QED
      BY <3>1, HoldersShare, FS_EmptySet
  <2>3. ASSUME NEW i \in DOMAIN t.pvs
        PROVE  t.pvs[i].ref = Holders(t, i) + One(t.pvs[i].cached) + One(i \in {})
    <3>1. CASE i = id
      BY <1>4, <1>5, <1>6, <1>7, <2>1, <2>2, <3>1 DEF One
    <3>2. CASE i # id
      BY <1>1, <1>4, <1>5, <2>1, <2>3, <3>2 DEF Counted
    <3> QED
      BY <3>1, <3>2
  <2>4. IsFiniteSet(t.loads \cup t.checks) /\ Cardinality(t.loads \cup t.checks) <= MaxWork
    BY <1>1, <1>5 DEF Counted
  <2> QED
    BY <1>1, <1>4, <1>5, <2>3, <2>4 DEF Counted
<1>10. Current(t, e)
  BY <1>1, <1>4, <1>5, <1>6, <1>7 DEF Current
<1>11. Drawn(t, e, l)
  BY <1>1, <1>4, <1>5, <1>6, <1>7 DEF Drawn
<1>12. Read(t, dk)
  <2>1. dk[id[1]] \in Nat
    OBVIOUS
  <2>2. \A i \in DOMAIN t.pvs : t.pvs[i].mtime <= dk[i[1]] /\ t.pvs[i].content <= dk[i[1]]
    BY <1>1, <1>4, <1>5, <1>6, <1>7, <2>1 DEF Read
  <2> QED
    BY <1>1, <1>5, <2>2 DEF Read
<1>13. \A f_1 : Under(t, f_1) = Under(s, f_1)
  BY <1>5 DEF Under
<1>14. Waits(t, e, l, dk)
  <2> SUFFICES ASSUME NEW i \in DOMAIN t.pvs, i[2] = e
               PROVE  /\ t.pvs[i].status = "loaded" /\ t.pvs[i].loading => Under(t, i[1]) # {}
                      /\ i[1] \notin t.raced =>
                           Under(t, i[1]) # {} \/ t.pvs[i].mtime = t.pvs[i].content
                      /\ i[1] \in t.looked \ t.raced /\ ~l /\ t.pvs[i].status = "loaded" =>
                           Noticed(t, i, dk)
    BY DEF Waits
  <2>1. CASE i = id
    BY <1>4, <1>5, <1>6, <1>7, <2>1
  <2>2. CASE i # id
    <3>1. t.pvs[i] = s.pvs[i] /\ i \in DOMAIN s.pvs
      BY <1>4, <1>5, <2>2
    <3>2. Noticed(s, i, dk) => Noticed(t, i, dk)
      BY <1>5, <1>13, <3>1 DEF Noticed
    <3> QED
      BY <1>1, <1>5, <1>13, <3>1, <3>2 DEF Waits
  <2> QED
    BY <2>1, <2>2
<1>15. Keeps(s, t, e)
  BY <1>4, <1>5, <1>13 DEF Keeps
<1>16. Good(t, {}, e, l, dk)
  BY <1>8, <1>9, <1>10, <1>11, <1>12, <1>14 DEF Good
<1> QED
  BY <1>4, <1>5, <1>15, <1>16

\* The same Previews and works, but for marks of one and the timers
Marks(s, t, id) ==
  /\ t = [pvs |-> t.pvs, timers |-> t.timers, loads |-> s.loads, checks |-> s.checks,
          rows |-> s.rows, raced |-> s.raced, looked |-> s.looked]
  /\ t.pvs \in [DOMAIN s.pvs -> PreviewRec]
  /\ \A i \in DOMAIN s.pvs : i # id => t.pvs[i] = s.pvs[i]
  /\ t.pvs[id].ref = s.pvs[id].ref /\ t.pvs[id].cached = s.pvs[id].cached
  /\ t.pvs[id].height = s.pvs[id].height /\ t.pvs[id].mtime = s.pvs[id].mtime
  /\ t.pvs[id].content = s.pvs[id].content /\ t.pvs[id].draws = s.pvs[id].draws
  /\ t.pvs[id].holds = s.pvs[id].holds

LEMMA MarkGood ==
  ASSUME NEW s, NEW t, NEW owed, NEW e, NEW l, NEW dk, Good(s, owed, e, l, dk),
         NEW id \in DOMAIN s.pvs, Marks(s, t, id),
         t.timers \subseteq DOMAIN s.pvs, \A i \in t.timers : i[2] = e,
         t.pvs[id].status = "loaded" => s.pvs[id].status = "loaded",
         t.pvs[id].loading /\ t.pvs[id].status = "loaded" =>
           s.pvs[id].loading \/ Under(s, id[1]) # {},
         id \in s.timers \/ s.pvs[id].requested =>
           id \in t.timers \/ t.pvs[id].requested \/ Under(s, id[1]) # {},
         s.timers \ {id} \subseteq t.timers
  PROVE  /\ Good(t, owed, e, l, dk)
         /\ t.pvs[id].status = s.pvs[id].status => Keeps(s, t, e)
<1>1. Shape(s) /\ Counted(s, owed) /\ Current(s, e) /\ Drawn(s, e, l) /\ Read(s, dk)
      /\ Waits(s, e, l, dk)
  BY DEF Good
<1>2. /\ t.loads = s.loads /\ t.checks = s.checks /\ t.rows = s.rows /\ t.raced = s.raced
      /\ t.looked = s.looked /\ DOMAIN t.pvs = DOMAIN s.pvs
      /\ t = [pvs |-> t.pvs, timers |-> t.timers, loads |-> t.loads, checks |-> t.checks,
              rows |-> t.rows, raced |-> t.raced, looked |-> t.looked]
  BY DEF Marks
<1>3. \A i \in DOMAIN s.pvs :
        /\ t.pvs[i].ref = s.pvs[i].ref /\ t.pvs[i].cached = s.pvs[i].cached
        /\ t.pvs[i].height = s.pvs[i].height /\ t.pvs[i].mtime = s.pvs[i].mtime
        /\ t.pvs[i].content = s.pvs[i].content /\ t.pvs[i].draws = s.pvs[i].draws
        /\ t.pvs[i].holds = s.pvs[i].holds
  BY DEF Marks
<1>4. Shape(t)
  BY <1>1, <1>2 DEF Shape, Marks
<1>5. Counted(t, owed)
  <2>1. \A i : Holders(t, i) = Holders(s, i)
    BY <1>2 DEF Holders
  <2>2. IsFiniteSet(t.loads \cup t.checks) /\ Cardinality(t.loads \cup t.checks) <= MaxWork
    BY <1>1, <1>2 DEF Counted
  <2> QED
    BY <1>1, <1>2, <1>3, <2>1, <2>2 DEF Counted
<1>6. Current(t, e)
  BY <1>1, <1>2, <1>3 DEF Current
<1>7. Drawn(t, e, l)
  BY <1>1, <1>2, <1>3 DEF Drawn
<1>8. Read(t, dk)
  BY <1>1, <1>2, <1>3 DEF Read
<1>9. \A f : Under(t, f) = Under(s, f)
  BY <1>2 DEF Under
<1>10. Waits(t, e, l, dk)
  <2> SUFFICES ASSUME NEW i \in DOMAIN t.pvs, i[2] = e
               PROVE  /\ t.pvs[i].status = "loaded" /\ t.pvs[i].loading => Under(t, i[1]) # {}
                      /\ i[1] \notin t.raced =>
                           Under(t, i[1]) # {} \/ t.pvs[i].mtime = t.pvs[i].content
                      /\ i[1] \in t.looked \ t.raced /\ ~l /\ t.pvs[i].status = "loaded" =>
                           Noticed(t, i, dk)
    BY DEF Waits
  <2>1. /\ s.pvs[i].status = "loaded" /\ s.pvs[i].loading => Under(s, i[1]) # {}
        /\ i[1] \notin s.raced => Under(s, i[1]) # {} \/ s.pvs[i].mtime = s.pvs[i].content
        /\ i[1] \in s.looked \ s.raced /\ ~l /\ s.pvs[i].status = "loaded" => Noticed(s, i, dk)
    BY <1>1, <1>2 DEF Waits
  <2>2. t.pvs[i].status = "loaded" => s.pvs[i].status = "loaded"
    BY <1>2 DEF Marks
  <2>3. Noticed(s, i, dk) => Noticed(t, i, dk)
    <3>1. CASE i = id
      BY <1>2, <1>3, <1>9, <3>1 DEF Noticed
    <3>2. CASE i # id
      BY <1>2, <1>9, <3>2 DEF Noticed, Marks
    <3> QED
      BY <3>1, <3>2
  <2>4. t.pvs[i].status = "loaded" /\ t.pvs[i].loading => Under(t, i[1]) # {}
    BY <1>2, <1>9, <2>1 DEF Marks
  <2> QED
    BY <1>2, <1>3, <1>9, <2>1, <2>2, <2>3, <2>4
<1>11. ASSUME t.pvs[id].status = s.pvs[id].status PROVE Keeps(s, t, e)
  <2>1. \A i \in DOMAIN s.pvs : t.pvs[i].status = s.pvs[i].status
    BY <1>11 DEF Marks
  <2> QED
    BY <1>2, <1>3, <1>9, <2>1 DEF Keeps
<1> QED
  BY <1>4, <1>5, <1>6, <1>7, <1>8, <1>10, <1>11 DEF Good

\* A reference given back, of which the Preview may be gone
Released(s, id) == [pvs |-> DecRef(s.pvs, id), timers |-> s.timers, loads |-> s.loads,
                    checks |-> s.checks, rows |-> s.rows, raced |-> s.raced, looked |-> s.looked]

LEMMA DecGood ==
  ASSUME NEW s, NEW e, NEW l, NEW dk, NEW id, Good(s, {id}, e, l, dk), id \in DOMAIN s.pvs,
         NEW t, t = Released(s, id)
  PROVE  Good(t, {}, e, l, dk) /\ Keeps(s, t, e)
<1>1. Shape(s) /\ Counted(s, {id}) /\ Current(s, e) /\ Drawn(s, e, l) /\ Read(s, dk)
      /\ Waits(s, e, l, dk)
  BY DEF Good
<1>3. /\ t = [pvs |-> t.pvs, timers |-> t.timers, loads |-> t.loads, checks |-> t.checks,
              rows |-> t.rows, raced |-> t.raced, looked |-> t.looked]
      /\ t.pvs = DecRef(s.pvs, id) /\ t.timers = s.timers /\ t.loads = s.loads
      /\ t.checks = s.checks /\ t.rows = s.rows /\ t.raced = s.raced /\ t.looked = s.looked
  BY DEF Released
<1>4. s.pvs[id].ref = Holders(s, id) + One(s.pvs[id].cached) + 1 /\ Holders(s, id) \in Nat
  <2>1. Holders(s, id) \in Nat
    BY <1>1, HoldersShare, FS_Subset, FS_CardinalityType DEF Counted, Share
  <2> QED
    BY <1>1, <2>1 DEF Counted, One
<1>5. /\ DOMAIN t.pvs \subseteq DOMAIN s.pvs /\ t.pvs \in [DOMAIN t.pvs -> PreviewRec]
      /\ \A i \in DOMAIN t.pvs :
           /\ t.pvs[i].ref = s.pvs[i].ref - One(i = id) /\ t.pvs[i].cached = s.pvs[i].cached
           /\ t.pvs[i].height = s.pvs[i].height /\ t.pvs[i].mtime = s.pvs[i].mtime
           /\ t.pvs[i].content = s.pvs[i].content /\ t.pvs[i].draws = s.pvs[i].draws
           /\ t.pvs[i].holds = s.pvs[i].holds /\ t.pvs[i].status = s.pvs[i].status
           /\ t.pvs[i].loading = s.pvs[i].loading /\ t.pvs[i].requested = s.pvs[i].requested
      /\ \A i \in DOMAIN s.pvs \ DOMAIN t.pvs :
           i = id /\ Holders(s, i) = 0 /\ ~s.pvs[i].cached
  <2>1. CASE s.pvs[id].ref = 1
    <3>1. t.pvs = [i \in DOMAIN s.pvs \ {id} |-> s.pvs[i]]
      BY <1>3, <2>1 DEF DecRef, Restrict
    <3>2. Holders(s, id) = 0 /\ ~s.pvs[id].cached
      BY <1>4, <2>1 DEF One
    <3>3. \A i \in DOMAIN s.pvs : s.pvs[i] \in PreviewRec /\ s.pvs[i].ref \in Nat
      BY <1>1 DEF Shape, PreviewRec
    <3> QED
      BY <3>1, <3>2, <3>3 DEF One
  <2>2. CASE s.pvs[id].ref # 1
    <3>1. PICK p : p = [s.pvs[id] EXCEPT !.ref = @ - 1]
      OBVIOUS
    <3>2. t.pvs = [s.pvs EXCEPT ![id] = p]
      BY <1>3, <2>2, <3>1 DEF DecRef
    <3>3. \A i \in DOMAIN s.pvs : s.pvs[i] \in PreviewRec /\ s.pvs[i].ref \in Nat
      BY <1>1 DEF Shape, PreviewRec
    <3>4. p \in PreviewRec /\ p.ref = s.pvs[id].ref - 1
      BY <2>2, <3>1, <3>3 DEF PreviewRec
    <3>5. /\ p.cached = s.pvs[id].cached /\ p.height = s.pvs[id].height
          /\ p.mtime = s.pvs[id].mtime /\ p.content = s.pvs[id].content
          /\ p.draws = s.pvs[id].draws /\ p.holds = s.pvs[id].holds
          /\ p.status = s.pvs[id].status /\ p.loading = s.pvs[id].loading
          /\ p.requested = s.pvs[id].requested
      BY <3>1, <3>3 DEF PreviewRec
    <3>6. DOMAIN t.pvs = DOMAIN s.pvs
      BY <3>2
    <3>7. ASSUME NEW i \in DOMAIN s.pvs
          PROVE  /\ t.pvs[i].ref = s.pvs[i].ref - One(i = id) /\ t.pvs[i].cached = s.pvs[i].cached
                 /\ t.pvs[i].height = s.pvs[i].height /\ t.pvs[i].mtime = s.pvs[i].mtime
                 /\ t.pvs[i].content = s.pvs[i].content /\ t.pvs[i].draws = s.pvs[i].draws
                 /\ t.pvs[i].holds = s.pvs[i].holds /\ t.pvs[i].status = s.pvs[i].status
                 /\ t.pvs[i].loading = s.pvs[i].loading
                 /\ t.pvs[i].requested = s.pvs[i].requested
      <4>1. CASE i = id
        BY <3>2, <3>4, <3>5, <4>1 DEF One
      <4>2. CASE i # id
        BY <3>2, <3>3, <4>2 DEF One
      <4> QED
        BY <4>1, <4>2
    <3>8. t.pvs \in [DOMAIN t.pvs -> PreviewRec]
      BY <3>2, <3>3, <3>4
    <3> QED
      BY <3>6, <3>7, <3>8
  <2> QED
    BY <2>1, <2>2
<1>6. \A w \in s.loads \cup s.checks : w.pv \in DOMAIN t.pvs
  <2> SUFFICES ASSUME NEW w \in s.loads \cup s.checks, w.pv \notin DOMAIN t.pvs PROVE FALSE
    OBVIOUS
  <2>1. w.pv \in DOMAIN s.pvs /\ IsFiniteSet(s.loads \cup s.checks)
    BY <1>1 DEF Counted
  <2>2. Cardinality(Share(s.loads \cup s.checks, w.pv)) = 0
    BY <1>5, <2>1, HoldersShare
  <2>3. w \in Share(s.loads \cup s.checks, w.pv)
    BY DEF Share
  <2>4. IsFiniteSet(Share(s.loads \cup s.checks, w.pv))
    BY <2>1, FS_Subset DEF Share
  <2> QED
    BY <2>2, <2>3, <2>4, FS_EmptySet
<1>7. \A i \in s.timers : i \in DOMAIN t.pvs
  BY <1>1, <1>5 DEF Current, Shape
<1>8. Shape(t)
  BY <1>1, <1>3, <1>5, <1>7 DEF Shape
<1>9. Counted(t, {})
  <2>1. \A i : Holders(t, i) = Holders(s, i)
    BY <1>3 DEF Holders
  <2>2. IsFiniteSet(t.loads \cup t.checks) /\ Cardinality(t.loads \cup t.checks) <= MaxWork
    BY <1>1, <1>3 DEF Counted
  <2>3. ASSUME NEW i \in DOMAIN t.pvs
        PROVE  t.pvs[i].ref = Holders(t, i) + One(t.pvs[i].cached) + One(i \in {})
    <3>1. CASE i = id
      BY <1>4, <1>5, <2>1, <3>1 DEF One
    <3>2. CASE i # id
      <4>1. t.pvs[i].ref = s.pvs[i].ref - 0 /\ s.pvs[i].ref \in Nat
        BY <1>1, <1>5, <3>2 DEF One, Shape, PreviewRec
      <4>2. s.pvs[i].ref = Holders(s, i) + One(s.pvs[i].cached) + One(i \in {id})
        BY <1>1, <1>5 DEF Counted
      <4> QED
        BY <1>5, <2>1, <3>2, <4>1, <4>2 DEF One
    <3> QED
      BY <3>1, <3>2
  <2> QED
    BY <1>1, <1>3, <1>6, <2>2, <2>3 DEF Counted
<1>10. Current(t, e)
  BY <1>1, <1>3, <1>5 DEF Current
<1>11. Drawn(t, e, l)
  BY <1>1, <1>3, <1>5 DEF Drawn
<1>12. Read(t, dk)
  BY <1>1, <1>3, <1>5 DEF Read
<1>13. \A f : Under(t, f) = Under(s, f)
  BY <1>3 DEF Under
<1>14. Waits(t, e, l, dk)
  <2> SUFFICES ASSUME NEW i \in DOMAIN t.pvs, i[2] = e
               PROVE  /\ t.pvs[i].status = "loaded" /\ t.pvs[i].loading => Under(t, i[1]) # {}
                      /\ i[1] \notin t.raced =>
                           Under(t, i[1]) # {} \/ t.pvs[i].mtime = t.pvs[i].content
                      /\ i[1] \in t.looked \ t.raced /\ ~l /\ t.pvs[i].status = "loaded" =>
                           Noticed(t, i, dk)
    BY DEF Waits
  <2>1. Noticed(s, i, dk) => Noticed(t, i, dk)
    BY <1>3, <1>5, <1>13 DEF Noticed
  <2> QED
    BY <1>1, <1>3, <1>5, <1>13, <2>1 DEF Waits
<1>15. Keeps(s, t, e)
  <2>1. \A i \in DOMAIN s.pvs : i[2] = e => i \in DOMAIN t.pvs
    BY <1>1, <1>5 DEF Current
  <2> QED
    BY <1>3, <1>5, <1>13, <2>1 DEF Keeps
<1>16. Good(t, {}, e, l, dk)
  BY <1>8, <1>9, <1>10, <1>11, <1>12, <1>14 DEF Good
<1> QED
  BY <1>15, <1>16

-----------------------------------------------------------------------------
(* Results *)

\* The result of a load, which is a reference that is due
Finished(s, w) ==
  [pvs |-> [s.pvs EXCEPT ![w.pv] = Update(@, w)], timers |-> s.timers,
   loads |-> s.loads \ {w}, checks |-> s.checks, rows |-> s.rows,
   raced |-> s.raced, looked |-> s.looked]

LEMMA FinishGood ==
  ASSUME NEW s, NEW t, NEW e, NEW l \in BOOLEAN, NEW dk \in [Files -> Nat], Good(s, {}, e, l, dk),
         NEW w \in s.loads, w.done, ~w.cancelled, MaxWork \in Nat, t = Finished(s, w)
  PROVE  /\ Good(t, {w.pv}, e, l, dk) /\ Keeps(s, t, e) /\ w.pv \in DOMAIN s.pvs
         /\ Cardinality(t.loads \cup t.checks) < MaxWork
<1> USE DEF Finished
<1>1. Shape(s) /\ Counted(s, {}) /\ Current(s, e) /\ Drawn(s, e, l) /\ Read(s, dk)
      /\ Waits(s, e, l, dk)
  BY DEF Good
<1>2. PICK id : id = w.pv
  OBVIOUS
<1>3. id \in DOMAIN s.pvs /\ id[2] = e /\ id \in Files \X Nat /\ w \in LoadRec /\ dk[id[1]] \in Nat
  BY <1>1, <1>2 DEF Counted, Current, Shape
<1>4. PICK p : p = Update(s.pvs[id], w)
  OBVIOUS
<1>5. PICK q : q = s.pvs[id]
  OBVIOUS
<1>6. q = [ref |-> q.ref, cached |-> q.cached, status |-> q.status, loading |-> q.loading,
           height |-> q.height, mtime |-> q.mtime, content |-> q.content, draws |-> q.draws,
           holds |-> q.holds, in_progress |-> q.in_progress, requested |-> q.requested]
      /\ q \in PreviewRec
  BY <1>1, <1>3, <1>5 DEF Shape, PreviewRec
<1>7. p = [ref |-> q.ref, cached |-> q.cached, status |-> "loaded", loading |-> FALSE,
           height |-> w.height, mtime |-> w.mtime, content |-> w.content,
           draws |-> IF q.draws = "text" THEN w.kind ELSE "image",
           holds |-> w.kind, in_progress |-> q.in_progress, requested |-> q.requested]
  <2>1. p = [q EXCEPT !.mtime = w.mtime, !.content = w.content, !.height = w.height,
                      !.loading = FALSE, !.status = "loaded", !.holds = w.kind,
                      !.draws = IF q.draws = "text" THEN w.kind ELSE "image"]
    BY <1>4, <1>5 DEF Update
  <2> QED
    BY <1>6, <2>1
<1>8. /\ w.mtime \in 0..dk[id[1]] /\ w.content \in 0..dk[id[1]]
      /\ id[1] \notin s.raced =>
           w.mtime = dk[id[1]] /\ w.content = dk[id[1]] /\ w.height = s.rows
  BY <1>1, <1>2 DEF Read
<1>9. /\ w.kind = IF w.child = "gone" /\ id[1] \in Images THEN "image" ELSE "text"
      /\ w.child # "runs" /\ (w.child = "none" <=> l)
      /\ q.draws = q.holds /\ (q.draws = "image" => id[1] \in Images /\ ~l)
  BY <1>1, <1>2, <1>3, <1>5 DEF Drawn
<1>10. p \in PreviewRec
  <2>1. w.mtime \in Nat /\ w.content \in Nat /\ w.height \in 1..Tall /\ w.kind \in {"text", "image"}
    BY <1>3, <1>8, <1>9 DEF LoadRec
  <2> QED
    BY <1>6, <1>7, <2>1 DEF PreviewRec
<1>11. /\ p.ref = q.ref /\ p.cached = q.cached /\ p.status = "loaded" /\ ~p.loading
       /\ p.height = w.height /\ p.mtime = w.mtime /\ p.content = w.content
       /\ p.draws = IF q.draws = "text" THEN w.kind ELSE "image"
       /\ p.holds = w.kind /\ p.requested = q.requested
  BY <1>7
<1>12. /\ t = [pvs |-> t.pvs, timers |-> t.timers, loads |-> t.loads, checks |-> t.checks,
               rows |-> t.rows, raced |-> t.raced, looked |-> t.looked]
       /\ t.pvs = [s.pvs EXCEPT ![id] = p] /\ t.timers = s.timers /\ t.loads = s.loads \ {w}
       /\ t.checks = s.checks /\ t.rows = s.rows /\ t.raced = s.raced /\ t.looked = s.looked
  BY <1>2, <1>4
<1>13. /\ DOMAIN t.pvs = DOMAIN s.pvs /\ t.pvs[id] = p
       /\ \A i \in DOMAIN s.pvs : i # id => t.pvs[i] = s.pvs[i]
  BY <1>3, <1>12
<1>14. Shape(t)
  BY <1>1, <1>10, <1>12, <1>13 DEF Shape
<1>15. Counted(t, {id}) /\ Cardinality(t.loads \cup t.checks) < MaxWork
  <2>1. \A i \in DOMAIN s.pvs : /\ t.pvs[i].cached = s.pvs[i].cached
                                /\ t.pvs[i].ref = s.pvs[i].ref
    BY <1>5, <1>11, <1>13
  <2> QED
    BY <1>1, <1>2, <1>12, <1>13, <2>1, CountedRemove
<1>16. Current(t, e)
  BY <1>1, <1>5, <1>11, <1>12, <1>13 DEF Current
<1>17. Drawn(t, e, l)
  <2>1. p.draws = p.holds /\ (p.draws = "image" => id[1] \in Images /\ ~l)
    <3>0. q.draws \in {"text", "image"} /\ w.kind \in {"text", "image"}
      BY <1>6, <1>9 DEF PreviewRec
    <3>1. CASE q.draws = "text"
      <4>1. p.draws = w.kind /\ p.holds = w.kind
        BY <1>11, <3>1
      <4>2. w.kind = "image" => id[1] \in Images /\ w.child = "gone"
        BY <1>9
      <4> QED
        BY <1>9, <4>1, <4>2
    <3>2. CASE q.draws = "image"
      <4>1. w.kind = "image"
        BY <1>3, <1>9, <3>2 DEF LoadRec
      <4> QED
        BY <1>9, <1>11, <3>2, <4>1
    <3> QED
      BY <3>0, <3>1, <3>2
  <2> QED
    BY <1>1, <1>12, <1>13, <2>1 DEF Drawn
<1>18. Read(t, dk)
  <2>1. p.mtime <= dk[id[1]] /\ p.content <= dk[id[1]]
    BY <1>3, <1>8, <1>11
  <2> QED
    BY <1>1, <1>12, <1>13, <2>1 DEF Read
<1>19. \A i \in DOMAIN s.pvs : i[2] = e /\ i # id => Under(t, i[1]) = Under(s, i[1])
  <2> SUFFICES ASSUME NEW i \in DOMAIN s.pvs, i[2] = e, i # id
               PROVE  Under(t, i[1]) = Under(s, i[1])
    OBVIOUS
  <2>1. i[1] # id[1]
    BY <1>1, <1>3 DEF Shape
  <2> QED
    BY <1>2, <1>12, <2>1 DEF Under
<1>20. Waits(t, e, l, dk)
  <2> SUFFICES ASSUME NEW i \in DOMAIN t.pvs, i[2] = e
               PROVE  /\ t.pvs[i].status = "loaded" /\ t.pvs[i].loading => Under(t, i[1]) # {}
                      /\ i[1] \notin t.raced =>
                           Under(t, i[1]) # {} \/ t.pvs[i].mtime = t.pvs[i].content
                      /\ i[1] \in t.looked \ t.raced /\ ~l /\ t.pvs[i].status = "loaded" =>
                           Noticed(t, i, dk)
    BY DEF Waits
  <2>1. CASE i = id
    BY <1>8, <1>11, <1>12, <1>13, <2>1 DEF Noticed
  <2>2. CASE i # id
    <3>1. t.pvs[i] = s.pvs[i] /\ i \in DOMAIN s.pvs /\ Under(t, i[1]) = Under(s, i[1])
      BY <1>13, <1>19, <2>2
    <3>2. Noticed(s, i, dk) => Noticed(t, i, dk)
      BY <1>12, <3>1 DEF Noticed
    <3>3. /\ s.pvs[i].status = "loaded" /\ s.pvs[i].loading => Under(s, i[1]) # {}
          /\ i[1] \notin s.raced => Under(s, i[1]) # {} \/ s.pvs[i].mtime = s.pvs[i].content
          /\ i[1] \in s.looked \ s.raced /\ ~l /\ s.pvs[i].status = "loaded" =>
               Noticed(s, i, dk)
      BY <1>1, <3>1 DEF Waits
    <3> QED
      BY <1>12, <3>1, <3>2, <3>3
  <2> QED
    BY <2>1, <2>2
<1>21. Keeps(s, t, e)
  <2>1. id[1] \in t.raced \/ t.pvs[id].height >= t.rows
    BY <1>1, <1>8, <1>11, <1>12, <1>13 DEF Shape
  <2>2. t.pvs[id].status = "loaded"
    BY <1>11, <1>13
  <2> QED
    BY <1>12, <1>13, <1>19, <2>1, <2>2 DEF Keeps
<1>22. Good(t, {id}, e, l, dk)
  BY <1>14, <1>15, <1>16, <1>17, <1>18, <1>20 DEF Good
<1> QED
  BY <1>2, <1>3, <1>15, <1>21, <1>22

\* Loads that were cancelled, and checks that found nothing or were heeded, leave nothing.
Leaves(s, w, e, dk) ==
  \/ w \in s.loads /\ w.cancelled
  \/ /\ w \in s.checks
     /\ \/ ~w.done /\ dk[w.pv[1]] <= w.mtime
        \/ w.pv[2] = e => w.pv \in s.timers \/ s.pvs[w.pv].requested
Without(s, w) == [pvs |-> s.pvs, timers |-> s.timers, loads |-> s.loads \ {w},
                  checks |-> s.checks \ {w}, rows |-> s.rows, raced |-> s.raced,
                  looked |-> s.looked]

LEMMA LeaveGood ==
  ASSUME NEW s, NEW t, NEW e, NEW l, NEW dk \in [Files -> Nat], Good(s, {}, e, l, dk),
         NEW w, Leaves(s, w, e, dk), MaxWork \in Nat, t = Without(s, w)
  PROVE  /\ Good(t, {w.pv}, e, l, dk) /\ Keeps(s, t, e) /\ w.pv \in DOMAIN s.pvs
         /\ Cardinality(t.loads \cup t.checks) < MaxWork
<1>1. Shape(s) /\ Counted(s, {}) /\ Current(s, e) /\ Drawn(s, e, l) /\ Read(s, dk)
      /\ Waits(s, e, l, dk)
  BY DEF Good
<1>2. /\ t.pvs = s.pvs /\ t.timers = s.timers /\ t.rows = s.rows /\ t.raced = s.raced
      /\ t.looked = s.looked /\ t.loads \subseteq s.loads /\ t.checks \subseteq s.checks
      /\ t = [pvs |-> t.pvs, timers |-> t.timers, loads |-> t.loads, checks |-> t.checks,
              rows |-> t.rows, raced |-> t.raced, looked |-> t.looked]
  BY DEF Without
<1>3. /\ \/ t.loads = s.loads \ {w} /\ t.checks = s.checks /\ w \in s.loads /\ w.cancelled
         \/ t.loads = s.loads /\ t.checks = s.checks \ {w} /\ w \in s.checks
      /\ w \in s.loads \cup s.checks
  BY <1>1 DEF Without, Leaves, Counted
<1>4. Counted(t, {w.pv}) /\ Cardinality(t.loads \cup t.checks) < MaxWork
  BY <1>1, <1>2, <1>3, CountedRemove
<1>5. w.pv \in DOMAIN s.pvs
  BY <1>1, <1>3 DEF Counted
<1>6. Shape(t)
  BY <1>1, <1>2 DEF Shape
<1>7. Current(t, e)
  BY <1>1, <1>2 DEF Current
<1>8. Drawn(t, e, l)
  BY <1>1, <1>2 DEF Drawn
<1>9. Read(t, dk)
  BY <1>1, <1>2 DEF Read
<1>10. \A f : Under(t, f) = Under(s, f)
  BY <1>3 DEF Under
<1>11. Waits(t, e, l, dk)
  <2> SUFFICES ASSUME NEW i \in DOMAIN t.pvs, i[2] = e, Noticed(s, i, dk)
               PROVE  Noticed(t, i, dk)
    BY <1>1, <1>2, <1>10 DEF Waits
  <2> SUFFICES ASSUME NEW c \in s.checks, c.pv = i, c.done \/ c.mtime < dk[i[1]], c \notin t.checks
               PROVE  i \in t.timers \/ t.pvs[i].requested
    BY <1>2, <1>10 DEF Noticed
  <2>1. w = c /\ w \in s.checks
    BY <1>3
  <2>2. c \in CheckRec /\ dk[i[1]] \in Nat
    BY <1>1, <1>5, <2>1 DEF Shape
  <2>3. ~(~w.done /\ dk[w.pv[1]] <= w.mtime)
    BY <2>1, <2>2 DEF CheckRec
  <2>4. w \notin s.loads
    BY <1>1, <2>1 DEF Counted
  <2> QED
    BY <1>2, <2>1, <2>3, <2>4 DEF Leaves
<1>12. Keeps(s, t, e)
  BY <1>2, <1>10 DEF Keeps
<1> QED
  BY <1>4, <1>5, <1>6, <1>7, <1>8, <1>9, <1>11, <1>12 DEF Good

-----------------------------------------------------------------------------
(* The cache is dropped *)

\* Renamed one by one, works are as many, and hold as many references.
LEMMA SameShares ==
  ASSUME NEW S, IsFiniteSet(S), NEW f, f = [w \in S |-> f[w]],
         \A w \in S : f[w].pv = w.pv, \A w, v \in S : f[w] = f[v] => w = v
  PROVE  LET T == {f[w] : w \in S}
         IN  /\ IsFiniteSet(T) /\ Cardinality(T) = Cardinality(S)
             /\ \A id : Cardinality(Share(T, id)) = Cardinality(Share(S, id))
<1>1. PICK T : T = {f[w] : w \in S}
  OBVIOUS
<1>2. f \in Surjection(S, T) /\ f \in Injection(S, T)
  BY <1>1 DEF Surjection, Injection, IsInjective
<1>3. IsFiniteSet(T) /\ Cardinality(T) = Cardinality(S)
  BY <1>2, FS_Surjection
<1>4. ASSUME NEW id PROVE Cardinality(Share(T, id)) = Cardinality(Share(S, id))
  <2>1. PICK g : g = [w \in Share(S, id) |-> f[w]]
    OBVIOUS
  <2>2. \A w \in Share(S, id) : w \in S /\ w.pv = id /\ f[w] \in Share(T, id) /\ g[w] = f[w]
    BY <1>1, <2>1 DEF Share
  <2>3. ASSUME NEW x \in Share(T, id) PROVE \E w \in Share(S, id) : g[w] = x
    <3>1. PICK w \in S : x = f[w]
      BY <1>1 DEF Share
    <3>2. w \in Share(S, id)
      BY <3>1 DEF Share
    <3> QED
      BY <2>2, <3>1, <3>2
  <2>4. g \in [Share(S, id) -> Share(T, id)]
    BY <2>1, <2>2
  <2>5. g \in Surjection(Share(S, id), Share(T, id)) /\ g \in Injection(Share(S, id), Share(T, id))
    BY <2>2, <2>3, <2>4 DEF Surjection, Injection, IsInjective
  <2>6. IsFiniteSet(Share(S, id))
    BY FS_Subset DEF Share
  <2> QED
    BY <2>5, <2>6, FS_Surjection
<1> QED
  BY <1>1, <1>3, <1>4

LEMMA DropGood ==
  ASSUME NEW s, NEW e \in Nat, NEW l, NEW m, NEW dk, Good(s, {}, e, l, dk)
  PROVE  LET t == Dropped(s)
         IN  /\ Good(t, {}, e + 1, m, dk)
             /\ \A id \in DOMAIN t.pvs : id[2] <= e /\ ~t.pvs[id].cached
             /\ \A w \in t.loads : w.cancelled
             /\ t.timers = {} /\ t.rows = s.rows
             /\ Cardinality(t.loads \cup t.checks) = Cardinality(s.loads \cup s.checks)
<1>1. Shape(s) /\ Counted(s, {}) /\ Current(s, e) /\ Drawn(s, e, l) /\ Read(s, dk)
      /\ Waits(s, e, l, dk)
  BY DEF Good
<1>2. PICK t : t = Dropped(s)
  OBVIOUS
<1>3. /\ t = [pvs |-> t.pvs, timers |-> t.timers, loads |-> t.loads, checks |-> t.checks,
              rows |-> t.rows, raced |-> t.raced, looked |-> t.looked]
      /\ t.pvs = Uncached(s.pvs) /\ t.timers = {} /\ t.loads = Cancel(s.loads)
      /\ t.checks = s.checks /\ t.rows = s.rows /\ t.raced = s.raced /\ t.looked = s.looked
  BY <1>1, <1>2 DEF Shape, Dropped
<1>4. PICK c : c = [w \in s.loads |-> [w EXCEPT !.cancelled = TRUE, !.sem = TRUE]]
  OBVIOUS
<1>5. ASSUME NEW w \in s.loads
      PROVE  /\ c[w] \in LoadRec /\ c[w].cancelled /\ c[w].pv = w.pv /\ c[w].n = w.n
             /\ c[w].mtime = w.mtime /\ c[w].from = w.from /\ c[w].content = w.content
             /\ c[w].kind = w.kind /\ c[w].child = w.child /\ c[w].done = w.done
  <2>1. w \in LoadRec /\ c[w] = [w EXCEPT !.cancelled = TRUE, !.sem = TRUE]
    BY <1>1, <1>4 DEF Shape
  <2> QED
    BY <2>1 DEF LoadRec
<1>6. t.loads = {c[w] : w \in s.loads}
  BY <1>3, <1>4 DEF Cancel
<1>7. ASSUME NEW i \in DOMAIN s.pvs
      PROVE  s.pvs[i] \in PreviewRec /\ s.pvs[i].ref \in Nat \ {0} /\ Holders(s, i) \in Nat
             /\ s.pvs[i].ref = Holders(s, i) + One(s.pvs[i].cached)
  <2>1. s.pvs[i] \in PreviewRec /\ s.pvs[i].ref \in Nat \ {0}
    BY <1>1 DEF Shape, PreviewRec
  <2>2. Holders(s, i) \in Nat
    BY <1>1, HoldersShare, FS_Subset, FS_CardinalityType DEF Counted, Share
  <2>3. s.pvs[i].ref = Holders(s, i) + One(s.pvs[i].cached) + One(i \in {})
    BY <1>1 DEF Counted
  <2> QED
    BY <2>1, <2>2, <2>3 DEF One
<1>8. /\ DOMAIN t.pvs = {i \in DOMAIN s.pvs : ~(s.pvs[i].cached /\ s.pvs[i].ref = 1)}
      /\ t.pvs = [i \in DOMAIN t.pvs |-> t.pvs[i]]
  BY <1>3 DEF Uncached
<1>9. ASSUME NEW i \in DOMAIN t.pvs
      PROVE  /\ i \in DOMAIN s.pvs /\ t.pvs[i] \in PreviewRec
             /\ t.pvs[i].ref = Holders(s, i) /\ ~t.pvs[i].cached
             /\ t.pvs[i].mtime = s.pvs[i].mtime /\ t.pvs[i].content = s.pvs[i].content
             /\ t.pvs[i].draws = s.pvs[i].draws /\ t.pvs[i].holds = s.pvs[i].holds
  <2>1. i \in DOMAIN s.pvs /\ ~(s.pvs[i].cached /\ s.pvs[i].ref = 1)
    BY <1>8
  <2>2. CASE s.pvs[i].cached
    <3>1. t.pvs[i] = [s.pvs[i] EXCEPT !.cached = FALSE, !.ref = s.pvs[i].ref - 1]
      BY <1>3, <2>1, <2>2 DEF Uncached
    <3>2. s.pvs[i].ref - 1 \in Nat \ {0} /\ s.pvs[i].ref - 1 = Holders(s, i)
      BY <1>7, <2>1, <2>2 DEF One
    <3> QED
      BY <1>7, <2>1, <3>1, <3>2 DEF PreviewRec
  <2>3. CASE ~s.pvs[i].cached
    <3>1. t.pvs[i] = s.pvs[i]
      BY <1>3, <2>1, <2>3 DEF Uncached
    <3> QED
      BY <1>7, <2>1, <2>3, <3>1 DEF One
  <2> QED
    BY <2>2, <2>3
<1>10. ASSUME NEW w \in s.loads \cup s.checks PROVE w.pv \in DOMAIN t.pvs
  <2> SUFFICES ASSUME w.pv \notin DOMAIN t.pvs PROVE FALSE
    OBVIOUS
  <2>1. w.pv \in DOMAIN s.pvs /\ IsFiniteSet(s.loads \cup s.checks)
    BY <1>1 DEF Counted
  <2>2. s.pvs[w.pv].cached /\ s.pvs[w.pv].ref = 1
    BY <1>8, <2>1
  <2>3. Cardinality(Share(s.loads \cup s.checks, w.pv)) = 0
    BY <1>7, <2>1, <2>2, HoldersShare DEF One
  <2>4. w \in Share(s.loads \cup s.checks, w.pv)
    BY DEF Share
  <2>5. IsFiniteSet(Share(s.loads \cup s.checks, w.pv))
    BY <2>1, FS_Subset DEF Share
  <2> QED
    BY <2>3, <2>4, <2>5, FS_EmptySet
<1>11. Shape(t)
  <2>1. t.loads \subseteq LoadRec
    BY <1>5, <1>6
  <2>2. t.pvs \in [DOMAIN t.pvs -> PreviewRec]
    BY <1>8, <1>9
  <2> QED
    BY <1>1, <1>3, <1>9, <2>1, <2>2 DEF Shape
<1>12. /\ IsFiniteSet(t.loads \cup t.checks)
       /\ Cardinality(t.loads \cup t.checks) = Cardinality(s.loads \cup s.checks)
       /\ \A i : Holders(t, i) = Holders(s, i)
  <2>1. PICK S : S = s.loads \cup s.checks
    OBVIOUS
  <2>2. PICK f : f = [w \in S |-> IF w \in s.loads THEN c[w] ELSE w]
    OBVIOUS
  <2>3. IsFiniteSet(S) /\ \A w, v \in S : w.n = v.n => w = v
    BY <1>1, <2>1 DEF Counted
  <2>4. \A w \in S : f[w].pv = w.pv /\ f[w].n = w.n
    BY <1>5, <2>1, <2>2
  <2>5. \A w, v \in S : f[w] = f[v] => w = v
    BY <2>3, <2>4
  <2>6. f = [w \in S |-> f[w]]
    BY <2>2
  <2>7. t.loads \cup t.checks = {f[w] : w \in S}
    <3>1. ASSUME NEW x \in t.loads \cup t.checks PROVE \E w \in S : x = f[w]
      <4>1. CASE x \in t.loads
        BY <1>6, <2>1, <2>2, <4>1
      <4>2. CASE x \in t.checks
        <5>1. x \in s.checks /\ x \notin s.loads
          BY <1>1, <1>3, <4>2 DEF Counted
        <5> QED
          BY <2>1, <2>2, <5>1
      <4> QED
        BY <4>1, <4>2
    <3>2. ASSUME NEW w \in S PROVE f[w] \in t.loads \cup t.checks
      BY <1>3, <1>6, <2>1, <2>2
    <3> QED
      BY <3>1, <3>2
  <2>8. PICK T : T = {f[w] : w \in S}
    OBVIOUS
  <2>9. /\ IsFiniteSet(T) /\ Cardinality(T) = Cardinality(S)
        /\ \A i : Cardinality(Share(T, i)) = Cardinality(Share(S, i))
    BY <2>3, <2>4, <2>5, <2>6, <2>8, SameShares
  <2>10. T = t.loads \cup t.checks
    BY <2>7, <2>8
  <2> QED
    BY <2>1, <2>9, <2>10, HoldersShare
<1>13. Counted(t, {})
  <2>1. ASSUME NEW w \in t.loads
        PROVE  \E v \in s.loads : w.n = v.n /\ w.pv = v.pv /\ w = c[v]
    BY <1>5, <1>6
  <2>2. \A w, v \in t.loads \cup t.checks : w.n = v.n => w = v
    <3> SUFFICES ASSUME NEW w \in t.loads \cup t.checks, NEW v \in t.loads \cup t.checks,
                        w.n = v.n
                 PROVE  w = v
      OBVIOUS
    <3>1. CASE w \in t.loads /\ v \in t.loads
      <4>1. PICK x \in s.loads : w.n = x.n /\ w = c[x]
        BY <2>1, <3>1
      <4>2. PICK y \in s.loads : v.n = y.n /\ v = c[y]
        BY <2>1, <3>1
      <4> QED
        BY <1>1, <4>1, <4>2 DEF Counted
    <3>2. CASE w \in t.checks /\ v \in t.checks
      BY <1>1, <1>3, <3>2 DEF Counted
    <3>3. CASE (w \in t.loads /\ v \in t.checks) \/ (w \in t.checks /\ v \in t.loads)
      BY <1>1, <1>3, <2>1, <3>3 DEF Counted
    <3> QED
      BY <3>1, <3>2, <3>3
  <2>3. \A w \in t.loads, v \in t.checks : w.n # v.n
    BY <1>1, <1>3, <2>1 DEF Counted
  <2>4. \A w \in t.loads \cup t.checks : w.pv \in DOMAIN t.pvs
    BY <1>3, <1>10, <2>1
  <2>5. \A i \in DOMAIN t.pvs :
          t.pvs[i].ref = Holders(t, i) + One(t.pvs[i].cached) + One(i \in {})
    BY <1>7, <1>9, <1>12 DEF One
  <2>6. Cardinality(t.loads \cup t.checks) <= MaxWork
    BY <1>1, <1>12 DEF Counted
  <2> QED
    BY <1>12, <2>2, <2>3, <2>4, <2>5, <2>6 DEF Counted
<1>14. \A w \in t.loads : w.cancelled
  BY <1>5, <1>6
<1>15. \A i \in DOMAIN t.pvs : i[2] \in Nat /\ i[2] <= e /\ i[2] # e + 1
  BY <1>1, <1>9 DEF Current, Shape
<1>16. Current(t, e + 1)
  BY <1>3, <1>9, <1>14, <1>15 DEF Current
<1>17. Drawn(t, e + 1, m)
  <2>1. \A w \in t.loads :
          w.done => /\ w.child # "runs"
                    /\ w.kind = IF w.child = "gone" /\ w.pv[1] \in Images THEN "image" ELSE "text"
    <3> TAKE w \in t.loads
    <3>1. PICK v \in s.loads : w = c[v]
      BY <1>6
    <3> QED
      BY <1>1, <1>5, <3>1 DEF Drawn
  <2> QED
    BY <1>1, <1>9, <1>14, <1>15, <2>1 DEF Drawn
<1>18. Read(t, dk)
  <2>1. ASSUME NEW w \in t.loads
        PROVE  /\ w.from <= dk[w.pv[1]] 
               /\ w.mtime # None => w.mtime <= dk[w.pv[1]]
               /\ w.child = "gone" \/ w.done => w.content \in 0..dk[w.pv[1]]
               /\ w.done => w.mtime \in 0..dk[w.pv[1]]
    <3>1. PICK v \in s.loads : w = c[v]
      BY <1>6
    <3> QED
      BY <1>1, <1>5, <3>1 DEF Read
  <2> QED
    BY <1>1, <1>9, <1>14, <2>1 DEF Read
<1>19. Waits(t, e + 1, m, dk)
  BY <1>15 DEF Waits
<1>20. Good(t, {}, e + 1, m, dk)
  BY <1>11, <1>13, <1>16, <1>17, <1>18, <1>19 DEF Good
<1> QED
  BY <1>2, <1>3, <1>9, <1>12, <1>14, <1>15, <1>20

-----------------------------------------------------------------------------
(* The pane, workers, reloads *)

LEMMA RowsGood ==
  ASSUME NEW s, NEW t, NEW e, NEW l, NEW dk, Good(s, {}, e, l, dk), NEW n \in 1..Tall,
         t = [s EXCEPT !.rows = n, !.raced = @ \cup {f \in Files : Under(s, f) # {}}]
  PROVE  /\ Good(t, {}, e, l, dk)
         /\ t.pvs = s.pvs /\ t.loads = s.loads /\ t.checks = s.checks /\ t.rows = n
<1>1. Shape(s) /\ Counted(s, {}) /\ Current(s, e) /\ Drawn(s, e, l) /\ Read(s, dk)
      /\ Waits(s, e, l, dk)
  BY DEF Good
<1>2. /\ t = [pvs |-> t.pvs, timers |-> t.timers, loads |-> t.loads, checks |-> t.checks,
              rows |-> t.rows, raced |-> t.raced, looked |-> t.looked]
      /\ t.pvs = s.pvs /\ t.timers = s.timers /\ t.loads = s.loads /\ t.checks = s.checks
      /\ t.rows = n /\ t.raced = s.raced \cup {f \in Files : Under(s, f) # {}}
      /\ t.looked = s.looked
  BY <1>1 DEF Shape
<1>3. Shape(t)
  BY <1>1, <1>2 DEF Shape
<1>4. Counted(t, {})
  <2>1. \A i : Holders(t, i) = Holders(s, i)
    BY <1>2 DEF Holders
  <2>2. IsFiniteSet(t.loads \cup t.checks) /\ Cardinality(t.loads \cup t.checks) <= MaxWork
    BY <1>1, <1>2 DEF Counted
  <2>3. ASSUME NEW id \in DOMAIN t.pvs
        PROVE  t.pvs[id].ref = Holders(t, id) + One(t.pvs[id].cached) + One(id \in {})
    <3>1. id \in DOMAIN s.pvs
      BY <1>2
    <3>2. s.pvs[id].ref = Holders(s, id) + One(s.pvs[id].cached) + One(id \in {})
      BY <1>1, <3>1 DEF Counted
    <3>3. Holders(t, id) = Holders(s, id)
      BY <2>1
    <3> QED
      BY <1>2, <3>2, <3>3, Zenon
  <2>4. /\ \A w, v \in t.loads \cup t.checks : w.n = v.n => w = v
        /\ \A w \in t.loads, c \in t.checks : w.n # c.n
        /\ \A w \in t.loads \cup t.checks : w.pv \in DOMAIN t.pvs
    BY <1>1, <1>2 DEF Counted
  <2> QED
    BY <2>2, <2>3, <2>4 DEF Counted
<1>5. Current(t, e)
  BY <1>1, <1>2 DEF Current
<1>6. Drawn(t, e, l)
  BY <1>1, <1>2 DEF Drawn
<1>7. \A f : Under(t, f) = Under(s, f)
  BY <1>2 DEF Under
<1>8. Read(t, dk)
  <2>1. \A w \in s.loads : ~w.cancelled => w.pv[1] \in t.raced
    <3> SUFFICES ASSUME NEW w \in s.loads, ~w.cancelled PROVE w.pv[1] \in t.raced
      OBVIOUS
    <3>1. w.pv[1] \in Files
      BY <1>1 DEF Shape, LoadRec
    <3>2. w \in Under(s, w.pv[1])
      BY DEF Under
    <3> QED
      BY <1>2, <3>1, <3>2
  <2> QED
    BY <1>1, <1>2, <2>1 DEF Read
<1>9. Waits(t, e, l, dk)
  <2>1. \A i : Noticed(s, i, dk) => Noticed(t, i, dk)
    BY <1>2, <1>7 DEF Noticed
  <2> QED
    BY <1>1, <1>2, <1>7, <2>1, ZenonT(60) DEF Waits
<1> QED
  BY <1>2, <1>3, <1>4, <1>5, <1>6, <1>8, <1>9 DEF Good

\* v is what becomes of the load w.
GoesOn(s, w, v, dk) ==
  /\ w \in s.loads /\ v \in LoadRec /\ v.pv = w.pv /\ v.n = w.n /\ v.cancelled = w.cancelled
  /\ v.height = w.height /\ v.from = w.from /\ (v.child = "none" <=> w.child = "none")
  /\ v.done => /\ v.child # "runs"
               /\ v.kind = IF v.child = "gone" /\ v.pv[1] \in Images THEN "image" ELSE "text"
  /\ v.mtime # None => v.mtime <= dk[v.pv[1]]
  /\ v.child = "gone" \/ v.done => v.content \in 0..dk[v.pv[1]]
  /\ v.done => v.mtime \in 0..dk[v.pv[1]]
  /\ ~v.cancelled /\ v.pv[1] \notin s.raced =>
       /\ v.mtime # None \/ v.done => v.mtime = dk[v.pv[1]]
       /\ v.child = "gone" \/ v.done => v.content = dk[v.pv[1]]

LEMMA ReplaceGood ==
  ASSUME NEW s, NEW t, NEW e, NEW l, NEW dk, Good(s, {}, e, l, dk), NEW w, NEW v,
         GoesOn(s, w, v, dk),
         t = [pvs |-> s.pvs, timers |-> s.timers, loads |-> (s.loads \ {w}) \cup {v},
              checks |-> s.checks, rows |-> s.rows, raced |-> s.raced, looked |-> s.looked]
  PROVE  Good(t, {}, e, l, dk) /\ Keeps(s, t, e)
<1> USE DEF GoesOn
<1>1. Shape(s) /\ Counted(s, {}) /\ Current(s, e) /\ Drawn(s, e, l) /\ Read(s, dk)
      /\ Waits(s, e, l, dk)
  BY DEF Good
<1>2. /\ t.pvs = s.pvs /\ t.timers = s.timers /\ t.rows = s.rows /\ t.raced = s.raced
      /\ t.looked = s.looked /\ t.loads = (s.loads \ {w}) \cup {v} /\ t.checks = s.checks
      /\ t = [pvs |-> t.pvs, timers |-> t.timers, loads |-> t.loads, checks |-> t.checks,
              rows |-> t.rows, raced |-> t.raced, looked |-> t.looked]
  OBVIOUS
<1>3. Shape(t)
  BY <1>1, <1>2 DEF Shape
<1>4. Counted(t, {})
  <2>1. \/ t.loads = (s.loads \ {w}) \cup {v} /\ t.checks = s.checks /\ w \in s.loads
        \/ t.loads = s.loads /\ t.checks = (s.checks \ {w}) \cup {v} /\ w \in s.checks
    BY <1>2
  <2>2. v.pv = w.pv /\ v.n = w.n /\ t.pvs = s.pvs
    BY <1>2
  <2> QED
    BY <1>1, <2>1, <2>2, CountedReplace, ZenonT(60)
<1>5. Current(t, e)
  BY <1>1, <1>2 DEF Current
<1>6. Drawn(t, e, l)
  BY <1>1, <1>2 DEF Drawn
<1>7. Read(t, dk)
  BY <1>1, <1>2 DEF Read
<1>8. ASSUME NEW f PROVE Under(t, f) = {} <=> Under(s, f) = {}
  <2>1. w \in Under(s, f) <=> v \in Under(t, f)
    BY <1>2 DEF Under
  <2>2. \A x : x # w /\ x # v => (x \in Under(s, f) <=> x \in Under(t, f))
    BY <1>2 DEF Under
  <2>3. w \in Under(t, f) => w \in Under(s, f)
    BY DEF Under
  <2>4. v \in Under(s, f) => v \in Under(t, f)
    BY <1>2 DEF Under
  <2> QED
    BY <2>1, <2>2, <2>3, <2>4
<1>9. Waits(t, e, l, dk)
  <2>1. \A i : Noticed(s, i, dk) => Noticed(t, i, dk)
    BY <1>2, <1>8 DEF Noticed
  <2> QED
    BY <1>1, <1>2, <1>8, <2>1 DEF Waits
<1>10. Keeps(s, t, e)
  BY <1>2, <1>8 DEF Keeps
<1> QED
  BY <1>3, <1>4, <1>5, <1>6, <1>7, <1>9, <1>10 DEF Good

LEMMA ReloadGood ==
  ASSUME NEW s, NEW e, NEW l, NEW dk, Good(s, {}, e, l, dk), NEW id \in DOMAIN s.pvs
  PROVE  LET t == Reload(s, id)
         IN  /\ Good(t, {}, e, l, dk) /\ Keeps(s, t, e)
             /\ t.loads = s.loads /\ t.checks = s.checks /\ DOMAIN t.pvs = DOMAIN s.pvs
             /\ id[2] = e => id \in t.timers \/ t.pvs[id].requested
<1>1. Shape(s) /\ Current(s, e) /\ s.pvs[id] \in PreviewRec
  BY DEF Good, Shape
<1>2. s.pvs[id].cached <=> id[2] = e
  BY <1>1 DEF Current
<1>3. PICK t : t = Reload(s, id)
  OBVIOUS
<1>4. Keeps(s, s, e)
  BY DEF Keeps
<1>5. CASE ~s.pvs[id].cached \/ id \in s.timers \/ s.pvs[id].requested
  <2>1. t = s
    BY <1>3, <1>5 DEF Reload
  <2> QED
    BY <1>2, <1>3, <1>4, <1>5, <2>1
<1>6. CASE ~(~s.pvs[id].cached \/ id \in s.timers \/ s.pvs[id].requested) /\ s.pvs[id].in_progress
  <2>1. PICK p : p = [s.pvs[id] EXCEPT !.requested = TRUE]
    OBVIOUS
  <2>2. /\ p \in PreviewRec /\ p.requested
        /\ p.ref = s.pvs[id].ref /\ p.cached = s.pvs[id].cached /\ p.status = s.pvs[id].status
        /\ p.loading = s.pvs[id].loading /\ p.height = s.pvs[id].height
        /\ p.mtime = s.pvs[id].mtime /\ p.content = s.pvs[id].content
        /\ p.draws = s.pvs[id].draws /\ p.holds = s.pvs[id].holds
    BY <1>1, <2>1 DEF PreviewRec
  <2>3. t = [s EXCEPT !.pvs[id].requested = TRUE]
    BY <1>3, <1>6 DEF Reload
  <2>4. t = [pvs |-> [s.pvs EXCEPT ![id] = p], timers |-> s.timers, loads |-> s.loads,
             checks |-> s.checks, rows |-> s.rows, raced |-> s.raced, looked |-> s.looked]
    BY <1>1, <2>1, <2>3 DEF Shape
  <2>5. /\ DOMAIN t.pvs = DOMAIN s.pvs /\ t.pvs[id] = p
        /\ \A i \in DOMAIN s.pvs : i # id => t.pvs[i] = s.pvs[i]
    BY <2>4
  <2>6. Marks(s, t, id)
    BY <1>1, <2>2, <2>4, <2>5 DEF Marks, Shape
  <2>7. t.timers \subseteq DOMAIN s.pvs /\ \A i \in t.timers : i[2] = e
    BY <1>1, <2>4 DEF Shape, Current
  <2>8. Good(t, {}, e, l, dk) /\ Keeps(s, t, e)
    BY <2>2, <2>4, <2>5, <2>6, <2>7, MarkGood, ZenonT(60)
  <2> QED
    BY <1>3, <2>2, <2>4, <2>5, <2>8
<1>7. CASE ~(~s.pvs[id].cached \/ id \in s.timers \/ s.pvs[id].requested) /\ ~s.pvs[id].in_progress
  <2>1. t = [s EXCEPT !.timers = @ \cup {id}]
    BY <1>3, <1>7 DEF Reload
  <2>2. t = [pvs |-> s.pvs, timers |-> s.timers \cup {id}, loads |-> s.loads,
             checks |-> s.checks, rows |-> s.rows, raced |-> s.raced, looked |-> s.looked]
    BY <1>1, <2>1 DEF Shape
  <2>3. Marks(s, t, id)
    BY <1>1, <2>2 DEF Marks, Shape
  <2>4. t.timers \subseteq DOMAIN s.pvs /\ \A i \in t.timers : i[2] = e
    BY <1>1, <1>2, <1>7, <2>2 DEF Shape, Current
  <2>5. Good(t, {}, e, l, dk) /\ Keeps(s, t, e)
    BY <2>2, <2>3, <2>4, MarkGood
  <2> QED
    BY <1>3, <2>2, <2>5
<1> QED
  BY <1>5, <1>6, <1>7

-----------------------------------------------------------------------------
(* From the record to the state *)

LEMMA ScreenKept ==
  ASSUME NEW s, NEW t, NEW e, NEW u, NEW h, Screen(s, e, u, h), Keeps(s, t, e)
  PROVE  Screen(t, e, u, h)
<1> SUFFICES ASSUME u.preview # None
             PROVE  /\ u.preview \in DOMAIN t.pvs
                    /\ ~u.hidden => t.pvs[u.preview].status = "loaded"
                    /\ u.cursor \notin h \cup t.raced =>
                         Under(t, u.cursor) # {} \/ t.pvs[u.preview].height >= t.rows
  BY DEF Screen
<1>1. PICK id : id = u.preview
  OBVIOUS
<1>2. /\ id \in DOMAIN s.pvs /\ id[1] = u.cursor /\ id[2] = e
      /\ ~u.hidden => s.pvs[id].status = "loaded"
      /\ id[1] \notin h \cup s.raced => Under(s, id[1]) # {} \/ s.pvs[id].height >= s.rows
  BY <1>1 DEF Screen
<1>3. /\ t.rows = s.rows /\ id \in DOMAIN t.pvs
      /\ s.pvs[id].status = "loaded" => t.pvs[id].status = "loaded"
      /\ \/ id[1] \in t.raced
         \/ Under(t, id[1]) # {}
         \/ t.pvs[id].height >= t.rows
         \/ id[1] \notin s.raced /\ Under(s, id[1]) = {} /\ s.pvs[id].height = t.pvs[id].height
  BY <1>2 DEF Keeps
<1> QED
  BY <1>1, <1>2, <1>3

LEMMA Stays ==
  ASSUME NEW t, Becomes(t), Shape(t)
  PROVE  State' = t
BY DEF Becomes, Shape, State

LEMMA StateFields ==
  /\ State.pvs = pvs /\ State.timers = timers /\ State.loads = loads
  /\ State.checks = checks /\ State.rows = rows /\ State.raced = raced
  /\ State.looked = looked
BY DEF State

LEMMA Arrives ==
  ASSUME Rest', Ended', NEW t, Becomes(t), Good(t, {}, Epoch', lua', disk'),
         Screen(t, Epoch', ui', hurried')
  PROVE  PInv'
<1>1. State' = t
  BY Stays DEF Good
<1>2. Good(State, {}, Epoch, lua, disk)'
  <2>1. Good(State', {}, Epoch', lua', disk')
    BY <1>1
  <2> QED
    BY <2>1 DEF Good, Shape, Counted, Current, Drawn, Read, Waits, Holders, Noticed, Under
<1>3. Screen(State, Epoch, ui, hurried)'
  <2>1. Screen(State', Epoch', ui', hurried')
    BY <1>1
  <2> QED
    BY <2>1 DEF Screen, Under
<1> QED
  BY <1>2, <1>3 DEF PInv

\* A step of the running program
LEMMA RunsOn ==
  ASSUME PInv, Running, UNCHANGED <<disk, lua, drops, phase>>, NEW t, Becomes(t),
         Good(t, {}, drops, lua, disk), Screen(t, drops, ui', hurried')
  PROVE  PInv'
<1>1. Epoch' = drops /\ Rest' /\ Ended' /\ lua' = lua /\ disk' = disk
  BY DEF Epoch, Running, PInv, Rest, Ended
<1> QED
  BY <1>1, Arrives

LEMMA FromPathGood ==
  ASSUME NEW s, Good(s, {}, drops, lua, disk), NEW f \in Files, NEW do_load \in BOOLEAN,
         lua \in BOOLEAN, drops \in Nat, disk \in [Files -> Nat], MaxWork \in Nat, TallAssumption,
         Cardinality(s.loads \cup s.checks) < MaxWork
  PROVE  LET t == FromPath(s, f, do_load)
         IN  /\ Good(t, {}, drops, lua, disk) /\ Cached(f) \in DOMAIN t.pvs
             /\ do_load => /\ t.pvs[Cached(f)].status = "loaded"
                           /\ Under(t, f) # {} \/ t.pvs[Cached(f)].height >= t.rows
<1>1. PICK id : id = Cached(f)
  OBVIOUS
<1>2. id = <<f, drops>> /\ id \in Files \X Nat /\ id[2] = drops /\ id[1] = f
  BY <1>1 DEF Cached
<1>0. id[2] = drops
  BY <1>2
<1>3. PICK c : c = [s EXCEPT !.pvs = WithCreated(@, id)]
  OBVIOUS
<1>4. CASE id \notin DOMAIN s.pvs
  <2>1. /\ Good(c, {}, drops, lua, disk) /\ id \in DOMAIN c.pvs
        /\ c.loads = s.loads /\ c.checks = s.checks
    <3>1. c = [pvs |-> WithCreated(s.pvs, id), timers |-> s.timers, loads |-> s.loads,
               checks |-> s.checks, rows |-> s.rows, raced |-> s.raced, looked |-> s.looked]
      <4> HIDE DEF WithCreated
      <4> QED
        BY <1>3 DEF Good, Shape
    <3> QED
      BY <1>2, <1>4, <3>1, CreateGood
  <2>2. CASE do_load
    <3>1. FromPath(s, f, do_load) = LoadWith(c, id, lua)
      BY <1>1, <1>3, <1>4, <2>2 DEF FromPath, Load
    <3>2. Takes(c, {}, drops, lua, id)
      BY <1>0, <2>1 DEF Takes
    <3>3. PICK t : t = LoadWith(c, id, lua)
      OBVIOUS
    <3>4. /\ Good(t, {}, drops, lua, disk) /\ DOMAIN t.pvs = DOMAIN c.pvs
          /\ t.pvs[id].status = "loaded" /\ Under(t, id[1]) # {}
      BY <3>2, <3>3, LoadGood
    <3> QED
      BY <1>1, <1>2, <2>1, <3>1, <3>3, <3>4
  <2>3. CASE ~do_load
    <3>1. FromPath(s, f, do_load) = c
      BY <1>1, <1>3, <1>4, <2>3 DEF FromPath
    <3> QED
      BY <1>1, <2>1, <2>3, <3>1
  <2> QED
    BY <2>2, <2>3
<1>5. CASE id \in DOMAIN s.pvs /\ ~do_load
  <2>1. FromPath(s, f, do_load) = s
    BY <1>1, <1>5 DEF FromPath
  <2> QED
    BY <1>1, <1>5, <2>1
<1>6. CASE id \in DOMAIN s.pvs /\ do_load
           /\ (s.pvs[id].status = "delayed" \/ s.pvs[id].height < s.rows)
  <2>1. FromPath(s, f, do_load) = LoadWith(s, id, lua)
    BY <1>1, <1>6 DEF FromPath, Load
  <2>0. id \in DOMAIN s.pvs /\ do_load
    BY <1>6
  <2>2. PICK t : t = LoadWith(s, id, lua)
    OBVIOUS
  <2>3. /\ Good(t, {}, drops, lua, disk) /\ DOMAIN t.pvs = DOMAIN s.pvs
        /\ t.pvs[id].status = "loaded" /\ Under(t, id[1]) # {}
    <3>1. Takes(s, {}, drops, lua, id)
      BY <1>0, <2>0 DEF Takes
    <3> QED
      BY <2>2, <3>1, LoadGood
  <2> QED
    BY <1>1, <1>2, <2>0, <2>1, <2>2, <2>3
<1>7. CASE id \in DOMAIN s.pvs /\ do_load
           /\ ~(s.pvs[id].status = "delayed" \/ s.pvs[id].height < s.rows)
  <2>1. FromPath(s, f, do_load) = Check(s, id)
    BY <1>1, <1>7 DEF FromPath
  <2>0. id \in DOMAIN s.pvs /\ do_load
    BY <1>7
  <2>2. PICK t : t = Check(s, id)
    OBVIOUS
  <2>3. /\ Good(t, {}, drops, lua, disk) /\ DOMAIN t.pvs = DOMAIN s.pvs
        /\ t.pvs[id].status = s.pvs[id].status /\ t.pvs[id].height = s.pvs[id].height
        /\ t.rows = s.rows
    <3>1. Takes(s, {}, drops, lua, id)
      BY <1>0, <2>0 DEF Takes
    <3> QED
      BY <2>2, <3>1, CheckGood
  <2>4. s.pvs[id].status \in {"delayed", "loaded"} /\ s.pvs[id].height \in Nat /\ s.rows \in Nat
    BY <1>7 DEF Good, Shape, PreviewRec, TallAssumption
  <2>5. s.pvs[id].status = "loaded" /\ s.pvs[id].height >= s.rows
    BY <1>7, <2>4
  <2>6. t.pvs[id].status = "loaded" /\ t.pvs[id].height >= t.rows
    BY <2>3, <2>5
  <2> QED
    BY <1>1, <2>0, <2>1, <2>2, <2>3, <2>6
<1> QED
  BY <1>4, <1>5, <1>6, <1>7

\* Wherever the cursor comes to, its preview is loaded, checked, or awaits its rest.
LEMMA CursorMoved ==
  ASSUME PInv, Running, FilesAssumption, TallAssumption, BoundsAssumption,
         NEW s, Good(s, {}, drops, lua, disk), s.pvs = pvs, s.loads = loads, s.checks = checks,
         Cardinality(loads \cup checks) < MaxWork,
         NEW f \in Files \cup {None}, NEW immediate \in BOOLEAN, OnCursorMoved(s, f, immediate),
         UNCHANGED <<disk, lua, drops, phase>>
  PROVE  PInv'
<1>1. /\ lua \in BOOLEAN /\ drops \in Nat /\ MaxWork \in Nat /\ disk \in [Files -> Nat]
      /\ Epoch = drops
  BY DEF PInv, Rest, Epoch, BoundsAssumption
<1>2. ui' = [preview |-> IF f = None THEN None ELSE Cached(f), cursor |-> f,
             hidden |-> ~immediate, resting |-> ~immediate]
  BY DEF OnCursorMoved
<1>3. CASE f = None
  <2>1. Becomes(s)
    BY <1>3 DEF OnCursorMoved
  <2>2. Screen(s, drops, ui', hurried')
    BY <1>2, <1>3 DEF Screen
  <2> QED
    BY <2>1, <2>2, RunsOn
<1>4. CASE f \in Files
  <2>1. f # None
    BY <1>4 DEF FilesAssumption
  <2>2. PICK id : id = Cached(f)
    OBVIOUS
  <2>3. PICK t : /\ t = IF ui.preview = id /\ InCache(id) /\ ~s.pvs[id].loading /\ s.pvs[id].height < s.rows
                        THEN [s EXCEPT !.pvs[id].status = "delayed"] ELSE s
                 /\ Becomes(FromPath(t, f, immediate))
    BY <2>1, <2>2 DEF OnCursorMoved
  <2>4. Good(t, {}, drops, lua, disk) /\ t.loads = s.loads /\ t.checks = s.checks
    <3>1. CASE t = s
      BY <3>1
    <3>2. CASE t = [s EXCEPT !.pvs[id].status = "delayed"] /\ id \in DOMAIN s.pvs
      <4>1. Shape(s) /\ Current(s, drops) /\ s.pvs[id] \in PreviewRec
        BY <3>2 DEF Good, Shape
      <4>2. PICK p : p = [s.pvs[id] EXCEPT !.status = "delayed"]
        OBVIOUS
      <4>3. /\ p \in PreviewRec /\ p.status = "delayed" /\ p.requested = s.pvs[id].requested
            /\ p.ref = s.pvs[id].ref /\ p.cached = s.pvs[id].cached
            /\ p.loading = s.pvs[id].loading /\ p.height = s.pvs[id].height
            /\ p.mtime = s.pvs[id].mtime /\ p.content = s.pvs[id].content
            /\ p.draws = s.pvs[id].draws /\ p.holds = s.pvs[id].holds
        BY <4>1, <4>2 DEF PreviewRec
      <4>4. t = [pvs |-> [s.pvs EXCEPT ![id] = p], timers |-> s.timers, loads |-> s.loads,
                 checks |-> s.checks, rows |-> s.rows, raced |-> s.raced, looked |-> s.looked]
        BY <3>2, <4>1, <4>2 DEF Shape
      <4>5. /\ DOMAIN t.pvs = DOMAIN s.pvs /\ t.pvs[id] = p
            /\ \A i \in DOMAIN s.pvs : i # id => t.pvs[i] = s.pvs[i]
        BY <3>2, <4>4
      <4>6. Marks(s, t, id)
        BY <4>1, <4>3, <4>4, <4>5 DEF Marks, Shape
      <4>7. t.timers \subseteq DOMAIN s.pvs /\ \A i \in t.timers : i[2] = drops
        BY <4>1, <4>4 DEF Shape, Current
      <4>8. Good(t, {}, drops, lua, disk)
        BY <3>2, <4>3, <4>4, <4>5, <4>6, <4>7, MarkGood
      <4> QED
        BY <4>4, <4>8
    <3> QED
      BY <2>3, <3>1, <3>2 DEF InCache
  <2>5. Cardinality(t.loads \cup t.checks) < MaxWork
    BY <2>4
  <2>6. PICK u : u = FromPath(t, f, immediate)
    OBVIOUS
  <2>7. /\ Good(u, {}, drops, lua, disk) /\ id \in DOMAIN u.pvs
        /\ immediate => /\ u.pvs[id].status = "loaded"
                        /\ Under(u, f) # {} \/ u.pvs[id].height >= u.rows
    BY <1>1, <1>4, <2>2, <2>4, <2>5, <2>6, FromPathGood
  <2>8. ~immediate => f \in hurried'
    BY <2>1 DEF OnCursorMoved
  <2>9. Screen(u, drops, ui', hurried')
    <3>1. ui'.cursor = f /\ ui'.preview = id /\ ui'.hidden = ~immediate /\ ui'.resting = ~immediate
          /\ id = <<f, drops>>
      BY <1>2, <2>1, <2>2 DEF Cached
    <3>2. ui' = [preview |-> ui'.preview, hidden |-> ui'.hidden, cursor |-> ui'.cursor,
                 resting |-> ui'.resting]
      BY <1>2
    <3> QED
      BY <1>4, <2>7, <2>8, <3>1, <3>2 DEF Screen
  <2> QED
    BY <2>3, <2>6, <2>7, <2>9, RunsOn
<1> QED
  BY <1>3, <1>4

-----------------------------------------------------------------------------
(* The steps of the main thread *)

\* What the invariant says of the running program
LEMMA WhenRunning ==
  ASSUME PInv, Running, BoundsAssumption
  PROVE  /\ Good(State, {}, drops, lua, disk) /\ Screen(State, drops, ui, hurried)
         /\ disk \in [Files -> Nat] /\ lua \in BOOLEAN /\ drops \in Nat /\ MaxWork \in Nat
<1>1. Epoch = drops
  BY DEF Epoch
<1> QED
  BY <1>1 DEF PInv, Rest, BoundsAssumption

LEMMA MoveCursorStep ==
  ASSUME PInv, FilesAssumption, TallAssumption, BoundsAssumption,
         NEW f \in Files \cup {None}, NEW immediate \in BOOLEAN, MoveCursor(f, immediate)
  PROVE  PInv'
<1>1. PICK s : s = State
  OBVIOUS
<1>2. Running /\ Cardinality(loads \cup checks) < MaxWork /\ OnCursorMoved(s, f, immediate)
      /\ UNCHANGED <<disk, lua, drops, phase>>
  BY <1>1 DEF MoveCursor, Move, Room
<1>3. Good(s, {}, drops, lua, disk) /\ s.pvs = pvs /\ s.loads = loads /\ s.checks = checks
  BY <1>1, <1>2, WhenRunning, StateFields
<1> QED
  BY <1>2, <1>3, CursorMoved

LEMMA ResizeStep ==
  ASSUME PInv, FilesAssumption, TallAssumption, BoundsAssumption,
         NEW n \in 1..(Tall - 1), Resize(n)
  PROVE  PInv'
<1>1. PICK s : s = State
  OBVIOUS
<1>2. PICK t : t = [s EXCEPT !.rows = n, !.raced = @ \cup {f \in Files : Underway(f) # {}}]
  OBVIOUS
<1>3. Running /\ Cardinality(loads \cup checks) < MaxWork /\ OnCursorMoved(t, ui.cursor, TRUE)
      /\ UNCHANGED <<disk, lua, drops, phase>>
  BY <1>1, <1>2 DEF Resize, Move, Room
<1>4. Good(s, {}, drops, lua, disk) /\ s.pvs = pvs /\ s.loads = loads /\ s.checks = checks
      /\ ui.cursor \in Files \cup {None}
  BY <1>1, <1>3, WhenRunning, StateFields DEF Screen
<1>5. n \in 1..Tall
  BY DEF TallAssumption
<1>6. t = [s EXCEPT !.rows = n, !.raced = @ \cup {f \in Files : Under(s, f) # {}}]
  BY <1>2, <1>4 DEF Under, Underway
<1>7. Good(t, {}, drops, lua, disk) /\ t.pvs = pvs /\ t.loads = loads /\ t.checks = checks
  BY <1>4, <1>5, <1>6, RowsGood
<1>8. PICK c : c = ui.cursor
  OBVIOUS
<1> QED
  BY <1>3, <1>4, <1>7, <1>8, CursorMoved

LEMMA CursorRestsStep ==
  ASSUME PInv, FilesAssumption, TallAssumption, BoundsAssumption, CursorRests
  PROVE  PInv'
<1>1. PICK s : s = State
  OBVIOUS
<1>2. PICK id : id = ui.preview
  OBVIOUS
<1>3. /\ Running /\ Cardinality(loads \cup checks) < MaxWork
      /\ ui' = [ui EXCEPT !.hidden = FALSE, !.resting = FALSE]
      /\ Becomes(IF id = None THEN s
                 ELSE IF pvs[id].status = "delayed" THEN Load(s, id) ELSE Check(s, id))
      /\ UNCHANGED <<disk, lua, drops, phase, hurried>>
  BY <1>1, <1>2 DEF CursorRests, Room
<1>4. Good(s, {}, drops, lua, disk) /\ s.pvs = pvs /\ s.loads = loads /\ s.checks = checks
      /\ Screen(s, drops, ui, hurried)
  BY <1>1, <1>3, WhenRunning, StateFields
<1>5. /\ ui' = [preview |-> ui'.preview, hidden |-> ui'.hidden, cursor |-> ui'.cursor,
                resting |-> ui'.resting]
      /\ ui'.preview = id /\ ui'.cursor = ui.cursor /\ ~ui'.hidden /\ ~ui'.resting
      /\ ui'.hidden = ui'.resting /\ ui'.resting \in BOOLEAN
  BY <1>2, <1>3, <1>4 DEF Screen
<1>6. CASE id = None
  <2>1. Becomes(s)
    BY <1>3, <1>6
  <2>2. Screen(s, drops, ui', hurried')
    BY <1>4, <1>5, <1>6 DEF Screen
  <2> QED
    BY <1>3, <1>4, <2>1, <2>2, RunsOn
<1>7. CASE id # None
  <2>1. id = <<ui.cursor, drops>> /\ ui.cursor \in Files /\ id \in DOMAIN s.pvs
    BY <1>2, <1>4, <1>7 DEF Screen
  <2>2. id[2] = drops
    BY <2>1
  <2>3. Takes(s, {}, drops, lua, id)
    BY <1>3, <1>4, <2>1, <2>2, WhenRunning DEF Takes
  <2>4. CASE pvs[id].status = "delayed"
    <3>1. PICK t : t = LoadWith(s, id, lua)
      OBVIOUS
    <3>2. Becomes(t)
      BY <1>3, <1>7, <2>4, <3>1 DEF Load
    <3>3. /\ Good(t, {}, drops, lua, disk) /\ Keeps(s, t, drops)
          /\ t.pvs[id].status = "loaded"
      BY <2>3, <3>1, LoadGood
    <3>4. Screen(t, drops, ui, hurried)
      BY <1>4, <3>3, ScreenKept
    <3>5. Screen(t, drops, ui', hurried')
      BY <1>2, <1>3, <1>5, <3>3, <3>4 DEF Screen
    <3> QED
      BY <1>3, <3>2, <3>3, <3>5, RunsOn
  <2>5. CASE pvs[id].status # "delayed"
    <3>1. PICK t : t = Check(s, id)
      OBVIOUS
    <3>2. Becomes(t)
      BY <1>3, <1>7, <2>5, <3>1
    <3>3. /\ Good(t, {}, drops, lua, disk) /\ Keeps(s, t, drops)
          /\ t.pvs[id].status = s.pvs[id].status
      BY <2>3, <3>1, CheckGood
    <3>4. Screen(t, drops, ui, hurried)
      BY <1>4, <3>3, ScreenKept
    <3>5. s.pvs[id].status = "loaded"
      BY <1>4, <2>1, <2>5 DEF Good, Shape, PreviewRec
    <3>6. Screen(t, drops, ui', hurried')
      BY <1>2, <1>3, <1>5, <3>3, <3>4, <3>5 DEF Screen
    <3> QED
      BY <1>3, <3>2, <3>3, <3>6, RunsOn
  <2> QED
    BY <2>4, <2>5
<1> QED
  BY <1>6, <1>7

\* The record that marks make of s
Marked(s, id, a, T) ==
  [pvs |-> [s.pvs EXCEPT ![id] = [s.pvs[id] EXCEPT !.in_progress = a, !.requested = FALSE]],
   timers |-> T, loads |-> s.loads, checks |-> s.checks, rows |-> s.rows,
   raced |-> s.raced, looked |-> s.looked]

\* T are the timers then: none is lost but that of id, when it is loaded.
CanMark(s, e, id, T) ==
  /\ id \in DOMAIN s.pvs /\ T \subseteq DOMAIN s.pvs /\ \A i \in T : i[2] = e
  /\ s.timers \ {id} \subseteq T
  /\ id \in s.timers \/ s.pvs[id].requested => id \in T \/ Under(s, id[1]) # {}

\* A Preview that is marked as in progress or not, with nothing requested any more
LEMMA MarkedGood ==
  ASSUME NEW s, NEW t, NEW owed, NEW e, NEW l, NEW dk, Good(s, owed, e, l, dk),
         NEW id, NEW a \in BOOLEAN, NEW T, CanMark(s, e, id, T), t = Marked(s, id, a, T)
  PROVE  Good(t, owed, e, l, dk) /\ Keeps(s, t, e) /\ t.pvs \in [DOMAIN s.pvs -> PreviewRec]
<1>0. /\ id \in DOMAIN s.pvs /\ T \subseteq DOMAIN s.pvs /\ \A i \in T : i[2] = e
      /\ s.timers \ {id} \subseteq T
      /\ id \in s.timers \/ s.pvs[id].requested => id \in T \/ Under(s, id[1]) # {}
  BY DEF CanMark
<1>1. Shape(s) /\ s.pvs[id] \in PreviewRec
  BY <1>0 DEF Good, Shape
<1>2. PICK q : q = [s.pvs[id] EXCEPT !.in_progress = a, !.requested = FALSE]
  OBVIOUS
<1>3. /\ q \in PreviewRec /\ q.requested = FALSE
      /\ q.ref = s.pvs[id].ref /\ q.cached = s.pvs[id].cached /\ q.status = s.pvs[id].status
      /\ q.loading = s.pvs[id].loading /\ q.height = s.pvs[id].height
      /\ q.mtime = s.pvs[id].mtime /\ q.content = s.pvs[id].content
      /\ q.draws = s.pvs[id].draws /\ q.holds = s.pvs[id].holds
  BY <1>1, <1>2 DEF PreviewRec
<1>4. /\ t = [pvs |-> t.pvs, timers |-> t.timers, loads |-> s.loads, checks |-> s.checks,
              rows |-> s.rows, raced |-> s.raced, looked |-> s.looked]
      /\ t.pvs = [s.pvs EXCEPT ![id] = q] /\ t.timers = T
  BY <1>2 DEF Marked
<1>5. /\ DOMAIN t.pvs = DOMAIN s.pvs /\ t.pvs[id] = q
      /\ \A i \in DOMAIN s.pvs : i # id => t.pvs[i] = s.pvs[i]
  BY <1>0, <1>4
<1>6. Marks(s, t, id)
  BY <1>0, <1>1, <1>3, <1>4, <1>5 DEF Marks, Shape
<1>7. Good(t, owed, e, l, dk) /\ Keeps(s, t, e)
  <2>1. /\ t.timers \subseteq DOMAIN s.pvs /\ \A i \in t.timers : i[2] = e
        /\ s.timers \ {id} \subseteq t.timers /\ t.pvs[id].status = s.pvs[id].status
        /\ t.pvs[id].status = "loaded" => s.pvs[id].status = "loaded"
        /\ t.pvs[id].loading /\ t.pvs[id].status = "loaded" =>
             s.pvs[id].loading \/ Under(s, id[1]) # {}
        /\ id \in s.timers \/ s.pvs[id].requested =>
             id \in t.timers \/ t.pvs[id].requested \/ Under(s, id[1]) # {}
    BY <1>0, <1>3, <1>4, <1>5
  <2> QED
    BY <1>0, <1>6, <2>1, MarkGood
<1> QED
  BY <1>6, <1>7 DEF Marks

LEMMA TimerFiresStep ==
  ASSUME PInv, FilesAssumption, TallAssumption, BoundsAssumption,
         NEW id \in timers, TimerFires(id)
  PROVE  PInv'
<1>1. PICK s : s = State
  OBVIOUS
<1>2. PICK t : t = LoadWith(s, id, lua)
  OBVIOUS
<1>3. PICK u : u = [[t EXCEPT !.pvs[id] = [@ EXCEPT !.in_progress = TRUE, !.requested = FALSE]]
                    EXCEPT !.timers = @ \ {id}]
  OBVIOUS
<1>4. /\ Running /\ Cardinality(loads \cup checks) < MaxWork /\ Becomes(u)
      /\ UNCHANGED <<disk, lua, drops, ui, phase, hurried>>
  BY <1>1, <1>2, <1>3 DEF TimerFires, Room, LoadScheduled, Load
<1>5. Good(s, {}, drops, lua, disk) /\ s.timers = timers /\ s.loads = loads /\ s.checks = checks
      /\ Screen(s, drops, ui, hurried)
  BY <1>1, <1>4, WhenRunning, StateFields
<1>6. Takes(s, {}, drops, lua, id)
  BY <1>4, <1>5, WhenRunning DEF Takes, Good, Shape, Current
<1>7. /\ Good(t, {}, drops, lua, disk) /\ Keeps(s, t, drops) /\ Under(t, id[1]) # {}
      /\ DOMAIN t.pvs = DOMAIN s.pvs /\ t.timers = s.timers
  BY <1>2, <1>6, LoadGood
<1>8. u = Marked(t, id, TRUE, t.timers \ {id})
  BY <1>3, <1>7 DEF Good, Shape, Marked
<1>9. CanMark(t, drops, id, t.timers \ {id})
  BY <1>5, <1>7 DEF Good, Shape, Current, CanMark
<1>10. Good(u, {}, drops, lua, disk) /\ Keeps(t, u, drops)
  BY <1>7, <1>8, <1>9, MarkedGood, ZenonT(60)
<1>11. Screen(u, drops, ui, hurried)
  BY <1>5, <1>7, <1>10, ScreenKept
<1> QED
  BY <1>4, <1>10, <1>11, RunsOn

LEMMA DropCacheStep ==
  ASSUME PInv, FilesAssumption, TallAssumption, BoundsAssumption,
         NEW l \in BOOLEAN, DropCache(l)
  PROVE  PInv'
<1>1. PICK s : s = State
  OBVIOUS
<1>2. PICK d : d = Dropped(s)
  OBVIOUS
<1>3. PICK id : id = <<ui.cursor, drops + 1>>
  OBVIOUS
<1>4. PICK c : c = [d EXCEPT !.pvs = WithCreated(@, id)]
  OBVIOUS
<1>5. PICK t : t = IF ui.cursor = None THEN d ELSE LoadWith(c, id, l)
  OBVIOUS
<1>6. /\ Running /\ Cardinality(loads \cup checks) < MaxWork /\ Becomes(t)
      /\ drops < MaxDrops /\ drops' = drops + 1 /\ lua' = l
      /\ ui' = [ui EXCEPT !.preview = IF ui.cursor = None THEN None ELSE id,
                          !.hidden = FALSE, !.resting = FALSE]
      /\ UNCHANGED <<disk, phase>>
  BY <1>1, <1>2, <1>3, <1>4, <1>5 DEF DropCache, Move, Room
<1>7. /\ Good(s, {}, drops, lua, disk) /\ s.loads = loads /\ s.checks = checks
      /\ Screen(s, drops, ui, hurried) /\ drops \in Nat /\ MaxDrops \in Nat /\ MaxWork \in Nat
      /\ disk \in [Files -> Nat]
  BY <1>1, <1>6, WhenRunning, StateFields DEF BoundsAssumption
<1>8. /\ Good(d, {}, drops + 1, l, disk) /\ \A i \in DOMAIN d.pvs : i[2] <= drops
      /\ Cardinality(d.loads \cup d.checks) = Cardinality(s.loads \cup s.checks)
  BY <1>2, <1>7, DropGood
<1>9. /\ Rest' /\ Ended' /\ Epoch' = drops + 1
  BY <1>6, <1>7 DEF PInv, Rest, Ended, Epoch, Running
<1>10. /\ ui' = [preview |-> ui'.preview, hidden |-> ui'.hidden, cursor |-> ui'.cursor,
                 resting |-> ui'.resting]
       /\ ui'.preview = (IF ui.cursor = None THEN None ELSE id) /\ ui'.cursor = ui.cursor
       /\ ~ui'.hidden /\ ui'.hidden = ui'.resting /\ ui'.resting \in BOOLEAN
       /\ ui.cursor \in Files \cup {None}
  BY <1>6, <1>7 DEF Screen
<1>11. CASE ui.cursor = None
  <2>1. t = d
    BY <1>5, <1>11
  <2>2. Screen(d, drops + 1, ui', hurried')
    BY <1>10, <1>11 DEF Screen
  <2> QED
    BY <1>6, <1>8, <1>9, <2>1, <2>2, Arrives
<1>12. CASE ui.cursor # None
  <2>1. id \in Files \X Nat /\ id[2] = drops + 1 /\ id[1] = ui.cursor /\ drops + 1 \in Nat
    BY <1>3, <1>7, <1>10, <1>12
  <2>2. id \notin DOMAIN d.pvs
    BY <1>7, <1>8, <2>1
  <2>3. c = [pvs |-> WithCreated(d.pvs, id), timers |-> d.timers, loads |-> d.loads,
             checks |-> d.checks, rows |-> d.rows, raced |-> d.raced, looked |-> d.looked]
    BY <1>4, <1>8 DEF Good, Shape
  <2>4. /\ Good(c, {}, drops + 1, l, disk) /\ id \in DOMAIN c.pvs
        /\ c.loads = d.loads /\ c.checks = d.checks
    BY <1>7, <1>8, <2>1, <2>2, <2>3, CreateGood
  <2>5. Takes(c, {}, drops + 1, l, id)
    <3>1. Cardinality(c.loads \cup c.checks) < MaxWork
      BY <1>6, <1>7, <1>8, <2>4
    <3> QED
      BY <1>7, <2>1, <2>4, <3>1 DEF Takes
  <2>6. t = LoadWith(c, id, l)
    BY <1>5, <1>12
  <2>7. /\ Good(t, {}, drops + 1, l, disk) /\ DOMAIN t.pvs = DOMAIN c.pvs
        /\ t.pvs[id].status = "loaded" /\ Under(t, id[1]) # {}
    BY <2>5, <2>6, LoadGood
  <2>8. Screen(t, drops + 1, ui', hurried')
    BY <1>3, <1>10, <1>12, <2>1, <2>4, <2>7 DEF Screen
  <2> QED
    BY <1>6, <1>9, <2>7, <2>8, Arrives
<1> QED
  BY <1>11, <1>12

LEMMA ChangeStep ==
  ASSUME PInv, FilesAssumption, BoundsAssumption, NEW f \in Changing, Change(f)
  PROVE  PInv'
<1>1. PICK s : s = State
  OBVIOUS
<1>2. PICK t : t = [s EXCEPT !.raced = IF Underway(f) # {} THEN raced \cup {f} ELSE raced,
                             !.looked = looked \ {f}]
  OBVIOUS
<1>3. /\ Running /\ disk[f] < MaxChanges /\ disk' = [disk EXCEPT ![f] = @ + 1] /\ f \in Files
      /\ UNCHANGED <<lua, drops, ui, phase, hurried>>
  BY DEF Change, FilesAssumption
<1>4. /\ Good(s, {}, drops, lua, disk) /\ Screen(s, drops, ui, hurried)
      /\ s.raced = raced /\ s.looked = looked /\ s.loads = loads
      /\ disk \in [Files -> 1..MaxChanges] /\ MaxChanges \in Nat
  BY <1>1, <1>3, WhenRunning, StateFields DEF PInv, Rest, BoundsAssumption
<1>5. Shape(s) /\ Counted(s, {}) /\ Current(s, drops) /\ Drawn(s, drops, lua) /\ Read(s, disk)
      /\ Waits(s, drops, lua, disk)
  BY <1>4 DEF Good
<1>6. /\ t = [pvs |-> t.pvs, timers |-> t.timers, loads |-> t.loads, checks |-> t.checks,
              rows |-> t.rows, raced |-> t.raced, looked |-> t.looked]
      /\ t.pvs = s.pvs /\ t.timers = s.timers /\ t.loads = s.loads /\ t.checks = s.checks
      /\ t.rows = s.rows /\ t.looked = s.looked \ {f}
      /\ t.raced = IF Under(s, f) # {} THEN s.raced \cup {f} ELSE s.raced
  BY <1>2, <1>4, <1>5 DEF Shape, Under, Underway
<1>7. Becomes(t)
  BY <1>1, <1>2, <1>6, StateFields DEF Change, Becomes
<1>8. /\ disk' \in [Files -> 1..MaxChanges] /\ disk'[f] = disk[f] + 1
      /\ \A g \in Files : /\ disk[g] \in Nat /\ disk'[g] \in Nat /\ disk[g] <= disk'[g]
                          /\ g # f => disk'[g] = disk[g]
  BY <1>3, <1>4
<1>9. Rest' /\ Ended' /\ Epoch' = drops /\ lua' = lua
  BY <1>3, <1>8 DEF PInv, Rest, Ended, Epoch, Running
<1>10. Shape(t)
  BY <1>5, <1>6 DEF Shape
<1>11. Counted(t, {})
  <2>1. \A i : Holders(t, i) = Holders(s, i)
    BY <1>6 DEF Holders
  <2>2. IsFiniteSet(t.loads \cup t.checks) /\ Cardinality(t.loads \cup t.checks) <= MaxWork
    BY <1>5, <1>6 DEF Counted
  <2> QED
    BY <1>5, <1>6, <2>1, <2>2 DEF Counted
<1>12. Current(t, drops)
  BY <1>5, <1>6 DEF Current
<1>13. Drawn(t, drops, lua)
  BY <1>5, <1>6 DEF Drawn
<1>14. (\A g : Under(t, g) = Under(s, g)) /\ s.raced \subseteq t.raced
  BY <1>6 DEF Under
<1>15. Read(t, disk')
  <2>1. ASSUME NEW i \in DOMAIN t.pvs
        PROVE  t.pvs[i].mtime <= disk'[i[1]] /\ t.pvs[i].content <= disk'[i[1]]
    <3>1. i[1] \in Files /\ t.pvs[i].mtime \in Nat /\ t.pvs[i].content \in Nat
      BY <1>10 DEF Shape, PreviewRec
    <3>2. t.pvs[i].mtime <= disk[i[1]] /\ t.pvs[i].content <= disk[i[1]]
      BY <1>5, <1>6 DEF Read
    <3>3. disk[i[1]] \in Nat /\ disk'[i[1]] \in Nat /\ disk[i[1]] <= disk'[i[1]]
      BY <1>8, <3>1
    <3> QED
      BY <3>1, <3>2, <3>3
  <2>2. ASSUME NEW w \in t.loads
        PROVE  /\ w.from <= disk'[w.pv[1]] 
               /\ w.mtime # None => w.mtime <= disk'[w.pv[1]]
               /\ w.child = "gone" \/ w.done => w.content \in 0..disk'[w.pv[1]]
               /\ w.done => w.mtime \in 0..disk'[w.pv[1]]
               /\ ~w.cancelled /\ w.pv[1] \notin t.raced =>
                    /\ w.height = t.rows /\ w.from = disk'[w.pv[1]]
                    /\ w.mtime # None \/ w.done => w.mtime = disk'[w.pv[1]]
                    /\ w.child = "gone" \/ w.done => w.content = disk'[w.pv[1]]
    <3>1. w \in LoadRec /\ w \in s.loads
      BY <1>6, <1>10 DEF Shape
    <3>2. w.pv[1] \in Files /\ w.from \in Nat /\ (w.mtime # None => w.mtime \in Nat)
      BY <3>1 DEF LoadRec
    <3>3. disk[w.pv[1]] \in Nat /\ disk'[w.pv[1]] \in Nat /\ disk[w.pv[1]] <= disk'[w.pv[1]]
      BY <1>8, <3>2
    <3>4. ~w.cancelled /\ w.pv[1] \notin t.raced =>
            w.pv[1] \notin s.raced /\ disk'[w.pv[1]] = disk[w.pv[1]]
      <4>1. ~w.cancelled /\ w.pv[1] = f => w \in Under(s, f)
        BY <3>1 DEF Under
      <4> QED
        BY <1>6, <1>8, <3>2, <4>1
    <3>5. /\ w.from <= disk[w.pv[1]] 
          /\ w.mtime # None => w.mtime <= disk[w.pv[1]]
          /\ w.child = "gone" \/ w.done => w.content \in 0..disk[w.pv[1]]
          /\ w.done => w.mtime \in 0..disk[w.pv[1]]
          /\ ~w.cancelled /\ w.pv[1] \notin s.raced =>
               /\ w.height = s.rows /\ w.from = disk[w.pv[1]]
               /\ w.mtime # None \/ w.done => w.mtime = disk[w.pv[1]]
               /\ w.child = "gone" \/ w.done => w.content = disk[w.pv[1]]
      BY <1>5, <3>1 DEF Read
    <3> QED
      BY <1>6, <3>2, <3>3, <3>4, <3>5
  <2> QED
    BY <2>1, <2>2 DEF Read
<1>16. Waits(t, drops, lua, disk')
  <2> SUFFICES ASSUME NEW i \in DOMAIN t.pvs, i[2] = drops
               PROVE  /\ t.pvs[i].status = "loaded" /\ t.pvs[i].loading => Under(t, i[1]) # {}
                      /\ i[1] \notin t.raced =>
                           Under(t, i[1]) # {} \/ t.pvs[i].mtime = t.pvs[i].content
                      /\ i[1] \in t.looked \ t.raced /\ ~lua /\ t.pvs[i].status = "loaded" =>
                           Noticed(t, i, disk')
    BY DEF Waits
  <2>1. i \in DOMAIN s.pvs /\ i[1] \in Files
    BY <1>6, <1>10 DEF Shape
  <2>2. i[1] \in t.looked \ t.raced => /\ i[1] \in s.looked \ s.raced
                                       /\ disk'[i[1]] = disk[i[1]]
    BY <1>6, <1>8, <1>14, <2>1
  <2>3. disk'[i[1]] = disk[i[1]] /\ Noticed(s, i, disk) => Noticed(t, i, disk')
    BY <1>6, <1>14 DEF Noticed
  <2> QED
    BY <1>5, <1>6, <1>14, <2>1, <2>2, <2>3 DEF Waits
<1>17. Screen(t, drops, ui', hurried')
  BY <1>3, <1>4, <1>6, <1>14 DEF Screen
<1>18. Good(t, {}, drops, lua, disk')
  BY <1>10, <1>11, <1>12, <1>13, <1>15, <1>16 DEF Good
<1> QED
  BY <1>7, <1>9, <1>17, <1>18, Arrives

-----------------------------------------------------------------------------
(* The steps of previewers and workers *)

\* What the invariant says of a load
LEMMA OfLoad ==
  ASSUME PInv, FilesAssumption, BoundsAssumption, NEW w \in loads
  PROVE  /\ w \in LoadRec /\ w.pv[1] \in Files /\ disk[w.pv[1]] \in Nat
         /\ w.done => /\ w.child # "runs"
                      /\ w.kind = IF w.child = "gone" /\ w.pv[1] \in Images THEN "image" ELSE "text"
         /\ w.from <= disk[w.pv[1]] 
         /\ w.mtime # None => w.mtime <= disk[w.pv[1]]
         /\ w.child = "gone" \/ w.done => w.content \in 0..disk[w.pv[1]]
         /\ w.done => w.mtime \in 0..disk[w.pv[1]]
         /\ ~w.cancelled /\ w.pv[1] \notin raced =>
              /\ w.from = disk[w.pv[1]]
              /\ w.mtime # None \/ w.done => w.mtime = disk[w.pv[1]]
              /\ w.child = "gone" \/ w.done => w.content = disk[w.pv[1]]
<1>1. PICK s : s = State
  OBVIOUS
<1>2. /\ Shape(s) /\ Drawn(s, Epoch, lua) /\ Read(s, disk) /\ w \in s.loads /\ s.raced = raced
      /\ disk \in [Files -> 1..MaxChanges]
  BY <1>1, StateFields DEF PInv, Rest, Good
<1>3. w \in LoadRec
  BY <1>2 DEF Shape
<1>4. w.pv[1] \in Files
  BY <1>3 DEF LoadRec
<1>5. disk[w.pv[1]] \in Nat
  BY <1>2, <1>4
<1> QED
  BY <1>2, <1>3, <1>4, <1>5 DEF Drawn, Read

LEMMA ReplaceStep ==
  ASSUME PInv, NEW w \in loads, NEW v, GoesOn(State, w, v, disk), Replace(w, v)
  PROVE  PInv'
<1>1. PICK s : s = State
  OBVIOUS
<1>2. PICK t : t = [pvs |-> s.pvs, timers |-> s.timers, loads |-> (s.loads \ {w}) \cup {v},
                    checks |-> s.checks, rows |-> s.rows, raced |-> s.raced, looked |-> s.looked]
  OBVIOUS
<1>3. Good(s, {}, Epoch, lua, disk) /\ Screen(s, Epoch, ui, hurried)
  BY <1>1 DEF PInv
<1>4. Good(t, {}, Epoch, lua, disk) /\ Keeps(s, t, Epoch)
  BY <1>1, <1>2, <1>3, ReplaceGood
<1>5. Screen(t, Epoch, ui, hurried)
  BY <1>3, <1>4, ScreenKept
<1>6. Becomes(t)
  BY <1>1, <1>2, StateFields DEF Replace, Becomes
<1>7. Rest' /\ Epoch' = Epoch /\ lua' = lua /\ disk' = disk /\ ui' = ui /\ hurried' = hurried
  BY DEF PInv, Rest, Replace, Epoch, Running
<1>8. Ended'
  <2>1. v.cancelled = w.cancelled
    BY DEF GoesOn
  <2> QED
    BY <2>1 DEF PInv, Ended, Running, Replace
<1> QED
  BY <1>4, <1>5, <1>6, <1>7, <1>8, Arrives

LEMMA LoadSteps ==
  ASSUME PInv, FilesAssumption, BoundsAssumption, NEW w \in loads,
         \/ \E seen \in 1..MaxChanges : ChildExits(w, seen)
         \/ ChildExitCb(w) \/ WorkerStats(w) \/ WorkerDone(w)
  PROVE  PInv'
<1>1. /\ State.raced = raced /\ w \in State.loads
  BY StateFields
<1>2. CASE \E seen \in 1..MaxChanges : ChildExits(w, seen)
  <2>1. PICK seen : seen \in w.from..disk[w.pv[1]] /\ w.child = "runs"
                    /\ Replace(w, [w EXCEPT !.child = "gone", !.content = seen])
    BY <1>2 DEF ChildExits
  <2>2. PICK v : v = [w EXCEPT !.child = "gone", !.content = seen]
    OBVIOUS
  <2>3. w.from \in Nat /\ w \in LoadRec
    BY OfLoad DEF LoadRec
  <2>4. seen \in 0..disk[w.pv[1]] /\ seen \in Nat
    BY <2>1, <2>3, OfLoad
  <2>5. /\ v.child = "gone" /\ v.content = seen /\ v.pv = w.pv /\ v.n = w.n
        /\ v.height = w.height /\ v.mtime = w.mtime /\ v.from = w.from /\ v.kind = w.kind
        /\ v.sem = w.sem /\ v.done = w.done /\ v.cancelled = w.cancelled /\ v \in LoadRec
    BY <2>2, <2>3, <2>4 DEF LoadRec
  <2>6. ~w.done
    BY <2>1, OfLoad
  <2>7. ~w.cancelled /\ w.pv[1] \notin raced => seen = disk[w.pv[1]]
    BY <2>1, <2>3, OfLoad
  <2>8. GoesOn(State, w, v, disk)
    BY <1>1, <2>1, <2>4, <2>5, <2>6, <2>7, OfLoad DEF GoesOn
  <2> QED
    BY <2>1, <2>2, <2>8, ReplaceStep
<1>3. CASE ChildExitCb(w)
  <2>1. PICK v : v = [w EXCEPT !.sem = TRUE]
    OBVIOUS
  <2>2. /\ v.child = w.child /\ v.content = w.content /\ v.pv = w.pv /\ v.n = w.n
        /\ v.height = w.height /\ v.mtime = w.mtime /\ v.from = w.from /\ v.kind = w.kind
        /\ v.done = w.done /\ v.cancelled = w.cancelled /\ v \in LoadRec
    BY <2>1, OfLoad DEF LoadRec
  <2>3. GoesOn(State, w, v, disk)
    BY <1>1, <2>2, OfLoad DEF GoesOn
  <2> QED
    BY <1>3, <2>1, <2>3, ReplaceStep DEF ChildExitCb
<1>4. CASE WorkerStats(w)
  <2>1. PICK v : v = [w EXCEPT !.mtime = disk[w.pv[1]]]
    OBVIOUS
  <2>2. /\ v.child = w.child /\ v.content = w.content /\ v.pv = w.pv /\ v.n = w.n
        /\ v.height = w.height /\ v.mtime = disk[w.pv[1]] /\ v.from = w.from /\ v.kind = w.kind
        /\ v.done = w.done /\ v.cancelled = w.cancelled /\ v \in LoadRec
    BY <2>1, OfLoad DEF LoadRec
  <2>3. GoesOn(State, w, v, disk)
    BY <1>1, <2>2, OfLoad DEF GoesOn
  <2> QED
    BY <1>4, <2>1, <2>3, ReplaceStep DEF WorkerStats
<1>5. CASE WorkerDone(w)
  <2>1. PICK v : v = [w EXCEPT !.done = TRUE,
                               !.content = IF w.child = "none" THEN disk[w.pv[1]] ELSE w.content,
                               !.kind = IF w.child = "gone" /\ w.pv[1] \in Images
                                        THEN "image" ELSE "text"]
    OBVIOUS
  <2>2. /\ v.child = w.child /\ v.pv = w.pv /\ v.n = w.n
        /\ v.content = (IF w.child = "none" THEN disk[w.pv[1]] ELSE w.content)
        /\ v.height = w.height /\ v.mtime = w.mtime /\ v.from = w.from
        /\ v.kind = (IF w.child = "gone" /\ w.pv[1] \in Images THEN "image" ELSE "text")
        /\ v.done /\ v.cancelled = w.cancelled /\ v \in LoadRec
    BY <2>1, OfLoad DEF LoadRec
  <2>3. w.mtime # None /\ (w.child = "none" \/ w.child = "gone")
    BY <1>5 DEF WorkerDone
  <2>4. w.mtime \in Nat
    BY <2>3, OfLoad DEF LoadRec
  <2>5. GoesOn(State, w, v, disk)
    BY <1>1, <2>2, <2>3, <2>4, OfLoad DEF GoesOn
  <2>6. Replace(w, v)
    BY <1>5, <2>1 DEF WorkerDone
  <2> QED
    BY <2>5, <2>6, ReplaceStep
<1> QED
  BY <1>2, <1>3, <1>4, <1>5

LEMMA WorkerChecksStep ==
  ASSUME PInv, FilesAssumption, BoundsAssumption, NEW c \in checks, WorkerChecks(c)
  PROVE  PInv'
<1>1. PICK s : s = State
  OBVIOUS
<1>2. /\ Good(s, {}, Epoch, lua, disk) /\ Screen(s, Epoch, ui, hurried) /\ s.pvs = pvs
      /\ s.loads = loads /\ s.checks = checks /\ disk \in [Files -> Nat] /\ MaxWork \in Nat
  BY <1>1, StateFields DEF PInv, Rest, BoundsAssumption
<1>3. Shape(s) /\ Counted(s, {}) /\ Current(s, Epoch) /\ Drawn(s, Epoch, lua) /\ Read(s, disk)
      /\ Waits(s, Epoch, lua, disk) /\ c \in CheckRec
  BY <1>2 DEF Good, Shape
<1>4. Rest' /\ Epoch' = Epoch /\ lua' = lua /\ disk' = disk /\ ui' = ui /\ hurried' = hurried
      /\ phase' = phase /\ timers' = timers /\ loads' = loads
  BY DEF WorkerChecks, PInv, Rest, Epoch, Running
<1>5. CASE disk[c.pv[1]] <= c.mtime
  <2>1. PICK t : t = Without(s, c)
    OBVIOUS
  <2>2. PICK u : u = Released(t, c.pv)
    OBVIOUS
  <2>3. Leaves(s, c, Epoch, disk)
    BY <1>2, <1>5 DEF Leaves, WorkerChecks
  <2>4. /\ Good(t, {c.pv}, Epoch, lua, disk) /\ Keeps(s, t, Epoch) /\ c.pv \in DOMAIN s.pvs
    BY <1>2, <2>1, <2>3, LeaveGood
  <2>5. c.pv \in DOMAIN t.pvs
    BY <2>1, <2>4 DEF Without
  <2>6. Good(u, {}, Epoch, lua, disk) /\ Keeps(t, u, Epoch)
    BY <2>2, <2>4, <2>5, DecGood
  <2>7. Screen(u, Epoch, ui, hurried)
    BY <1>2, <2>4, <2>6, ScreenKept
  <2>8. loads \ {c} = loads
    BY <1>2, <1>3 DEF Counted
  <2>9. Becomes(u)
    BY <1>1, <1>5, <2>1, <2>2, <2>8, StateFields DEF Becomes, WorkerChecks, Without, Released
  <2>10. Ended'
    <3>1. \A i \in DOMAIN pvs' : i \in DOMAIN pvs /\ pvs'[i].cached = pvs[i].cached
      <4>1. pvs' = DecRef(pvs, c.pv)
        BY <1>5 DEF WorkerChecks
      <4>2. \A i \in DOMAIN pvs : pvs[i] \in PreviewRec
        BY <1>2, <1>3 DEF Shape
      <4> QED
        BY <1>2, <2>4, <4>1, <4>2 DEF DecRef, Restrict, PreviewRec
    <3>2. Ended /\ phase # "stopped"
      BY DEF PInv, Ended
    <3> QED
      BY <1>4, <3>1, <3>2 DEF Ended, Running
  <2> QED
    BY <1>4, <2>6, <2>7, <2>9, <2>10, Arrives
<1>6. CASE ~(disk[c.pv[1]] <= c.mtime)
  <2>1. PICK v : v = [c EXCEPT !.done = TRUE]
    OBVIOUS
  <2>2. v \in CheckRec /\ v.pv = c.pv /\ v.n = c.n /\ v.done
    BY <1>3, <2>1 DEF CheckRec
  <2>3. PICK t : t = [pvs |-> s.pvs, timers |-> s.timers, loads |-> s.loads,
                      checks |-> (s.checks \ {c}) \cup {v}, rows |-> s.rows,
                      raced |-> s.raced, looked |-> s.looked]
    OBVIOUS
  <2>4. /\ t.pvs = s.pvs /\ t.timers = s.timers /\ t.rows = s.rows /\ t.raced = s.raced
        /\ t.looked = s.looked /\ t.loads = s.loads /\ t.checks = (s.checks \ {c}) \cup {v}
        /\ t = [pvs |-> t.pvs, timers |-> t.timers, loads |-> t.loads, checks |-> t.checks,
                rows |-> t.rows, raced |-> t.raced, looked |-> t.looked]
    BY <2>3
  <2>5. Shape(t)
    BY <1>3, <2>2, <2>4 DEF Shape
  <2>6. Counted(t, {})
    BY <1>2, <1>3, <2>2, <2>4, CountedReplace
  <2>7. Current(t, Epoch) /\ Drawn(t, Epoch, lua) /\ Read(t, disk)
    BY <1>3, <2>4 DEF Current, Drawn, Read
  <2>8. \A f : Under(t, f) = Under(s, f)
    BY <2>4 DEF Under
  <2>9. \A i : Noticed(s, i, disk) => Noticed(t, i, disk)
    <3> SUFFICES ASSUME NEW i, NEW d \in s.checks, d.pv = i, d.done \/ d.mtime < disk[i[1]]
                 PROVE  \E x \in t.checks : x.pv = i /\ (x.done \/ x.mtime < disk[i[1]])
      BY <2>4, <2>8 DEF Noticed
    <3>1. CASE d = c
      BY <2>2, <2>4, <3>1
    <3>2. CASE d # c
      BY <2>4, <3>2
    <3> QED
      BY <3>1, <3>2
  <2>10. Waits(t, Epoch, lua, disk)
    BY <1>3, <2>4, <2>8, <2>9 DEF Waits
  <2>11. Keeps(s, t, Epoch)
    BY <2>4, <2>8 DEF Keeps
  <2>12. Screen(t, Epoch, ui, hurried)
    BY <1>2, <2>11, ScreenKept
  <2>13. Good(t, {}, Epoch, lua, disk)
    BY <2>5, <2>6, <2>7, <2>10 DEF Good
  <2>14. Becomes(t) /\ pvs' = pvs
    BY <1>1, <1>6, <2>1, <2>3, StateFields DEF Becomes, WorkerChecks
  <2>15. Ended'
    <3>1. Ended /\ phase # "stopped"
      BY DEF PInv, Ended
    <3> QED
      BY <1>4, <2>14, <3>1 DEF Ended, Running
  <2> QED
    BY <1>4, <2>12, <2>13, <2>14, <2>15, Arrives
<1> QED
  BY <1>5, <1>6

LEMMA ApplyCheckStep ==
  ASSUME PInv, FilesAssumption, BoundsAssumption, NEW c \in checks, ApplyCheck(c)
  PROVE  PInv'
<1>1. PICK s : s = State
  OBVIOUS
<1>2. PICK id : id = c.pv
  OBVIOUS
<1>3. PICK a : a = [s EXCEPT !.checks = @ \ {c}]
  OBVIOUS
<1>4. PICK b : b = [Reload(a, id) EXCEPT !.pvs = DecRef(@, id)]
  OBVIOUS
<1>5. Running /\ Becomes(b) /\ UNCHANGED <<disk, lua, drops, ui, phase, hurried>>
  BY <1>1, <1>2, <1>3, <1>4 DEF ApplyCheck
<1>6. /\ Good(s, {}, drops, lua, disk) /\ Screen(s, drops, ui, hurried) /\ s.checks = checks
      /\ disk \in [Files -> Nat] /\ MaxWork \in Nat
  BY <1>1, <1>5, WhenRunning, StateFields
<1>7. Shape(s) /\ Counted(s, {}) /\ id \in DOMAIN s.pvs
  BY <1>2, <1>6 DEF Good, Counted
<1>8. PICK r : r = Reload(s, id)
  OBVIOUS
<1>9. /\ Good(r, {}, drops, lua, disk) /\ Keeps(s, r, drops)
      /\ r.loads = s.loads /\ r.checks = s.checks /\ DOMAIN r.pvs = DOMAIN s.pvs
      /\ id[2] = drops => id \in r.timers \/ r.pvs[id].requested
  BY <1>6, <1>7, <1>8, ReloadGood
<1>10. PICK t : t = Without(r, c)
  OBVIOUS
<1>11. Leaves(r, c, drops, disk)
  BY <1>2, <1>6, <1>9 DEF Leaves
<1>12. Good(t, {id}, drops, lua, disk) /\ Keeps(r, t, drops)
  BY <1>2, <1>6, <1>9, <1>10, <1>11, LeaveGood
<1>13. PICK u : u = Released(t, id)
  OBVIOUS
<1>14. id \in DOMAIN t.pvs
  BY <1>7, <1>9, <1>10 DEF Without
<1>15. Good(u, {}, drops, lua, disk) /\ Keeps(t, u, drops)
  BY <1>12, <1>13, <1>14, DecGood
<1>16. Screen(r, drops, ui, hurried)
  BY <1>6, <1>9, ScreenKept
<1>17. Screen(t, drops, ui, hurried)
  BY <1>12, <1>16, ScreenKept
<1>18. Screen(u, drops, ui, hurried)
  BY <1>15, <1>17, ScreenKept
<1>19. b = u
  <2>1. r.loads \ {c} = r.loads
    BY <1>6, <1>7, <1>9 DEF Counted
  <2>2. Reload(a, id) = [r EXCEPT !.checks = @ \ {c}]
    BY <1>3, <1>7, <1>8 DEF Reload, Shape
  <2>3. r = [pvs |-> r.pvs, timers |-> r.timers, loads |-> r.loads, checks |-> r.checks,
             rows |-> r.rows, raced |-> r.raced, looked |-> r.looked]
    BY <1>9 DEF Good, Shape
  <2>4. Reload(a, id) = t
    BY <1>10, <2>1, <2>2, <2>3 DEF Without
  <2> QED
    BY <1>4, <1>12, <1>13, <2>4 DEF Released, Good, Shape
<1> QED
  BY <1>5, <1>15, <1>18, <1>19, RunsOn

\* s with another Preview and other timers
With(s, id, p, T) ==
  [pvs |-> [s.pvs EXCEPT ![id] = p], timers |-> T, loads |-> s.loads, checks |-> s.checks,
   rows |-> s.rows, raced |-> s.raced, looked |-> s.looked]

Puts(t, s, id, p, T) ==
  id \in DOMAIN s.pvs /\ s.pvs \in [DOMAIN s.pvs -> PreviewRec] /\ t = With(s, id, p, T)

LEMMA PutFields ==
  ASSUME NEW t, NEW s, NEW id, NEW p, NEW T, Puts(t, s, id, p, T)
  PROVE  /\ t.pvs[id] = p /\ t.timers = T /\ DOMAIN t.pvs = DOMAIN s.pvs
         /\ t.loads = s.loads /\ t.checks = s.checks /\ t.rows = s.rows /\ t.raced = s.raced
         /\ t.looked = s.looked
BY DEF Puts, With

LEMMA PutAgain ==
  ASSUME NEW t, NEW s, NEW id, NEW p, NEW T, Puts(t, s, id, p, T), NEW q, NEW u,
         u = [t EXCEPT !.pvs[id] = q]
  PROVE  Puts(u, s, id, q, T)
<1>1. PICK f : f = [s.pvs EXCEPT ![id] = p]
  OBVIOUS
<1>2. PICK g : g = [s.pvs EXCEPT ![id] = q]
  OBVIOUS
<1>3. [f EXCEPT ![id] = q] = g
  BY <1>1, <1>2 DEF Puts
<1>4. t = [pvs |-> f, timers |-> T, loads |-> s.loads, checks |-> s.checks, rows |-> s.rows,
           raced |-> s.raced, looked |-> s.looked]
  BY <1>1 DEF Puts, With
<1>5. t.pvs = f
  BY <1>4
<1>6. u = [t EXCEPT !.pvs = g]
  BY <1>3, <1>5
<1>7. [t EXCEPT !.pvs = g] = [pvs |-> g, timers |-> T, loads |-> s.loads, checks |-> s.checks,
                              rows |-> s.rows, raced |-> s.raced, looked |-> s.looked]
  BY <1>4
<1> QED
  BY <1>2, <1>6, <1>7 DEF Puts, With

LEMMA PutTimers ==
  ASSUME NEW t, NEW s, NEW id, NEW p, NEW T, Puts(t, s, id, p, T), NEW U, NEW u,
         u = [t EXCEPT !.timers = U]
  PROVE  Puts(u, s, id, p, U)
<1>1. PICK f : f = [s.pvs EXCEPT ![id] = p]
  OBVIOUS
<1>2. t = [pvs |-> f, timers |-> T, loads |-> s.loads, checks |-> s.checks, rows |-> s.rows,
           raced |-> s.raced, looked |-> s.looked]
  BY <1>1 DEF Puts, With
<1>3. [t EXCEPT !.timers = U]
        = [pvs |-> f, timers |-> U, loads |-> s.loads, checks |-> s.checks, rows |-> s.rows,
           raced |-> s.raced, looked |-> s.looked]
  BY <1>2
<1> QED
  BY <1>1, <1>3 DEF Puts, With

LEMMA PutTwice ==
  ASSUME NEW s, NEW id, NEW p, NEW T, NEW t, Puts(t, s, id, p, T), NEW q, NEW U, NEW u,
         Puts(u, s, id, q, U)
  PROVE  With(t, id, q, U) = u
<1>1. PICK f : f = [s.pvs EXCEPT ![id] = p]
  OBVIOUS
<1>2. PICK g : g = [s.pvs EXCEPT ![id] = q]
  OBVIOUS
<1>3. [f EXCEPT ![id] = q] = g
  BY <1>1, <1>2 DEF Puts
<1>4. t.pvs = f /\ t.loads = s.loads /\ t.checks = s.checks /\ t.rows = s.rows
      /\ t.raced = s.raced /\ t.looked = s.looked
  BY <1>1 DEF Puts, With
<1>5. u = [pvs |-> g, timers |-> U, loads |-> s.loads, checks |-> s.checks,
           rows |-> s.rows, raced |-> s.raced, looked |-> s.looked]
  BY <1>2 DEF Puts, With
<1> QED
  BY <1>3, <1>4, <1>5 DEF With

\* A load depends on the works and the pane, and changes one Preview.
Alike(s, t) ==
  /\ s = [pvs |-> s.pvs, timers |-> s.timers, loads |-> s.loads, checks |-> s.checks,
          rows |-> s.rows, raced |-> s.raced, looked |-> s.looked]
  /\ t = [pvs |-> t.pvs, timers |-> s.timers, loads |-> s.loads, checks |-> s.checks,
          rows |-> s.rows, raced |-> s.raced, looked |-> s.looked]

Held(q) == [q EXCEPT !.status = "loaded", !.loading = TRUE, !.ref = q.ref + 1]
Likewise(c, t, id, p, a) ==
  c = [pvs |-> [t.pvs EXCEPT ![id] = p], timers |-> a.timers, loads |-> a.loads,
       checks |-> a.checks, rows |-> a.rows, raced |-> a.raced, looked |-> a.looked]

LEMMA LoadAlike ==
  ASSUME NEW s, NEW t, Alike(s, t), NEW id, NEW l, NEW a, a = LoadWith(s, id, l),
         NEW c, c = LoadWith(t, id, l), NEW p, p = Held(t.pvs[id])
  PROVE  Likewise(c, t, id, p, a)
<1> USE DEF Alike, Held
<1>1. t.timers = s.timers /\ t.loads = s.loads /\ t.checks = s.checks /\ t.rows = s.rows
      /\ t.raced = s.raced /\ t.looked = s.looked
  OBVIOUS
<1>2. Unused(t) = Unused(s)
  BY <1>1 DEF Unused
<1>3. PICK n : n = Unused(s)
  OBVIOUS
<1>4. PICK w : w = [pv |-> id, n |-> n, height |-> s.rows, mtime |-> None,
                    from |-> disk[id[1]], content |-> None, kind |-> None,
                    child |-> IF l THEN "none" ELSE "runs", sem |-> FALSE,
                    done |-> FALSE, cancelled |-> FALSE]
  OBVIOUS
<1>5. PICK R : R = IF \E v \in s.loads : v.pv[1] = id[1] /\ ~v.cancelled THEN s.raced
                   ELSE s.raced \ {id[1]}
  OBVIOUS
<1>6. a = [s EXCEPT !.pvs[id] = [s.pvs[id] EXCEPT !.status = "loaded", !.loading = TRUE,
                                                  !.ref = s.pvs[id].ref + 1],
                    !.loads = s.loads \cup {w}, !.raced = R, !.looked = s.looked \cup {id[1]}]
  BY <1>3, <1>4, <1>5 DEF LoadWith, Rows
<1>7. a.timers = s.timers /\ a.loads = s.loads \cup {w} /\ a.checks = s.checks /\ a.rows = s.rows
      /\ a.raced = R /\ a.looked = s.looked \cup {id[1]}
  BY <1>6
<1>8. c = [t EXCEPT !.pvs[id] = p, !.loads = t.loads \cup {w}, !.raced = R,
                    !.looked = t.looked \cup {id[1]}]
  BY <1>1, <1>2, <1>3, <1>4, <1>5 DEF LoadWith, Rows
<1>9. PICK ps : ps = [t.pvs EXCEPT ![id] = p]
  OBVIOUS
<1>10. c = [t EXCEPT !.pvs = ps, !.loads = t.loads \cup {w}, !.raced = R,
                     !.looked = t.looked \cup {id[1]}]
  BY <1>8, <1>9
<1>11. c = [pvs |-> ps, timers |-> s.timers, loads |-> s.loads \cup {w}, checks |-> s.checks,
            rows |-> s.rows, raced |-> R, looked |-> s.looked \cup {id[1]}]
  BY <1>1, <1>10
<1> QED
  BY <1>7, <1>9, <1>11 DEF Likewise

\* What a result and its callbacks make of a Preview does not depend on their order.
OrderIsFree(q, w, p) ==
  /\ Update([q EXCEPT !.in_progress = FALSE], w) = [p EXCEPT !.in_progress = FALSE]
  /\ Update([[q EXCEPT !.in_progress = FALSE] EXCEPT !.requested = FALSE], w)
       = [p EXCEPT !.in_progress = FALSE, !.requested = FALSE]
  /\ Update([[[q EXCEPT !.in_progress = FALSE] EXCEPT !.status = "loaded", !.loading = TRUE,
                                                      !.ref = q.ref + 1]
               EXCEPT !.in_progress = TRUE, !.requested = FALSE], w)
       = [[p EXCEPT !.status = "loaded", !.loading = TRUE, !.ref = p.ref + 1]
            EXCEPT !.loading = FALSE, !.in_progress = TRUE, !.requested = FALSE]

LEMMA UpdateOrder ==
  ASSUME NEW q \in PreviewRec, NEW w, NEW p, p = Update(q, w)
  PROVE  OrderIsFree(q, w, p)
<1>1. PICK ref, cached, status, loading, height, mtime, content, draws, holds, in_progress, requested :
        /\ q = [ref |-> ref, cached |-> cached, status |-> status, loading |-> loading,
                height |-> height, mtime |-> mtime, content |-> content, draws |-> draws,
                holds |-> holds, in_progress |-> in_progress, requested |-> requested]
        /\ requested \in BOOLEAN
  BY DEF PreviewRec
<1>2. p = [ref |-> ref, cached |-> cached, status |-> "loaded", loading |-> FALSE,
           height |-> w.height, mtime |-> w.mtime, content |-> w.content,
           draws |-> IF draws = "text" THEN w.kind ELSE "image",
           holds |-> w.kind, in_progress |-> in_progress, requested |-> requested]
  BY <1>1 DEF Update
<1>3. Update([q EXCEPT !.in_progress = FALSE], w) = [p EXCEPT !.in_progress = FALSE]
  BY <1>1, <1>2 DEF Update
<1>4. Update([[q EXCEPT !.in_progress = FALSE] EXCEPT !.requested = FALSE], w)
        = [p EXCEPT !.in_progress = FALSE, !.requested = FALSE]
  BY <1>1, <1>2, ZenonT(60) DEF Update
<1>5. Update([[[q EXCEPT !.in_progress = FALSE] EXCEPT !.status = "loaded", !.loading = TRUE,
                                                       !.ref = q.ref + 1]
                EXCEPT !.in_progress = TRUE, !.requested = FALSE], w)
        = [[p EXCEPT !.status = "loaded", !.loading = TRUE, !.ref = p.ref + 1]
             EXCEPT !.loading = FALSE, !.in_progress = TRUE, !.requested = FALSE]
  BY <1>1, <1>2, ZenonT(60) DEF Update
<1> QED
  BY <1>3, <1>4, <1>5 DEF OrderIsFree

\* A result, and what the loader does once it was told
Calls(s, w, x, z) ==
  /\ x \in Called([s EXCEPT !.loads = @ \ {w}], w.pv)
  /\ z = [x EXCEPT !.pvs[w.pv] = Update(@, w)]

LEMMA CalledGood ==
  ASSUME FilesAssumption, BoundsAssumption, NEW s, NEW w \in s.loads,
         Good(s, {}, drops, lua, disk), lua \in BOOLEAN, disk \in [Files -> Nat],
         w.done, ~w.cancelled, NEW x, NEW z, Calls(s, w, x, z)
  PROVE  /\ Good(z, {w.pv}, drops, lua, disk) /\ w.pv \in DOMAIN z.pvs
         /\ \A u, h : Screen(s, drops, u, h) => Screen(z, drops, u, h)
<1> USE DEF Calls
<1>1. PICK id : id = w.pv
  OBVIOUS
<1>2. Shape(s) /\ Counted(s, {}) /\ Current(s, drops)
  BY DEF Good
<1>3. id \in DOMAIN s.pvs /\ id[2] = drops /\ s.pvs \in [DOMAIN s.pvs -> PreviewRec]
  BY <1>1, <1>2 DEF Counted, Current, Shape
<1>4. PICK q : q = s.pvs[id]
  OBVIOUS
<1>5. q \in PreviewRec
  BY <1>3, <1>4
<1>6. PICK F : F = Finished(s, w)
  OBVIOUS
<1>7. /\ Good(F, {id}, drops, lua, disk) /\ Keeps(s, F, drops)
      /\ Cardinality(F.loads \cup F.checks) < MaxWork
  BY <1>1, <1>6, FinishGood, ZenonT(60) DEF BoundsAssumption
<1>8. PICK p : p = Update(q, w)
  OBVIOUS
<1>9. PICK r : r = [pvs |-> s.pvs, timers |-> s.timers, loads |-> s.loads \ {w},
                    checks |-> s.checks, rows |-> s.rows, raced |-> s.raced, looked |-> s.looked]
  OBVIOUS
<1>10. r = [s EXCEPT !.loads = @ \ {w}] /\ r.pvs = s.pvs /\ r.timers = s.timers
  <2>1. PICK L : L = s.loads \ {w}
    OBVIOUS
  <2>3. s = [pvs |-> s.pvs, timers |-> s.timers, loads |-> s.loads, checks |-> s.checks,
             rows |-> s.rows, raced |-> s.raced, looked |-> s.looked]
    BY <1>2 DEF Shape
  <2>4. r = [pvs |-> s.pvs, timers |-> s.timers, loads |-> L, checks |-> s.checks,
             rows |-> s.rows, raced |-> s.raced, looked |-> s.looked]
    BY <1>9, <2>1
  <2>2. r = [s EXCEPT !.loads = L]
    BY <2>3, <2>4
  <2> QED
    BY <1>9, <2>1, <2>2
<1>11. Puts(F, r, id, p, s.timers)
  BY <1>1, <1>3, <1>4, <1>6, <1>8, <1>9 DEF Finished, With, Puts
<1>12. F.pvs[id] = p /\ DOMAIN F.pvs = DOMAIN s.pvs /\ F.timers = s.timers
  <2>1. F.pvs[id] = p /\ DOMAIN F.pvs = DOMAIN r.pvs /\ F.timers = s.timers
    BY <1>11, PutFields
  <2> QED
    BY <1>10, <2>1
<1>13. p.requested = q.requested
  BY <1>5, <1>8 DEF Update, PreviewRec
<1>20. OrderIsFree(q, w, p)
  BY <1>5, <1>8, UpdateOrder
<1>14. PICK n : n = [q EXCEPT !.in_progress = FALSE]
  OBVIOUS
<1>15. PICK y : y = With(r, id, n, s.timers)
  OBVIOUS
<1>16. /\ ~q.requested => x = y
       /\ q.requested => \/ x = LoadScheduled(y, id)
                         \/ x = [y EXCEPT !.timers = @ \cup {id}, !.pvs[id].requested = FALSE]
  <2>1. [r EXCEPT !.pvs[id].in_progress = FALSE] = y
    <3>1. [r EXCEPT !.pvs[id].in_progress = FALSE] = [r EXCEPT !.pvs[id] = n]
      BY <1>4, <1>10, <1>14
    <3>2. PICK g : g = [s.pvs EXCEPT ![id] = n]
      OBVIOUS
    <3>3. [r EXCEPT !.pvs = g]
            = [pvs |-> g, timers |-> s.timers, loads |-> s.loads \ {w}, checks |-> s.checks,
               rows |-> s.rows, raced |-> s.raced, looked |-> s.looked]
      BY <1>9, SMTT(40)
    <3>4. y = [pvs |-> g, timers |-> s.timers, loads |-> s.loads \ {w}, checks |-> s.checks,
               rows |-> s.rows, raced |-> s.raced, looked |-> s.looked]
      BY <1>9, <1>15, <3>2 DEF With
    <3> QED
      BY <1>10, <3>1, <3>2, <3>3, <3>4
  <2> QED
    BY <1>1, <1>4, <1>10, <2>1 DEF Called
<1>21. Puts(y, r, id, n, s.timers)
  BY <1>3, <1>10, <1>15 DEF Puts
<1>17. y.pvs[id] = n /\ y.timers = s.timers
  BY <1>21, PutFields
<1>18. CASE ~q.requested
  <2>2. PICK m : m = Update(n, w)
    OBVIOUS
  <2>1. z = [y EXCEPT !.pvs[id] = m]
    BY <1>1, <1>16, <1>17, <1>18, <2>2
  <2>3. Puts(z, r, id, m, s.timers)
    BY <1>21, <2>1, PutAgain
  <2>4. m = [p EXCEPT !.in_progress = FALSE]
    BY <1>14, <1>20, <2>2 DEF OrderIsFree
  <2>5. m = [p EXCEPT !.in_progress = FALSE, !.requested = FALSE]
    BY <1>5, <1>8, <1>13, <1>18, <2>4 DEF Update, PreviewRec
  <2>6. With(F, id, m, s.timers) = z
    BY <1>11, <2>3, PutTwice
  <2>7. z = Marked(F, id, FALSE, F.timers)
    BY <1>12, <2>5, <2>6 DEF Marked, With
  <2>8. CanMark(F, drops, id, F.timers)
    BY <1>3, <1>7, <1>12, <1>13, <1>18 DEF CanMark, Good, Shape, Current
  <2>9. Good(z, {id}, drops, lua, disk) /\ Keeps(F, z, drops) /\ z.pvs \in [DOMAIN F.pvs -> PreviewRec]
    BY <1>7, <2>7, <2>8, MarkedGood
  <2> QED
    BY <1>1, <1>3, <1>7, <1>12, <2>9, ScreenKept
<1>19. CASE q.requested /\ x = [y EXCEPT !.timers = @ \cup {id}, !.pvs[id].requested = FALSE]
  <2>1. PICK k : k = [n EXCEPT !.requested = FALSE]
    OBVIOUS
  <2>2. PICK T : T = s.timers \cup {id}
    OBVIOUS
  <2>3. Puts(x, r, id, k, T)
    <3>1. PICK v : v = [y EXCEPT !.timers = T]
      OBVIOUS
    <3>2. Puts(v, r, id, n, T)
      BY <1>21, <3>1, PutTimers
    <3>3. v.pvs[id] = n
      BY <3>2, PutFields
    <3>4. x = [v EXCEPT !.pvs[id].requested = FALSE]
      BY <1>17, <1>19, <2>2, <3>1
    <3>5. x = [v EXCEPT !.pvs[id] = k]
      BY <2>1, <3>3, <3>4
    <3> QED
      BY <3>2, <3>5, PutAgain
  <2>4. PICK m : m = Update(k, w)
    OBVIOUS
  <2>5. Puts(z, r, id, m, T)
    <3>1. x.pvs[id] = k
      BY <2>3, PutFields
    <3>2. z = [x EXCEPT !.pvs[id] = m]
      BY <1>1, <2>4, <3>1
    <3> QED
      BY <2>3, <3>2, PutAgain
  <2>6. m = [p EXCEPT !.in_progress = FALSE, !.requested = FALSE]
    BY <1>14, <1>20, <2>1, <2>4 DEF OrderIsFree
  <2>7. With(F, id, m, T) = z
    BY <1>11, <2>5, PutTwice
  <2>8. z = Marked(F, id, FALSE, T)
    BY <1>12, <2>6, <2>7 DEF Marked, With
  <2>9. CanMark(F, drops, id, T)
    BY <1>3, <1>7, <1>12, <2>2 DEF CanMark, Good, Shape, Current
  <2>10. Good(z, {id}, drops, lua, disk) /\ Keeps(F, z, drops) /\ z.pvs \in [DOMAIN F.pvs -> PreviewRec]
    BY <1>7, <2>8, <2>9, MarkedGood
  <2> QED
    BY <1>1, <1>3, <1>7, <1>12, <2>10, ScreenKept
<1>22. CASE q.requested /\ x = LoadScheduled(y, id)
  <2>1. PICK a : a = LoadWith(F, id, lua)
    OBVIOUS
  <2>2. Takes(F, {id}, drops, lua, id)
    BY <1>3, <1>7, <1>12 DEF Takes, BoundsAssumption
  <2>3. /\ Good(a, {id}, drops, lua, disk) /\ Keeps(F, a, drops) /\ Under(a, id[1]) # {}
        /\ DOMAIN a.pvs = DOMAIN F.pvs /\ a.timers = F.timers
    BY <2>1, <2>2, LoadGood
  <2>4. Shape(F) /\ Shape(a)
    BY <1>7, <2>3 DEF Good
  <2>5. F = [pvs |-> F.pvs, timers |-> F.timers, loads |-> F.loads, checks |-> F.checks,
             rows |-> F.rows, raced |-> F.raced, looked |-> F.looked]
    BY <2>4 DEF Shape
  <2>6. y = [pvs |-> y.pvs, timers |-> F.timers, loads |-> F.loads, checks |-> F.checks,
             rows |-> F.rows, raced |-> F.raced, looked |-> F.looked]
    <3>1. /\ F.timers = s.timers /\ F.loads = r.loads /\ F.checks = r.checks /\ F.rows = r.rows
          /\ F.raced = r.raced /\ F.looked = r.looked
      BY <1>11, PutFields
    <3>2. y = [pvs |-> y.pvs, timers |-> s.timers, loads |-> r.loads, checks |-> r.checks,
               rows |-> r.rows, raced |-> r.raced, looked |-> r.looked]
      BY <1>15 DEF With
    <3> QED
      BY <3>1, <3>2
  <2>7. PICK pa : pa = [p EXCEPT !.status = "loaded", !.loading = TRUE, !.ref = p.ref + 1]
    OBVIOUS
  <2>8. PICK ny : ny = [n EXCEPT !.status = "loaded", !.loading = TRUE, !.ref = n.ref + 1]
    OBVIOUS
  <2>9. PICK b : b = [pvs |-> s.pvs, timers |-> a.timers, loads |-> a.loads, checks |-> a.checks,
                      rows |-> a.rows, raced |-> a.raced, looked |-> a.looked]
    OBVIOUS
  <2>10. Puts(a, b, id, pa, a.timers)
    <3>3. Alike(F, F)
      BY <2>5 DEF Alike
    <3>4. pa = Held(F.pvs[id])
      BY <1>12, <2>7 DEF Held
    <3>5. Likewise(a, F, id, pa, a)
      BY <2>1, <3>3, <3>4, LoadAlike
    <3>1. a = [pvs |-> [F.pvs EXCEPT ![id] = pa], timers |-> a.timers, loads |-> a.loads,
               checks |-> a.checks, rows |-> a.rows, raced |-> a.raced, looked |-> a.looked]
      BY <3>5 DEF Likewise
    <3>2. [F.pvs EXCEPT ![id] = pa] = [s.pvs EXCEPT ![id] = pa]
      BY <1>3, <1>10, <1>11 DEF Puts, With
    <3> QED
      BY <1>3, <2>9, <3>1, <3>2 DEF Puts, With
  <2>11. PICK c : c = LoadWith(y, id, lua)
    OBVIOUS
  <2>12. Puts(c, b, id, ny, a.timers)
    <3>3. Alike(F, y)
      BY <2>5, <2>6 DEF Alike
    <3>4. ny = Held(y.pvs[id])
      BY <1>17, <2>8 DEF Held
    <3>5. Likewise(c, y, id, ny, a)
      BY <2>1, <2>11, <3>3, <3>4, LoadAlike
    <3>1. c = [pvs |-> [y.pvs EXCEPT ![id] = ny], timers |-> a.timers, loads |-> a.loads,
               checks |-> a.checks, rows |-> a.rows, raced |-> a.raced, looked |-> a.looked]
      BY <3>5 DEF Likewise
    <3>2. [y.pvs EXCEPT ![id] = ny] = [s.pvs EXCEPT ![id] = ny]
      BY <1>3, <1>10, <1>21 DEF Puts, With
    <3> QED
      BY <1>3, <2>9, <3>1, <3>2 DEF Puts, With
  <2>13. PICK nx : nx = [ny EXCEPT !.in_progress = TRUE, !.requested = FALSE]
    OBVIOUS
  <2>14. Puts(x, b, id, nx, a.timers)
    <3>1. c.pvs[id] = ny
      BY <2>12, PutFields
    <3>2. x = [c EXCEPT !.pvs[id] = nx]
      BY <1>22, <2>11, <2>13, <3>1 DEF LoadScheduled, Load
    <3> QED
      BY <2>12, <3>2, PutAgain
  <2>15. PICK m : m = Update(nx, w)
    OBVIOUS
  <2>16. Puts(z, b, id, m, a.timers)
    <3>1. x.pvs[id] = nx
      BY <2>14, PutFields
    <3>2. z = [x EXCEPT !.pvs[id] = m]
      BY <1>1, <2>15, <3>1
    <3> QED
      BY <2>14, <3>2, PutAgain
  <2>17. m = [pa EXCEPT !.loading = FALSE, !.in_progress = TRUE, !.requested = FALSE]
    <3>1. n.ref = q.ref
      BY <1>5, <1>14 DEF PreviewRec
    <3> QED
      BY <1>14, <1>20, <2>7, <2>8, <2>13, <2>15, <3>1 DEF OrderIsFree
  <2>18. a.pvs[id] = pa /\ pa \in PreviewRec
    <3>1. a.pvs[id] = pa
      BY <2>10, PutFields
    <3>2. id \in DOMAIN a.pvs
      BY <1>3, <1>12, <2>3
    <3> QED
      BY <2>4, <3>1, <3>2 DEF Shape
  <2>19. /\ m \in PreviewRec /\ ~m.loading /\ m.status = pa.status
         /\ m.ref = pa.ref /\ m.cached = pa.cached /\ m.height = pa.height
         /\ m.mtime = pa.mtime /\ m.content = pa.content /\ m.draws = pa.draws
         /\ m.holds = pa.holds
    BY <2>17, <2>18 DEF PreviewRec
  <2>20. With(a, id, m, a.timers) = z
    BY <2>10, <2>16, PutTwice
  <2>21. /\ z = [pvs |-> z.pvs, timers |-> z.timers, loads |-> a.loads, checks |-> a.checks,
                 rows |-> a.rows, raced |-> a.raced, looked |-> a.looked]
         /\ z.pvs = [a.pvs EXCEPT ![id] = m] /\ z.timers = a.timers
    BY <2>20 DEF With
  <2>22. id \in DOMAIN a.pvs /\ z.pvs[id] = m /\ DOMAIN z.pvs = DOMAIN a.pvs
         /\ \A i \in DOMAIN a.pvs : i # id => z.pvs[i] = a.pvs[i]
    BY <1>3, <1>12, <2>3, <2>21
  <2>23. Marks(a, z, id)
    BY <2>4, <2>18, <2>19, <2>21, <2>22, ZenonT(60) DEF Marks, Shape
  <2>24. /\ z.timers \subseteq DOMAIN a.pvs /\ \A i \in z.timers : i[2] = drops
         /\ a.timers \ {id} \subseteq z.timers /\ z.pvs[id].status = a.pvs[id].status
         /\ z.pvs[id].status = "loaded" => a.pvs[id].status = "loaded"
         /\ z.pvs[id].loading /\ z.pvs[id].status = "loaded" =>
              a.pvs[id].loading \/ Under(a, id[1]) # {}
         /\ id \in a.timers \/ a.pvs[id].requested =>
              id \in z.timers \/ z.pvs[id].requested \/ Under(a, id[1]) # {}
    <3>1. Current(a, drops)
      BY <2>3 DEF Good
    <3> QED
      BY <2>3, <2>4, <2>18, <2>19, <2>21, <2>22, <3>1 DEF Shape, Current
  <2>25. Good(z, {id}, drops, lua, disk) /\ Keeps(a, z, drops)
    BY <2>3, <2>22, <2>23, <2>24, MarkGood
  <2>26. \A u, h : Screen(s, drops, u, h) => Screen(z, drops, u, h)
    BY <1>7, <2>3, <2>25, ScreenKept
  <2> QED
    BY <1>1, <2>22, <2>25, <2>26
<1> QED
  BY <1>16, <1>18, <1>19, <1>22

\* The result was dealt with, and its reference is given back.
LEMMA GivesBack ==
  ASSUME PInv, Running, UNCHANGED <<disk, lua, drops, ui, phase, hurried>>, NEW t, NEW id,
         Good(t, {id}, drops, lua, disk), id \in DOMAIN t.pvs, Screen(t, drops, ui, hurried),
         NEW b, b = [t EXCEPT !.pvs = DecRef(@, id)], Becomes(b)
  PROVE  PInv'
<1>1. PICK u : u = Released(t, id)
  OBVIOUS
<1>2. Good(u, {}, drops, lua, disk) /\ Keeps(t, u, drops)
  BY <1>1, DecGood
<1>3. Screen(u, drops, ui, hurried)
  BY <1>2, ScreenKept
<1>4. b = u
  <2>1. t = [pvs |-> t.pvs, timers |-> t.timers, loads |-> t.loads, checks |-> t.checks,
             rows |-> t.rows, raced |-> t.raced, looked |-> t.looked]
    BY DEF Good, Shape
  <2>2. PICK d : d = DecRef(t.pvs, id)
    OBVIOUS
  <2> QED
    BY <1>1, <2>1, <2>2 DEF Released
<1> QED
  BY <1>2, <1>3, <1>4, RunsOn

LEMMA ApplyStep ==
  ASSUME PInv, FilesAssumption, BoundsAssumption, NEW w \in loads, Apply(w)
  PROVE  PInv'
<1>1. PICK s : s = State
  OBVIOUS
<1>2. PICK id : id = w.pv
  OBVIOUS
<1>3. PICK r : r = [s EXCEPT !.loads = @ \ {w}]
  OBVIOUS
<1>4. PICK x \in IF w.cancelled \/ w.child = "none" THEN {r} ELSE Called(r, id) :
        Becomes([(IF w.cancelled THEN x ELSE [x EXCEPT !.pvs[id] = Update(@, w)])
                   EXCEPT !.pvs = DecRef(@, id)])
  BY <1>1, <1>2, <1>3 DEF Apply
<1>5. Running /\ w.done /\ UNCHANGED <<disk, lua, drops, ui, phase, hurried>>
  BY DEF Apply
<1>6. /\ Good(s, {}, drops, lua, disk) /\ Screen(s, drops, ui, hurried) /\ w \in s.loads
      /\ disk \in [Files -> Nat] /\ lua \in BOOLEAN /\ MaxWork \in Nat
  BY <1>1, <1>5, WhenRunning, StateFields
<1>7. Shape(s) /\ Counted(s, {}) /\ id \in DOMAIN s.pvs
  BY <1>2, <1>6 DEF Good, Counted
<1>8. r = [pvs |-> s.pvs, timers |-> s.timers, loads |-> s.loads \ {w}, checks |-> s.checks,
           rows |-> s.rows, raced |-> s.raced, looked |-> s.looked]
  <2>1. PICK L : L = s.loads \ {w}
    OBVIOUS
  <2>2. r = [s EXCEPT !.loads = L]
    BY <1>3, <2>1
  <2> QED
    BY <1>7, <2>1, <2>2 DEF Shape
<1>9. CASE w.cancelled
  <2>1. PICK t : t = Without(s, w)
    OBVIOUS
  <2>2. /\ Good(t, {id}, drops, lua, disk) /\ Keeps(s, t, drops) /\ id \in DOMAIN t.pvs
    <3>1. Leaves(s, w, drops, disk)
      BY <1>6, <1>9 DEF Leaves
    <3>2. Good(t, {id}, drops, lua, disk) /\ Keeps(s, t, drops)
      BY <1>2, <1>6, <2>1, <3>1, LeaveGood
    <3> QED
      BY <1>7, <2>1, <3>2 DEF Without
  <2>3. Screen(t, drops, ui, hurried)
    BY <1>6, <2>2, ScreenKept
  <2>4. x = t
    <3>1. s.checks \ {w} = s.checks
      BY <1>6, <1>7 DEF Counted
    <3> QED
      BY <1>4, <1>8, <1>9, <2>1, <3>1 DEF Without
  <2> QED
    BY <1>4, <1>5, <1>9, <2>2, <2>3, <2>4, GivesBack
<1>10. CASE ~w.cancelled
  <2>1. PICK z : z = [x EXCEPT !.pvs[id] = Update(@, w)]
    OBVIOUS
  <2>2. /\ Good(z, {id}, drops, lua, disk) /\ id \in DOMAIN z.pvs
        /\ Screen(z, drops, ui, hurried)
    <3>1. CASE w.child = "none"
      <4>1. PICK t : t = Finished(s, w)
        OBVIOUS
      <4>2. Good(t, {id}, drops, lua, disk) /\ Keeps(s, t, drops)
        BY <1>2, <1>5, <1>6, <1>10, <4>1, FinishGood
      <4>3. t = z
        <5>1. PICK g : g = [s.pvs EXCEPT ![id] = Update(@, w)]
          OBVIOUS
        <5>2. x = r /\ r.pvs = s.pvs
          BY <1>4, <1>8, <3>1
        <5>3. z = [r EXCEPT !.pvs = g]
          BY <2>1, <5>1, <5>2
        <5> QED
          BY <1>2, <1>8, <4>1, <5>1, <5>3 DEF Finished
      <4>4. id \in DOMAIN t.pvs
        BY <1>2, <1>7, <4>1 DEF Finished
      <4> QED
        BY <1>6, <4>2, <4>3, <4>4, ScreenKept
    <3>2. CASE w.child # "none"
      <4>1. Calls(s, w, x, z)
        BY <1>2, <1>3, <1>4, <1>10, <2>1, <3>2 DEF Calls
      <4>3. /\ Good(z, {w.pv}, drops, lua, disk) /\ w.pv \in DOMAIN z.pvs
            /\ \A u, h : Screen(s, drops, u, h) => Screen(z, drops, u, h)
        BY <1>5, <1>6, <1>10, <4>1, CalledGood
      <4> QED
        BY <1>2, <1>6, <4>3
    <3> QED
      BY <3>1, <3>2
  <2> QED
    BY <1>4, <1>5, <1>10, <2>1, <2>2, GivesBack
<1> QED
  BY <1>9, <1>10

LEMMA QuitStep ==
  ASSUME PInv, BoundsAssumption, Quit
  PROVE  PInv'
<1>1. PICK s : s = State
  OBVIOUS
<1>2. PICK t : t = Dropped(s)
  OBVIOUS
<1>3. /\ Running /\ phase' = "stopping" /\ Becomes(t) /\ ui' = [ui EXCEPT !.preview = None]
      /\ UNCHANGED <<disk, lua, drops>>
  BY <1>1, <1>2 DEF Quit
<1>4. /\ Good(s, {}, drops, lua, disk) /\ Screen(s, drops, ui, hurried) /\ drops \in Nat
  BY <1>1, <1>3, WhenRunning
<1>5. /\ Good(t, {}, drops + 1, lua, disk) /\ t.timers = {}
      /\ \A id \in DOMAIN t.pvs : ~t.pvs[id].cached
      /\ \A w \in t.loads : w.cancelled
  BY <1>2, <1>4, DropGood
<1>6. /\ ui' = [preview |-> ui'.preview, hidden |-> ui'.hidden, cursor |-> ui'.cursor,
                resting |-> ui'.resting]
      /\ ui'.preview = None /\ ui'.cursor \in Files \cup {None}
      /\ ui'.resting \in BOOLEAN /\ ui'.hidden = ui'.resting
  BY <1>3, <1>4 DEF Screen
<1>7. Screen(t, drops + 1, ui', hurried')
  BY <1>6 DEF Screen
<1>8. Rest' /\ Ended' /\ Epoch' = drops + 1
  BY <1>3, <1>5, <1>6 DEF PInv, Rest, Ended, Epoch, Running, Becomes
<1> QED
  BY <1>3, <1>5, <1>7, <1>8, Arrives

\* Nothing is left: the cache gave its references back, and loads and checks give theirs.
LEMMA NothingGood ==
  ASSUME NEW t, BoundsAssumption, NEW e, NEW l, NEW dk, t.rows \in 1..Tall,
         t = [pvs |-> t.pvs, timers |-> {}, loads |-> {}, checks |-> {}, rows |-> t.rows,
              raced |-> t.raced, looked |-> t.looked],
         DOMAIN t.pvs = {}, t.pvs = [i \in {} |-> t.pvs[i]]
  PROVE  Good(t, {}, e, l, dk)
<1>1. t.timers = {} /\ t.loads = {} /\ t.checks = {}
  OBVIOUS
<1>2. Shape(t)
  <2>1. t.pvs \in [DOMAIN t.pvs -> PreviewRec]
    OBVIOUS
  <2> QED
    BY <1>1, <2>1 DEF Shape
<1>3. Counted(t, {})
  <2>1. t.loads \cup t.checks = {}
    BY <1>1
  <2>2. IsFiniteSet({}) /\ Cardinality({}) = 0
    BY FS_EmptySet
  <2>3. IsFiniteSet(t.loads \cup t.checks) /\ Cardinality(t.loads \cup t.checks) = 0
    BY <2>1, <2>2, Zenon
  <2> QED
    BY <1>1, <2>1, <2>3 DEF Counted, BoundsAssumption
<1>4. Current(t, e) /\ Drawn(t, e, l) /\ Read(t, dk) /\ Waits(t, e, l, dk)
  BY <1>1 DEF Current, Drawn, Read, Waits
<1> QED
  BY <1>2, <1>3, <1>4 DEF Good

LEMMA DrainStep ==
  ASSUME PInv, BoundsAssumption, Drain
  PROVE  PInv'
<1>1. PICK s : s = State
  OBVIOUS
<1>2. PICK left : left = {i \in DOMAIN pvs : pvs[i].ref > Holders(s, i)}
  OBVIOUS
<1>3. PICK p : p = [id \in left |-> [pvs[id] EXCEPT !.ref = @ - Holders(s, id)]]
  OBVIOUS
<1>4. /\ phase = "stopping" /\ phase' = "stopped" /\ loads' = {} /\ checks' = {} /\ pvs' = p
      /\ UNCHANGED <<disk, lua, drops, timers, ui, rows, raced, looked, hurried>>
  BY <1>1, <1>2, <1>3 DEF Drain
<1>5. /\ Epoch' = drops + 1 /\ Epoch = drops + 1 /\ ~Running /\ timers = {} /\ ui.preview = None
      /\ \A id \in DOMAIN pvs : ~pvs[id].cached
  BY <1>4 DEF Epoch, Running, PInv, Ended
<1>6. Shape(s) /\ Counted(s, {}) /\ s.pvs = pvs /\ s.rows = rows
  BY <1>1, StateFields DEF PInv, Good
<1>7. left = {}
  <2> SUFFICES ASSUME NEW i \in DOMAIN pvs, pvs[i].ref > Holders(s, i) PROVE FALSE
    BY <1>2
  <2>1. pvs[i].ref = Holders(s, i) + One(pvs[i].cached) + One(i \in {})
    BY <1>6 DEF Counted
  <2>2. pvs[i].ref = Holders(s, i) + 0 + 0
    BY <1>5, <2>1 DEF One
  <2>3. Holders(s, i) \in Nat
    <3>1. IsFiniteSet({w \in s.loads \cup s.checks : w.pv = i})
      BY <1>6, FS_Subset DEF Counted
    <3> QED
      BY <3>1, FS_CardinalityType DEF Holders
  <2> QED
    BY <2>2, <2>3
<1>8. PICK t : t = [pvs |-> p, timers |-> {}, loads |-> {}, checks |-> {}, rows |-> rows,
                    raced |-> raced, looked |-> looked]
  OBVIOUS
<1>9. Good(t, {}, drops + 1, lua, disk)
  <2>1. DOMAIN p = {} /\ p = [i \in {} |-> p[i]]
    BY <1>3, <1>7
  <2> QED
    BY <1>6, <1>8, <2>1, NothingGood DEF Shape
<1>10. Screen(t, drops + 1, ui, hurried)
  BY <1>5 DEF PInv, Screen
<1>11. Becomes(t)
  BY <1>4, <1>5, <1>8 DEF Becomes
<1>12. Rest' /\ Ended'
  BY <1>3, <1>4, <1>5, <1>7 DEF PInv, Rest, Ended, Running
<1> QED
  BY <1>4, <1>5, <1>9, <1>10, <1>11, <1>12, Arrives

LEMMA InitInv ==
  ASSUME FilesAssumption, TallAssumption, BoundsAssumption, Init
  PROVE  PInv
<1>1. PICK s : s = State
  OBVIOUS
<1>2. /\ s = [pvs |-> s.pvs, timers |-> {}, loads |-> {}, checks |-> {}, rows |-> s.rows,
              raced |-> s.raced, looked |-> s.looked]
      /\ s.pvs = <<>> /\ s.rows = 1
  BY <1>1 DEF Init, State
<1>3. DOMAIN s.pvs = {} /\ s.pvs = [i \in {} |-> s.pvs[i]]
  BY <1>2
<1>4. Good(s, {}, Epoch, lua, disk)
  <2>1. s.rows \in 1..Tall
    BY <1>2 DEF TallAssumption
  <2> QED
    BY <1>2, <1>3, <2>1, NothingGood
<1>5. Screen(s, Epoch, ui, hurried)
  BY DEF Init, Screen
<1>6. Rest
  BY DEF Init, Rest, BoundsAssumption
<1>7. Ended
  BY DEF Init, Ended, Running
<1> QED
  BY <1>1, <1>4, <1>5, <1>6, <1>7 DEF PInv

LEMMA NextInv ==
  ASSUME FilesAssumption, TallAssumption, BoundsAssumption, PInv, [Next]_vars
  PROVE  PInv'
<1>1. ASSUME NEW f \in Files \cup {None}, NEW immediate \in BOOLEAN, MoveCursor(f, immediate)
      PROVE  PInv'
  BY <1>1, MoveCursorStep
<1>2. ASSUME NEW n \in 1..(Tall - 1), Resize(n)
      PROVE  PInv'
  BY <1>2, ResizeStep
<1>3. CASE CursorRests
  BY <1>3, CursorRestsStep
<1>4. ASSUME NEW l \in BOOLEAN, DropCache(l)
      PROVE  PInv'
  BY <1>4, DropCacheStep
<1>5. ASSUME NEW id \in timers, TimerFires(id)
      PROVE  PInv'
  BY <1>5, TimerFiresStep
<1>6. ASSUME NEW f \in Changing, Change(f)
      PROVE  PInv'
  BY <1>6, ChangeStep
<1>7. ASSUME NEW w \in loads, NEW seen \in 1..MaxChanges,
             ChildExits(w, seen) \/ ChildExitCb(w) \/ WorkerStats(w) \/ WorkerDone(w)
      PROVE  PInv'
  BY <1>7, LoadSteps
<1>8. ASSUME NEW w \in loads, Apply(w)
      PROVE  PInv'
  BY <1>8, ApplyStep
<1>9. ASSUME NEW c \in checks, WorkerChecks(c)
      PROVE  PInv'
  BY <1>9, WorkerChecksStep
<1>10. ASSUME NEW c \in checks, ApplyCheck(c)
       PROVE  PInv'
  BY <1>10, ApplyCheckStep
<1>11. CASE Quit
  BY <1>11, QuitStep
<1>12. CASE Drain
  BY <1>12, DrainStep
<1>13. CASE UNCHANGED vars
  <2>1. State' = State
    BY <1>13 DEF State, vars
  <2> QED
    BY <1>13, <2>1 DEF vars, PInv, Rest, Good, Shape, Counted, Current, Drawn, Read, Waits,
                       Holders, Noticed, Under, Screen, Ended, Epoch, Running
<1>14. 1 \in 1..MaxChanges
  BY DEF BoundsAssumption
<1> QED
  BY <1>1, <1>2, <1>3, <1>4, <1>5, <1>6, <1>7, <1>8, <1>9, <1>10, <1>11, <1>12, <1>13, <1>14
     DEF Next

-----------------------------------------------------------------------------
(* The theorems *)

LEMMA Invariant ==
  ASSUME FilesAssumption, TallAssumption, BoundsAssumption
  PROVE  Spec => []PInv
<1>1. Init => PInv
  BY InitInv
<1>2. PInv /\ [Next]_vars => PInv'
  BY NextInv
<1> QED
  BY <1>1, <1>2, PTL DEF Spec

\* What the invariant says of Previews that are underway, cached and drawn
LEMMA SoundBecause ==
  ASSUME FilesAssumption, BoundsAssumption, PInv
  PROVE  PreviewsAreSound
<1>1. PICK s : s = State
  OBVIOUS
<1>2. /\ Shape(s) /\ Counted(s, {}) /\ Current(s, Epoch) /\ Drawn(s, Epoch, lua)
      /\ Screen(s, Epoch, ui, hurried)
      /\ s.pvs = pvs /\ s.loads = loads /\ s.checks = checks /\ s.timers = timers /\ s.rows = rows
  BY <1>1, StateFields DEF PInv, Good
<1>3. ASSUME NEW id \in DOMAIN pvs
      PROVE  /\ id \in Files \X (0..MaxDrops) /\ pvs[id] \in PreviewRec
             /\ pvs[id].ref = Holders(State, id) + One(pvs[id].cached) + One(id \in {})
             /\ pvs[id].draws = pvs[id].holds
  <2>1. /\ id \in Files \X Nat /\ pvs[id] \in PreviewRec
        /\ id[2] <= Epoch /\ (pvs[id].cached <=> id[2] = Epoch)
        /\ pvs[id].draws = pvs[id].holds
        /\ pvs[id].ref = Holders(s, id) + One(pvs[id].cached) + One(id \in {})
    BY <1>2, <1>3 DEF Shape, Current, Drawn, Counted
  <2>2. drops \in 0..MaxDrops /\ MaxDrops \in Nat /\ (~Running => ~pvs[id].cached)
    BY <1>3 DEF PInv, Rest, Ended, BoundsAssumption
  <2>3. id[2] \in 0..MaxDrops
    BY <2>1, <2>2 DEF Epoch
  <2> QED
    BY <1>1, <2>1, <2>3
<1>4. TypeOK
  <2>1. \A id \in DOMAIN pvs : pvs[id].status \in {"delayed", "loaded"} /\ pvs[id].ref \in Nat \ {0}
    BY <1>3 DEF PreviewRec
  <2>2. DOMAIN pvs \subseteq Files \X (0..MaxDrops)
    BY <1>3
  <2>3. rows \in 1..Tall
    BY <1>2 DEF Shape
  <2> QED
    BY <1>2, <2>1, <2>2, <2>3 DEF TypeOK, PInv, Rest, Screen
<1>5. PreviewsAreLive
  <2>1. \A w \in loads \cup checks : w.pv \in DOMAIN pvs
    BY <1>2 DEF Counted
  <2>2. ASSUME NEW id \in DOMAIN pvs
        PROVE  pvs[id].ref = Holders(State, id) + (IF pvs[id].cached THEN 1 ELSE 0)
    <3>1. Holders(State, id) \in Nat
      <4>1. IsFiniteSet({w \in s.loads \cup s.checks : w.pv = id})
        BY <1>2, FS_Subset DEF Counted
      <4> QED
        BY <1>1, <4>1, FS_CardinalityType DEF Holders
    <3> QED
      BY <1>3, <2>2, <3>1 DEF One
  <2>3. \A id \in timers : InCache(id)
    BY <1>2 DEF Shape, Current, InCache
  <2>4. ui.preview # None => InCache(ui.preview)
    BY <1>2 DEF Screen, Current, InCache
  <2>5. phase = "stopped" => DOMAIN pvs = {}
    BY DEF PInv, Ended
  <2> QED
    BY <2>1, <2>2, <2>3, <2>4, <2>5 DEF PreviewsAreLive
<1>6. DrawsWhatItHolds
  BY <1>3 DEF DrawsWhatItHolds
<1> QED
  BY <1>4, <1>5, <1>6 DEF PreviewsAreSound

\* What it says of the pane
LEMMA RightBecause ==
  ASSUME FilesAssumption, BoundsAssumption, PInv
  PROVE  ShownIsRight
<1> SUFFICES ASSUME Running, ui.preview # None, ~ui.hidden
             PROVE  /\ ~lua => ShownIsFresh
                    /\ ShownFillsPane
  BY DEF ShownIsRight, ShownIsFresh, ShownFillsPane
<1>1. PICK s : s = State
  OBVIOUS
<1>2. PICK f : f = ui.cursor
  OBVIOUS
<1>3. PICK id : id = Cached(f)
  OBVIOUS
<1>4. /\ Waits(s, drops, lua, disk) /\ Screen(s, drops, ui, hurried)
      /\ s.pvs = pvs /\ s.loads = loads /\ s.checks = checks /\ s.timers = timers
      /\ s.rows = rows /\ s.raced = raced /\ s.looked = looked
  BY <1>1, StateFields, WhenRunning DEF Good
<1>5. /\ ui.preview = id /\ id[1] = f /\ id[2] = drops /\ id \in DOMAIN s.pvs
      /\ s.pvs[id].status = "loaded"
      /\ f \notin hurried \cup raced => Under(s, f) # {} \/ s.pvs[id].height >= rows
  BY <1>2, <1>3, <1>4 DEF Screen, Cached
<1>6. Settled(f) =>
        /\ Under(s, f) = {} /\ id \notin s.timers /\ ~s.pvs[id].requested
        /\ ~\E c \in s.checks : c.pv = id
  BY <1>3, <1>4 DEF Settled, Underway, Under
<1>7. /\ s.pvs[id].loading => Under(s, f) # {}
      /\ f \in s.looked \ s.raced /\ ~lua => Noticed(s, id, disk)
  BY <1>4, <1>5 DEF Waits
<1>8. f \in looked \ raced /\ ~lua /\ Settled(f) => pvs[id].content = disk[f]
  BY <1>4, <1>5, <1>6, <1>7 DEF Noticed
<1>9. ~lua => ShownIsFresh
  BY <1>2, <1>3, <1>4, <1>5, <1>6, <1>7, <1>8 DEF ShownIsFresh
<1>10. ShownFillsPane
  BY <1>2, <1>4, <1>5, <1>6 DEF ShownFillsPane
<1> QED
  BY <1>9, <1>10

\* No Preview is freed while a load, a check, a timer or the pane refers to it, and none is
\* kept for nothing, however results, cache drops and the end of the program come together;
\* each is drawn as what it holds (preview_dec_ref, preview_update, loader_drop_preview_cache).
THEOREM PreviewsSound ==
  ASSUME FilesAssumption, TallAssumption, BoundsAssumption
  PROVE  Spec => []PreviewsAreSound
<1>1. PInv => PreviewsAreSound
  BY SoundBecause
<1> QED
  BY <1>1, Invariant, PTL

\* When nothing is underway for the file under the cursor, the pane shows what the file
\* holds and as much of it as fits, if it was looked at since it changed
\* (ui_on_cursor_moved, loader_preview_from_path, loader_callback).
THEOREM PaneIsRight ==
  ASSUME FilesAssumption, TallAssumption, BoundsAssumption
  PROVE  Spec => []ShownIsRight
<1>1. PInv => ShownIsRight
  BY RightBecause
<1> QED
  BY <1>1, Invariant, PTL

=============================================================================
