----------------------------- MODULE HooksProofs -----------------------------
(***************************************************************************)
(* Proofs about Hooks, for all hooks and callbacks, however deep runs nest *)
(* and however many calls there are, as long as Lua uses no id twice to    *)
(* remove a hook.                                                          *)
(***************************************************************************)
EXTENDS Hooks, Integers, WellFoundedInduction, TLAPS

-----------------------------------------------------------------------------
(* Sequences without repetitions *)

Distinct(s) == \A i, j \in 1..Len(s) : s[i] = s[j] => i = j

Occurs(s, e) == \E i \in 1..Len(s) : s[i] = e

\* s without what is at i
Cut(s, i) == [j \in 1..(Len(s) - 1) |-> IF j < i THEN s[j] ELSE s[j + 1]]

LEMMA CutIsSeq ==
  ASSUME NEW S, NEW s \in Seq(S), NEW i \in 1..Len(s)
  PROVE  /\ Cut(s, i) \in Seq(S) /\ Len(Cut(s, i)) = Len(s) - 1 /\ Len(s) \in Nat
         /\ \A j \in 1..(Len(s) - 1) : Cut(s, i)[j] = IF j < i THEN s[j] ELSE s[j + 1]
<1>1. Len(s) \in Nat /\ Len(s) - 1 \in Nat
  OBVIOUS
<1>2. \A j \in 1..(Len(s) - 1) : (IF j < i THEN s[j] ELSE s[j + 1]) \in S
  <2> TAKE j \in 1..(Len(s) - 1)
  <2>1. j \in 1..Len(s) /\ j + 1 \in 1..Len(s)
    BY <1>1
  <2> QED
    BY <2>1
<1>3. Cut(s, i) \in [1..(Len(s) - 1) -> S]
  BY <1>2 DEF Cut
<1>4. Cut(s, i) \in Seq(S) /\ Len(Cut(s, i)) = Len(s) - 1
  BY <1>1, <1>3
<1> QED
  BY <1>1, <1>4 DEF Cut

LEMMA RemoveFirstCuts ==
  ASSUME NEW S, NEW s \in Seq(S), NEW i \in 1..Len(s), Distinct(s)
  PROVE  RemoveFirst(s, s[i]) = Cut(s, i)
<1> DEFINE I == {j \in 1..Len(s) : s[j] = s[i]}
<1>1. I = {i}
  BY DEF Distinct
<1>2. Min(I) = i
  <2>1. \A x \in {i} : x = i
    OBVIOUS
  <2>2. (CHOOSE x \in {i} : \A y \in {i} : x <= y) = i
    OBVIOUS
  <2> QED
    BY <1>1, <2>2 DEF Min
<1>3. SelectInSeq(s, LAMBDA v : v = s[i]) = i
  BY <1>1, <1>2 DEF SelectInSeq
<1>4. RemoveFirst(s, s[i]) = SubSeq(s, 1, i - 1) \o SubSeq(s, i + 1, Len(s))
  BY <1>3 DEF RemoveFirst, RemoveAt
<1>5. PICK a : a = SubSeq(s, 1, i - 1)
  OBVIOUS
<1>6. PICK b : b = SubSeq(s, i + 1, Len(s))
  OBVIOUS
<1>7. /\ a \in Seq(S) /\ Len(a) = i - 1
      /\ \A j \in 1..(i - 1) : a[j] = s[j]
  BY <1>5
<1>8. /\ b \in Seq(S) /\ Len(b) = Len(s) - i
      /\ \A j \in 1..(Len(s) - i) : b[j] = s[i + j]
  BY <1>6
<1>9. PICK t : t = a \o b
  OBVIOUS
<1>10. t \in Seq(S) /\ Len(t) = Len(s) - 1
  BY <1>7, <1>8, <1>9
<1>11. \A j \in 1..(Len(s) - 1) : t[j] = IF j < i THEN s[j] ELSE s[j + 1]
  <2> SUFFICES ASSUME NEW j \in 1..(Len(s) - 1)
               PROVE  t[j] = IF j < i THEN s[j] ELSE s[j + 1]
    OBVIOUS
  <2>1. CASE j < i
    BY <1>7, <1>8, <1>9, <2>1
  <2>2. CASE ~(j < i)
    <3>1. PICK k \in 1..(Len(s) - i) : j = (i - 1) + k
      <4>1. j - (i - 1) \in 1..(Len(s) - i) /\ j = (i - 1) + (j - (i - 1))
        BY <2>2
      <4> QED
        BY <4>1
    <3>2. t[j] = b[k]
      BY <1>7, <1>8, <1>9, <3>1
    <3>3. i + k = j + 1
      BY <3>1
    <3> QED
      BY <1>8, <2>2, <3>2, <3>3
  <2> QED
    BY <2>1, <2>2
<1>12. t = Cut(s, i)
  <2>1. t = [j \in 1..(Len(s) - 1) |-> t[j]]
    BY <1>10
  <2> QED
    BY <1>11, <2>1 DEF Cut
<1> QED
  BY <1>4, <1>5, <1>6, <1>9, <1>12

LEMMA AppendDistinct ==
  ASSUME NEW S, NEW s \in Seq(S), Distinct(s), NEW e \in S, ~Occurs(s, e)
  PROVE  /\ Append(s, e) \in Seq(S) /\ Len(Append(s, e)) = Len(s) + 1
         /\ Distinct(Append(s, e))
         /\ \A x : Occurs(Append(s, e), x) <=> Occurs(s, x) \/ x = e
<1> DEFINE t == Append(s, e)
<1>1. /\ t \in Seq(S) /\ Len(t) = Len(s) + 1 /\ Len(s) \in Nat /\ t[Len(s) + 1] = e
      /\ \A i \in 1..Len(s) : t[i] = s[i]
  OBVIOUS
<1> HIDE DEF t
<1>2. \A i \in 1..Len(t) : i \in 1..Len(s) \/ i = Len(s) + 1
  BY <1>1
<1>3. Distinct(t)
  BY <1>1, <1>2 DEF Distinct, Occurs
<1>4. \A x : Occurs(t, x) <=> Occurs(s, x) \/ x = e
  <2> TAKE x
  <2>1. Len(s) + 1 \in 1..Len(t) /\ \A i \in 1..Len(s) : i \in 1..Len(t)
    BY <1>1
  <2> QED
    BY <1>1, <1>2, <2>1 DEF Occurs
<1> QED
  BY <1>1, <1>3, <1>4 DEF t

LEMMA RemoveAbsent ==
  ASSUME NEW s, NEW e, ~Occurs(s, e)
  PROVE  RemoveFirst(s, e) = s
  BY DEF RemoveFirst, Occurs

LEMMA RemovePresent ==
  ASSUME NEW S, NEW s \in Seq(S), Distinct(s), NEW e, Occurs(s, e)
  PROVE  \E i \in 1..Len(s) : s[i] = e /\ RemoveFirst(s, e) = Cut(s, i)
  BY RemoveFirstCuts DEF Occurs

\* Where what was at j is after a cut at i
Shift(j, i) == IF j < i THEN j ELSE j - 1

LEMMA CutOccurs ==
  ASSUME NEW S, NEW s \in Seq(S), Distinct(s), NEW i \in 1..Len(s)
  PROVE  /\ Distinct(Cut(s, i))
         /\ \A j \in 1..Len(s) : j # i => /\ Shift(j, i) \in 1..Len(Cut(s, i))
                                         /\ Cut(s, i)[Shift(j, i)] = s[j]
         /\ \A x : Occurs(Cut(s, i), x) <=> Occurs(s, x) /\ x # s[i]
<1>1. PICK t : t = Cut(s, i)
  OBVIOUS
<1>2. /\ Len(t) = Len(s) - 1 /\ Len(s) \in Nat
      /\ \A j \in 1..(Len(s) - 1) : t[j] = IF j < i THEN s[j] ELSE s[j + 1]
  BY <1>1, CutIsSeq
<1>3. Distinct(t)
  <2> SUFFICES ASSUME NEW j \in 1..Len(t), NEW k \in 1..Len(t), t[j] = t[k]
               PROVE  j = k
    BY DEF Distinct
  <2>1. j \in 1..(Len(s) - 1) /\ k \in 1..(Len(s) - 1)
    BY <1>2
  <2>2. j \in 1..Len(s) /\ k \in 1..Len(s) /\ j + 1 \in 1..Len(s) /\ k + 1 \in 1..Len(s)
    BY <1>2, <2>1
  <2> QED
    BY <1>2, <2>1, <2>2 DEF Distinct
<1>4. \A j \in 1..Len(s) : j # i => /\ Shift(j, i) \in 1..Len(t)
                                   /\ t[Shift(j, i)] = s[j]
  BY <1>2 DEF Shift
<1>5. \A x : Occurs(t, x) <=> Occurs(s, x) /\ x # s[i]
  <2> TAKE x
  <2>1. ASSUME Occurs(t, x)
        PROVE  Occurs(s, x) /\ x # s[i]
    <3>1. PICK j \in 1..Len(t) : t[j] = x
      BY <2>1 DEF Occurs
    <3>2. PICK k \in 1..Len(s) : k # i /\ s[k] = x
      <4>1. j \in 1..(Len(s) - 1) /\ j \in 1..Len(s) /\ j + 1 \in 1..Len(s)
        BY <1>2
      <4> QED
        BY <1>2, <3>1, <4>1
    <3> QED
      BY <3>2 DEF Occurs, Distinct
  <2>2. ASSUME Occurs(s, x), x # s[i]
        PROVE  Occurs(t, x)
    <3>1. PICK j \in 1..Len(s) : s[j] = x
      BY <2>2 DEF Occurs
    <3> QED
      BY <1>4, <2>2, <3>1 DEF Occurs
  <2> QED
    BY <2>1, <2>2
<1> QED
  BY <1>1, <1>3, <1>4, <1>5

LEMMA RemoveDistinct ==
  ASSUME NEW S, NEW s \in Seq(S), Distinct(s), NEW e
  PROVE  /\ RemoveFirst(s, e) \in Seq(S) /\ Distinct(RemoveFirst(s, e))
         /\ \A x : Occurs(RemoveFirst(s, e), x) <=> Occurs(s, x) /\ x # e
<1>1. CASE Occurs(s, e)
  <2>1. PICK i \in 1..Len(s) : s[i] = e /\ RemoveFirst(s, e) = Cut(s, i)
    BY <1>1, RemovePresent
  <2>2. Cut(s, i) \in Seq(S)
    BY CutIsSeq
  <2>3. Distinct(Cut(s, i)) /\ \A x : Occurs(Cut(s, i), x) <=> Occurs(s, x) /\ x # s[i]
    BY CutOccurs
  <2> QED
    BY <2>1, <2>2, <2>3
<1>2. CASE ~Occurs(s, e)
  BY <1>2, RemoveAbsent
<1> QED
  BY <1>1, <1>2

\* Sequences are equal if they are so at every place.
LEMMA SeqEqual ==
  ASSUME NEW S, NEW s \in Seq(S), NEW t \in Seq(S), Len(s) = Len(t),
         \A i \in 1..Len(s) : s[i] = t[i]
  PROVE  s = t
<1>1. s = [i \in 1..Len(s) |-> s[i]] /\ t = [i \in 1..Len(t) |-> t[i]]
  OBVIOUS
<1> QED
  BY <1>1

LEMMA RemoveAppended ==
  ASSUME NEW S, NEW s \in Seq(S), Distinct(s), NEW e \in S, ~Occurs(s, e)
  PROVE  RemoveFirst(Append(s, e), e) = s
<1>1. PICK t : t = Append(s, e)
  OBVIOUS
<1>2. /\ t \in Seq(S) /\ Len(t) = Len(s) + 1 /\ Len(s) \in Nat /\ t[Len(s) + 1] = e
      /\ \A i \in 1..Len(s) : t[i] = s[i]
  BY <1>1
<1>3. Distinct(t)
  BY <1>1, AppendDistinct
<1>4. Len(s) + 1 \in 1..Len(t)
  BY <1>2
<1>5. RemoveFirst(t, e) = Cut(t, Len(s) + 1)
  BY <1>2, <1>3, <1>4, RemoveFirstCuts
<1>6. PICK c : c = Cut(t, Len(s) + 1)
  OBVIOUS
<1>7. /\ c \in Seq(S) /\ Len(c) = Len(s)
      /\ \A j \in 1..Len(s) : c[j] = IF j < Len(s) + 1 THEN t[j] ELSE t[j + 1]
  <2>1. /\ c \in Seq(S) /\ Len(c) = Len(t) - 1
        /\ \A j \in 1..(Len(t) - 1) : c[j] = IF j < Len(s) + 1 THEN t[j] ELSE t[j + 1]
    BY <1>2, <1>4, <1>6, CutIsSeq
  <2>2. Len(t) - 1 = Len(s)
    BY <1>2
  <2> QED
    BY <2>1, <2>2
<1>8. \A j \in 1..Len(s) : c[j] = s[j]
  BY <1>2, <1>7
<1>9. c = s
  BY <1>7, <1>8, SeqEqual
<1> QED
  BY <1>1, <1>5, <1>6, <1>9

LEMMA RemoveAppendCommute ==
  ASSUME NEW S, NEW s \in Seq(S), Distinct(s), NEW e, Occurs(s, e),
         NEW x \in S, ~Occurs(s, x)
  PROVE  RemoveFirst(Append(s, x), e) = Append(RemoveFirst(s, e), x)
<1>1. PICK i \in 1..Len(s) : s[i] = e /\ RemoveFirst(s, e) = Cut(s, i)
  BY RemovePresent
<1>2. PICK t : t = Append(s, x)
  OBVIOUS
<1>3. /\ t \in Seq(S) /\ Len(t) = Len(s) + 1 /\ Len(s) \in Nat /\ t[Len(s) + 1] = x
      /\ \A j \in 1..Len(s) : t[j] = s[j]
  BY <1>2
<1>4. Distinct(t) /\ i \in 1..Len(t) /\ t[i] = e
  BY <1>1, <1>2, <1>3, AppendDistinct
<1>5. RemoveFirst(t, e) = Cut(t, i)
  BY <1>3, <1>4, RemoveFirstCuts
<1>6. PICK a : a = Cut(t, i)
  OBVIOUS
<1>7. PICK c : c = Cut(s, i)
  OBVIOUS
<1>8. /\ a \in Seq(S) /\ Len(a) = Len(s)
      /\ \A j \in 1..Len(s) : a[j] = IF j < i THEN t[j] ELSE t[j + 1]
  <2>1. /\ a \in Seq(S) /\ Len(a) = Len(t) - 1
        /\ \A j \in 1..(Len(t) - 1) : a[j] = IF j < i THEN t[j] ELSE t[j + 1]
    BY <1>3, <1>4, <1>6, CutIsSeq
  <2>2. Len(t) - 1 = Len(s)
    BY <1>3
  <2> QED
    BY <2>1, <2>2
<1>9. /\ c \in Seq(S) /\ Len(c) = Len(s) - 1
      /\ \A j \in 1..(Len(s) - 1) : c[j] = IF j < i THEN s[j] ELSE s[j + 1]
  BY <1>7, CutIsSeq
<1>10. PICK b : b = Append(c, x)
  OBVIOUS
<1>11. /\ b \in Seq(S) /\ Len(b) = Len(s) /\ b[Len(s)] = x
       /\ \A j \in 1..(Len(s) - 1) : b[j] = c[j]
  BY <1>3, <1>9, <1>10
<1>12. \A j \in 1..Len(s) : a[j] = b[j]
  <2> SUFFICES ASSUME NEW j \in 1..Len(s)
               PROVE  a[j] = b[j]
    OBVIOUS
  <2>1. CASE j = Len(s)
    BY <1>3, <1>8, <1>11, <2>1
  <2>2. CASE j # Len(s)
    <3>1. j \in 1..(Len(s) - 1) /\ j + 1 \in 1..Len(s)
      BY <1>3, <2>2
    <3> QED
      BY <1>3, <1>8, <1>9, <1>11, <3>1
  <2> QED
    BY <2>1, <2>2
<1>13. a = b
  BY <1>8, <1>11, <1>12, SeqEqual
<1> QED
  BY <1>1, <1>2, <1>5, <1>6, <1>7, <1>10, <1>13

LEMMA CutsCommute ==
  ASSUME NEW S, NEW s \in Seq(S), NEW i \in 1..Len(s), NEW k \in 1..Len(s), i # k
  PROVE  Cut(Cut(s, i), Shift(k, i)) = Cut(Cut(s, k), Shift(i, k))
<1>1. Len(s) \in Nat
  OBVIOUS
<1>2. PICK a : a = Cut(s, i)
  OBVIOUS
<1>3. PICK b : b = Cut(s, k)
  OBVIOUS
<1>4. /\ a \in Seq(S) /\ Len(a) = Len(s) - 1
      /\ \A j \in 1..(Len(s) - 1) : a[j] = IF j < i THEN s[j] ELSE s[j + 1]
  BY <1>2, CutIsSeq
<1>5. /\ b \in Seq(S) /\ Len(b) = Len(s) - 1
      /\ \A j \in 1..(Len(s) - 1) : b[j] = IF j < k THEN s[j] ELSE s[j + 1]
  BY <1>3, CutIsSeq
<1>6. Shift(k, i) \in 1..Len(a) /\ Shift(i, k) \in 1..Len(b)
  BY <1>1, <1>4, <1>5 DEF Shift
<1>7. PICK c : c = Cut(a, Shift(k, i))
  OBVIOUS
<1>8. PICK d : d = Cut(b, Shift(i, k))
  OBVIOUS
<1>9. /\ c \in Seq(S) /\ Len(c) = Len(s) - 2
      /\ \A j \in 1..(Len(s) - 2) : c[j] = IF j < Shift(k, i) THEN a[j] ELSE a[j + 1]
  <2>1. /\ c \in Seq(S) /\ Len(c) = Len(a) - 1
        /\ \A j \in 1..(Len(a) - 1) : c[j] = IF j < Shift(k, i) THEN a[j] ELSE a[j + 1]
    BY <1>4, <1>6, <1>7, CutIsSeq
  <2>2. Len(a) - 1 = Len(s) - 2
    BY <1>1, <1>4
  <2> QED
    BY <2>1, <2>2
<1>10. /\ d \in Seq(S) /\ Len(d) = Len(s) - 2
       /\ \A j \in 1..(Len(s) - 2) : d[j] = IF j < Shift(i, k) THEN b[j] ELSE b[j + 1]
  <2>1. /\ d \in Seq(S) /\ Len(d) = Len(b) - 1
        /\ \A j \in 1..(Len(b) - 1) : d[j] = IF j < Shift(i, k) THEN b[j] ELSE b[j + 1]
    BY <1>5, <1>6, <1>8, CutIsSeq
  <2>2. Len(b) - 1 = Len(s) - 2
    BY <1>1, <1>5
  <2> QED
    BY <2>1, <2>2
<1>11. \A j \in 1..(Len(s) - 2) : c[j] = d[j]
  <2> SUFFICES ASSUME NEW j \in 1..(Len(s) - 2)
               PROVE  c[j] = d[j]
    OBVIOUS
  <2>1. j \in 1..(Len(s) - 1) /\ j + 1 \in 1..(Len(s) - 1) /\ (j + 1) + 1 = j + 2
    BY <1>1
  <2>2. /\ a[j] = IF j < i THEN s[j] ELSE s[j + 1]
        /\ a[j + 1] = IF j + 1 < i THEN s[j + 1] ELSE s[j + 2]
        /\ b[j] = IF j < k THEN s[j] ELSE s[j + 1]
        /\ b[j + 1] = IF j + 1 < k THEN s[j + 1] ELSE s[j + 2]
    BY <1>4, <1>5, <2>1
  <2>3. /\ c[j] = IF j < Shift(k, i) THEN a[j] ELSE a[j + 1]
        /\ d[j] = IF j < Shift(i, k) THEN b[j] ELSE b[j + 1]
    BY <1>9, <1>10
  <2>4. CASE i < k
    BY <1>1, <2>2, <2>3, <2>4 DEF Shift
  <2>5. CASE k < i
    BY <1>1, <2>2, <2>3, <2>5 DEF Shift
  <2> QED
    BY <2>4, <2>5
<1>12. c = d
  BY <1>9, <1>10, <1>11, SeqEqual
<1> QED
  BY <1>2, <1>3, <1>7, <1>8, <1>12

LEMMA RemovesCommute ==
  ASSUME NEW S, NEW s \in Seq(S), Distinct(s), NEW e, NEW x, x # e
  PROVE  RemoveFirst(RemoveFirst(s, x), e) = RemoveFirst(RemoveFirst(s, e), x)
<1>1. CASE Occurs(s, e) /\ Occurs(s, x)
  <2>1. PICK i \in 1..Len(s) : s[i] = e /\ RemoveFirst(s, e) = Cut(s, i)
    BY <1>1, RemovePresent
  <2>2. PICK k \in 1..Len(s) : s[k] = x /\ RemoveFirst(s, x) = Cut(s, k)
    BY <1>1, RemovePresent
  <2>3. i # k
    BY <2>1, <2>2
  <2>4. PICK a : a = Cut(s, i)
    OBVIOUS
  <2>5. PICK b : b = Cut(s, k)
    OBVIOUS
  <2>6. a \in Seq(S) /\ Distinct(a) /\ Shift(k, i) \in 1..Len(a) /\ a[Shift(k, i)] = x
    BY <2>2, <2>3, <2>4, CutIsSeq, CutOccurs
  <2>7. b \in Seq(S) /\ Distinct(b) /\ Shift(i, k) \in 1..Len(b) /\ b[Shift(i, k)] = e
    BY <2>1, <2>3, <2>5, CutIsSeq, CutOccurs
  <2>8. RemoveFirst(a, x) = Cut(a, Shift(k, i)) /\ RemoveFirst(b, e) = Cut(b, Shift(i, k))
    BY <2>6, <2>7, RemoveFirstCuts
  <2>9. Cut(a, Shift(k, i)) = Cut(b, Shift(i, k))
    BY <2>3, <2>4, <2>5, CutsCommute
  <2> QED
    BY <2>1, <2>2, <2>4, <2>5, <2>8, <2>9
<1>2. CASE ~Occurs(s, e)
  BY <1>2, RemoveAbsent, RemoveDistinct
<1>3. CASE ~Occurs(s, x)
  BY <1>3, RemoveAbsent, RemoveDistinct
<1> QED
  BY <1>1, <1>2, <1>3

-----------------------------------------------------------------------------
(* Applying changes *)

\* A set of numbers has a least one.
LEMMA NatMin ==
  ASSUME NEW T \in SUBSET Nat, T # {}
  PROVE  \E n \in T : \A m \in T : ~(m < n)
<1> DEFINE R == OpToRel(<, Nat)
<1>1. IsWellFoundedOn(R, Nat)
  BY NatLessThanWellFounded
<1>2. PICK n \in T : \A m \in T : ~(<<m, n>> \in R)
  <2> HIDE DEF R
  <2> QED
    BY <1>1, WFMin
<1>3. \A m \in T : m < n => <<m, n>> \in R
  BY DEF OpToRel
<1> QED
  BY <1>2, <1>3

\* w is what becomes of refs, one change after the other.
Trail(w, refs, changes) ==
  w = [k \in 0..Len(changes) |-> IF k = 0 THEN refs ELSE ApplyOne(w[k - 1], changes[k])]

LEMMA TrailUnique ==
  ASSUME NEW v, NEW w, NEW refs, NEW changes, Len(changes) \in Nat,
         Trail(v, refs, changes), Trail(w, refs, changes), NEW i \in 0..Len(changes)
  PROVE  v[i] = w[i]
<1> DEFINE T == {j \in Nat : j <= Len(changes) /\ v[j] # w[j]}
<1>1. SUFFICES ASSUME T # {} PROVE FALSE
  OBVIOUS
<1>2. PICK j \in T : \A k \in T : ~(k < j)
  BY <1>1, NatMin
<1>3. v[j] # w[j] /\ j \in 0..Len(changes)
  OBVIOUS
<1>4. j # 0
  BY <1>3 DEF Trail
<1>5. v[j - 1] = w[j - 1]
  BY <1>2, <1>4
<1>6. v[j] = ApplyOne(v[j - 1], changes[j]) /\ w[j] = ApplyOne(w[j - 1], changes[j])
  BY <1>3, <1>4 DEF Trail
<1> QED
  BY <1>3, <1>5, <1>6

\* The loop comes to the end of the trail.
LEMMA TrailApplied ==
  ASSUME NEW w, NEW refs, NEW changes, Len(changes) \in Nat, Trail(w, refs, changes)
  PROVE  Applied(refs, changes) = w[Len(changes)]
<1> DEFINE P(g) == g = [k \in 0..Len(changes) |->
                          IF k = 0 THEN refs ELSE ApplyOne(g[k - 1], changes[k])]
<1>1. P(w)
  BY DEF Trail
<1> DEFINE after == CHOOSE g : P(g)
<1>2. P(after)
  BY <1>1, Zenon
<1>3. Applied(refs, changes) = after[Len(changes)]
  BY Zenon DEF Applied
<1> HIDE DEF after
<1>4. Trail(after, refs, changes)
  BY <1>2, Zenon DEF Trail
<1>5. Len(changes) \in 0..Len(changes)
  OBVIOUS
<1> QED
  BY <1>3, <1>4, <1>5, TrailUnique

Changes == [hook : Hooks, ref : Refs \cup {0}, remove : BOOLEAN]

\* References of each hook, none of them twice
Lists(refs) == refs \in [Hooks -> Seq(Refs)] /\ \A h \in Hooks : Distinct(refs[h])

Adds(c) == c.ref # 0 /\ ~c.remove

\* A change that applies keeps references apart.
LEMMA ApplyLists ==
  ASSUME NEW refs, Lists(refs), NEW c \in Changes,
         Adds(c) => ~Occurs(refs[c.hook], c.ref)
  PROVE  Lists(ApplyOne(refs, c))
<1> DEFINE h == c.hook
<1>1. h \in Hooks /\ refs[h] \in Seq(Refs) /\ Distinct(refs[h]) /\ c.ref \in Refs \cup {0}
  BY DEF Changes, Lists
<1>2. CASE c.ref = 0
  BY <1>2 DEF ApplyOne
<1>3. CASE c.ref # 0 /\ c.remove
  <2>1. PICK s : s = RemoveFirst(refs[h], c.ref)
    OBVIOUS
  <2>2. s \in Seq(Refs) /\ Distinct(s)
    BY <1>1, <2>1, RemoveDistinct
  <2>3. ApplyOne(refs, c) = [refs EXCEPT ![h] = s]
    BY <1>3, <2>1 DEF ApplyOne
  <2> QED
    BY <1>1, <2>2, <2>3 DEF Lists
<1>4. CASE c.ref # 0 /\ ~c.remove
  <2>1. PICK s : s = Append(refs[h], c.ref)
    OBVIOUS
  <2>2. s \in Seq(Refs) /\ Distinct(s)
    <3>1. c.ref \in Refs /\ ~Occurs(refs[h], c.ref)
      BY <1>1, <1>4 DEF Adds
    <3> QED
      BY <1>1, <2>1, <3>1, AppendDistinct
  <2>3. ApplyOne(refs, c) = [refs EXCEPT ![h] = s]
    BY <1>4, <2>1 DEF ApplyOne
  <2> QED
    BY <1>1, <2>2, <2>3 DEF Lists
<1> QED
  BY <1>2, <1>3, <1>4

\* A change is about its own reference only.
LEMMA ApplyOccurs ==
  ASSUME NEW refs, Lists(refs), NEW c \in Changes,
         Adds(c) => ~Occurs(refs[c.hook], c.ref),
         NEW h \in Hooks, NEW r, ~(c.hook = h /\ c.ref = r)
  PROVE  Occurs(ApplyOne(refs, c)[h], r) <=> Occurs(refs[h], r)
<1>1. /\ c.hook \in Hooks /\ refs[c.hook] \in Seq(Refs) /\ Distinct(refs[c.hook])
      /\ c.ref \in Refs \cup {0}
  BY DEF Changes, Lists
<1>2. CASE c.ref = 0 \/ c.hook # h
  BY <1>2 DEF ApplyOne, Lists
<1>3. CASE c.ref # 0 /\ c.hook = h /\ c.remove
  <2>1. ApplyOne(refs, c)[h] = RemoveFirst(refs[h], c.ref)
    BY <1>1, <1>3 DEF ApplyOne, Lists
  <2> QED
    BY <1>1, <1>3, <2>1, RemoveDistinct
<1>4. CASE c.ref # 0 /\ c.hook = h /\ ~c.remove
  <2>1. ApplyOne(refs, c)[h] = Append(refs[h], c.ref)
    BY <1>1, <1>4 DEF ApplyOne, Lists
  <2>2. c.ref \in Refs /\ ~Occurs(refs[h], c.ref)
    BY <1>1, <1>4 DEF Adds
  <2> QED
    BY <1>1, <1>4, <2>1, <2>2, AppendDistinct
<1> QED
  BY <1>2, <1>3, <1>4

\* refs without r at h
Less(refs, h, r) == [refs EXCEPT ![h] = RemoveFirst(@, r)]

\* A change may be made before or after another reference is taken away.
LEMMA ApplyCommutes ==
  ASSUME NEW refs, Lists(refs), NEW c \in Changes,
         Adds(c) => ~Occurs(refs[c.hook], c.ref),
         NEW h \in Hooks, NEW r, Occurs(refs[h], r), ~(c.hook = h /\ c.ref = r)
  PROVE  ApplyOne(Less(refs, h, r), c) = Less(ApplyOne(refs, c), h, r)
<1>1. /\ c.hook \in Hooks /\ refs[h] \in Seq(Refs) /\ Distinct(refs[h])
      /\ c.ref \in Refs \cup {0} /\ refs \in [Hooks -> Seq(Refs)]
  BY DEF Changes, Lists
<1>2. CASE c.ref = 0
  BY <1>2 DEF ApplyOne
<1>3. CASE c.ref # 0 /\ c.hook # h
  <2>1. PICK s : s = IF c.remove THEN RemoveFirst(refs[c.hook], c.ref)
                     ELSE Append(refs[c.hook], c.ref)
    OBVIOUS
  <2>2. PICK t : t = RemoveFirst(refs[h], r)
    OBVIOUS
  <2>3. Less(refs, h, r) = [refs EXCEPT ![h] = t]
    BY <2>2 DEF Less
  <2>4. ApplyOne(refs, c) = [refs EXCEPT ![c.hook] = s]
    BY <1>3, <2>1 DEF ApplyOne
  <2>5. PICK u : u = [refs EXCEPT ![h] = t]
    OBVIOUS
  <2>6. u[c.hook] = refs[c.hook]
    BY <1>1, <1>3, <2>5
  <2>7. ApplyOne(u, c) = [u EXCEPT ![c.hook] = s]
    BY <1>3, <2>1, <2>6 DEF ApplyOne
  <2>8. Less([refs EXCEPT ![c.hook] = s], h, r) = [[refs EXCEPT ![c.hook] = s] EXCEPT ![h] = t]
    BY <1>1, <1>3, <2>2 DEF Less
  <2>9. [u EXCEPT ![c.hook] = s] = [[refs EXCEPT ![c.hook] = s] EXCEPT ![h] = t]
    BY <1>1, <1>3, <2>5
  <2> QED
    BY <2>3, <2>4, <2>5, <2>7, <2>8, <2>9
<1>4. CASE c.ref # 0 /\ c.hook = h
  <2>1. PICK s : s = IF c.remove THEN RemoveFirst(refs[h], c.ref) ELSE Append(refs[h], c.ref)
    OBVIOUS
  <2>2. PICK t : t = RemoveFirst(refs[h], r)
    OBVIOUS
  <2>3. PICK x : x = IF c.remove THEN RemoveFirst(t, c.ref) ELSE Append(t, c.ref)
    OBVIOUS
  <2>4. x = RemoveFirst(s, r)
    <3>1. CASE c.remove
      <4>1. c.ref # r
        BY <1>4
      <4> QED
        BY <1>1, <2>1, <2>2, <2>3, <3>1, <4>1, RemovesCommute
    <3>2. CASE ~c.remove
      <4>1. c.ref \in Refs /\ ~Occurs(refs[h], c.ref)
        BY <1>1, <1>4, <3>2 DEF Adds
      <4> QED
        BY <1>1, <2>1, <2>2, <2>3, <3>2, <4>1, RemoveAppendCommute
    <3> QED
      BY <3>1, <3>2
  <2>5. PICK u : u = [refs EXCEPT ![h] = t]
    OBVIOUS
  <2>6. PICK v : v = [refs EXCEPT ![h] = s]
    OBVIOUS
  <2>7. Less(refs, h, r) = u /\ ApplyOne(refs, c) = v
    BY <1>4, <2>1, <2>2, <2>5, <2>6 DEF Less, ApplyOne
  <2>8. u[h] = t /\ v[h] = s
    BY <1>1, <2>5, <2>6
  <2>9. ApplyOne(u, c) = [u EXCEPT ![h] = x]
    BY <1>4, <2>3, <2>8 DEF ApplyOne
  <2>10. Less(v, h, r) = [v EXCEPT ![h] = x]
    BY <2>4, <2>8 DEF Less
  <2>11. [u EXCEPT ![h] = x] = [v EXCEPT ![h] = x]
    BY <1>1, <2>5, <2>6
  <2> QED
    BY <2>7, <2>9, <2>10, <2>11
<1> QED
  BY <1>2, <1>3, <1>4

\* Along a trail no reference is added twice.
Sound(w, changes) ==
  /\ \A k \in 0..Len(changes) : Lists(w[k])
  /\ \A k \in 1..Len(changes) :
       Adds(changes[k]) => ~Occurs(w[k - 1][changes[k].hook], changes[k].ref)

LEMMA TrailAppend ==
  ASSUME NEW refs, NEW changes \in Seq(Changes), NEW w, Trail(w, refs, changes),
         Sound(w, changes), NEW c \in Changes,
         Adds(c) => ~Occurs(w[Len(changes)][c.hook], c.ref)
  PROVE  \E v : /\ Trail(v, refs, Append(changes, c)) /\ Sound(v, Append(changes, c))
                /\ v[Len(changes) + 1] = ApplyOne(w[Len(changes)], c)
<1>1. PICK n : n = Len(changes)
  OBVIOUS
<1>2. PICK d : d = Append(changes, c)
  OBVIOUS
<1>3. /\ n \in Nat /\ Len(d) = n + 1 /\ d[n + 1] = c
      /\ \A k \in 1..n : d[k] = changes[k]
  BY <1>1, <1>2
<1> DEFINE v == [k \in 0..(n + 1) |-> IF k <= n THEN w[k] ELSE ApplyOne(w[n], c)]
<1>4. /\ \A k \in 0..n : v[k] = w[k]
      /\ v[n + 1] = ApplyOne(w[n], c)
      /\ v = [k \in 0..(n + 1) |-> v[k]]
  BY <1>3
<1> HIDE DEF v
<1>5. /\ w[0] = refs
      /\ \A k \in 1..n : w[k] = ApplyOne(w[k - 1], changes[k])
  BY <1>1, <1>3 DEF Trail
<1>6. \A k \in 0..(n + 1) : v[k] = IF k = 0 THEN refs ELSE ApplyOne(v[k - 1], d[k])
  <2> TAKE k \in 0..(n + 1)
  <2>1. CASE k = 0
    <3>1. 0 \in 0..n
      BY <1>3
    <3>2. v[0] = refs
      BY <1>4, <1>5, <3>1
    <3> QED
      BY <2>1, <3>2
  <2>2. CASE k \in 1..n
    <3>1. k - 1 \in 0..n /\ k \in 0..n /\ k # 0
      BY <1>3, <2>2
    <3>2. v[k] = w[k] /\ v[k - 1] = w[k - 1]
      BY <1>4, <3>1
    <3>3. d[k] = changes[k]
      BY <1>3, <2>2
    <3>4. w[k] = ApplyOne(w[k - 1], changes[k])
      BY <1>5, <2>2
    <3> QED
      BY <3>1, <3>2, <3>3, <3>4
  <2>3. CASE k = n + 1
    <3>1. k - 1 = n /\ k # 0 /\ n \in 0..n
      BY <1>3, <2>3
    <3>2. v[k - 1] = w[n] /\ d[k] = c
      BY <1>3, <1>4, <2>3, <3>1
    <3>3. v[k] = ApplyOne(w[n], c)
      BY <1>4, <2>3
    <3> QED
      BY <3>1, <3>2, <3>3
  <2> QED
    BY <1>3, <2>1, <2>2, <2>3
<1>7. Trail(v, refs, d)
  BY <1>3, <1>4, <1>6 DEF Trail
<1>8. Lists(v[n + 1])
  <2>1. Lists(w[n])
    BY <1>1, <1>3 DEF Sound
  <2> QED
    BY <1>1, <1>4, <2>1, ApplyLists
<1>9. Sound(v, d)
  <2>1. ASSUME NEW k \in 0..Len(d)
        PROVE  Lists(v[k])
    <3>1. CASE k \in 0..n
      BY <1>1, <1>4, <3>1 DEF Sound
    <3> QED
      BY <1>3, <1>8, <3>1
  <2>2. ASSUME NEW k \in 1..Len(d), Adds(d[k])
        PROVE  ~Occurs(v[k - 1][d[k].hook], d[k].ref)
    <3>1. CASE k \in 1..n
      <4>1. k - 1 \in 0..n
        BY <1>3, <3>1
      <4> QED
        BY <1>1, <1>3, <1>4, <2>2, <3>1, <4>1 DEF Sound
    <3>2. CASE k = n + 1
      <4>1. k - 1 = n /\ n \in 0..n
        BY <1>3, <3>2
      <4> QED
        BY <1>1, <1>3, <1>4, <2>2, <3>2, <4>1
    <3> QED
      BY <1>3, <3>1, <3>2
  <2> QED
    BY <2>1, <2>2 DEF Sound
<1> QED
  BY <1>1, <1>2, <1>4, <1>7, <1>9

\* An addition that is made void: what comes of the trail is without its reference.
LEMMA TrailVoid ==
  ASSUME NEW refs, NEW changes \in Seq(Changes), NEW w, Trail(w, refs, changes),
         Sound(w, changes), NEW k \in 1..Len(changes), Adds(changes[k]),
         NEW h \in Hooks, NEW r, h = changes[k].hook, r = changes[k].ref,
         ~Occurs(refs[h], r),
         \A j \in 1..Len(changes) : j # k => ~(changes[j].hook = h /\ changes[j].ref = r)
  PROVE  LET void == [changes EXCEPT ![k].ref = 0]
         IN  \E v : /\ Trail(v, refs, void) /\ Sound(v, void)
                    /\ v[Len(changes)] = Less(w[Len(changes)], h, r)
<1>1. PICK n : n = Len(changes)
  OBVIOUS
<1>2. n \in Nat /\ k \in 1..n
  BY <1>1
<1>3. /\ w[0] = refs
      /\ \A j \in 1..n : w[j] = ApplyOne(w[j - 1], changes[j])
  BY <1>1, <1>2 DEF Trail
<1>4. \A j \in 0..n : Lists(w[j])
  BY <1>1 DEF Sound
<1>5. \A j \in 1..n : /\ changes[j] \in Changes
                      /\ Adds(changes[j]) => ~Occurs(w[j - 1][changes[j].hook], changes[j].ref)
                      /\ j - 1 \in 0..n
  BY <1>1, <1>2 DEF Sound
\* Before the addition the reference is not there, afterwards it is.
<1>6. \A j \in 0..n : j < k => ~Occurs(w[j][h], r)
  <2> DEFINE T == {j \in Nat : j < k /\ Occurs(w[j][h], r)}
  <2>1. SUFFICES ASSUME T # {} PROVE FALSE
    BY <1>2
  <2>2. PICK j \in T : \A m \in T : ~(m < j)
    BY <2>1, NatMin
  <2>3. j \in Nat /\ j < k /\ Occurs(w[j][h], r)
    BY <2>2
  <2>4. j # 0
    BY <1>3, <2>3
  <2>5. j \in 1..n /\ j # k /\ j - 1 \in Nat /\ j - 1 < j
    BY <1>2, <2>3, <2>4
  <2>6. ~Occurs(w[j - 1][h], r)
    BY <2>2, <2>3, <2>5
  <2>7. Occurs(ApplyOne(w[j - 1], changes[j])[h], r) <=> Occurs(w[j - 1][h], r)
    BY <1>1, <1>4, <1>5, <2>5, ApplyOccurs
  <2> QED
    BY <1>3, <2>3, <2>5, <2>6, <2>7
<1>7. Lists(w[k - 1]) /\ w[k - 1][h] \in Seq(Refs) /\ Distinct(w[k - 1][h])
      /\ ~Occurs(w[k - 1][h], r) /\ r \in Refs /\ w[k - 1] \in [Hooks -> Seq(Refs)]
  <2>1. k - 1 \in 0..n /\ k - 1 < k
    BY <1>2
  <2>2. changes[k] \in Changes
    BY <1>2, <1>5
  <2> QED
    BY <1>4, <1>6, <2>1, <2>2 DEF Lists, Changes, Adds
<1>8. w[k] = [w[k - 1] EXCEPT ![h] = Append(w[k - 1][h], r)]
  BY <1>2, <1>3 DEF ApplyOne, Adds
<1>9. Occurs(w[k][h], r)
  <2>1. w[k][h] = Append(w[k - 1][h], r)
    BY <1>7, <1>8
  <2> QED
    BY <1>7, <2>1, AppendDistinct
<1>10. \A j \in 0..n : k <= j => Occurs(w[j][h], r)
  <2> DEFINE T == {j \in Nat : k <= j /\ j <= n /\ ~Occurs(w[j][h], r)}
  <2>1. SUFFICES ASSUME T # {} PROVE FALSE
    BY <1>2
  <2>2. PICK j \in T : \A m \in T : ~(m < j)
    BY <2>1, NatMin
  <2>3. j \in Nat /\ k <= j /\ j <= n /\ ~Occurs(w[j][h], r)
    BY <2>2
  <2>4. j # k
    BY <1>9, <2>3
  <2>5. j \in 1..n /\ j - 1 \in Nat /\ j - 1 < j /\ k <= j - 1 /\ j - 1 <= n
    BY <1>2, <2>3, <2>4
  <2>6. Occurs(w[j - 1][h], r)
    BY <2>2, <2>3, <2>5
  <2>7. Occurs(ApplyOne(w[j - 1], changes[j])[h], r) <=> Occurs(w[j - 1][h], r)
    BY <1>1, <1>4, <1>5, <2>4, <2>5, ApplyOccurs
  <2> QED
    BY <1>3, <2>3, <2>5, <2>6, <2>7
<1>11. PICK void : void = [changes EXCEPT ![k].ref = 0]
  OBVIOUS
<1>12. /\ Len(void) = n /\ void[k].ref = 0
       /\ \A j \in 1..n : j # k => void[j] = changes[j]
  BY <1>1, <1>2, <1>5, <1>11 DEF Changes
<1> DEFINE v == [j \in 0..n |-> IF j < k THEN w[j] ELSE Less(w[j], h, r)]
<1>13. /\ v = [j \in 0..n |-> v[j]]
       /\ \A j \in 0..n : v[j] = IF j < k THEN w[j] ELSE Less(w[j], h, r)
  OBVIOUS
<1> HIDE DEF v
<1>14. Less(w[k], h, r) = w[k - 1]
  <2>1. PICK u : u = w[k - 1]
    OBVIOUS
  <2>2. PICK s : s = Append(u[h], r)
    OBVIOUS
  <2>3. w[k] = [u EXCEPT ![h] = s]
    BY <1>8, <2>1, <2>2
  <2>4. RemoveFirst(s, r) = u[h]
    BY <1>7, <2>1, <2>2, RemoveAppended
  <2>5. u \in [Hooks -> Seq(Refs)]
    BY <1>7, <2>1
  <2>6. Less(w[k], h, r) = [[u EXCEPT ![h] = s] EXCEPT ![h] = u[h]]
    BY <2>3, <2>4, <2>5 DEF Less
  <2>7. [[u EXCEPT ![h] = s] EXCEPT ![h] = u[h]] = u
    BY <2>5
  <2> QED
    BY <2>1, <2>6, <2>7
<1>15. \A j \in 0..n : v[j] = IF j = 0 THEN refs ELSE ApplyOne(v[j - 1], void[j])
  <2> TAKE j \in 0..n
  <2>1. CASE j = 0
    BY <1>2, <1>3, <1>13, <2>1
  <2>2. CASE j # 0 /\ j < k
    <3>1. j \in 1..n /\ j - 1 \in 0..n /\ j - 1 < k
      BY <1>2, <2>2
    <3>2. v[j] = w[j] /\ v[j - 1] = w[j - 1] /\ void[j] = changes[j]
      BY <1>12, <1>13, <2>2, <3>1
    <3>3. w[j] = ApplyOne(w[j - 1], changes[j])
      BY <1>3, <3>1
    <3> QED
      BY <2>2, <3>2, <3>3
  <2>3. CASE j = k
    <3>1. j - 1 \in 0..n /\ j - 1 < k /\ j # 0
      BY <1>2, <2>3
    <3>2. v[j - 1] = w[k - 1] /\ v[j] = w[k - 1]
      BY <1>2, <1>13, <1>14, <2>3, <3>1
    <3>3. ApplyOne(v[j - 1], void[j]) = v[j - 1]
      BY <1>12, <2>3 DEF ApplyOne
    <3> QED
      BY <3>1, <3>2, <3>3
  <2>4. CASE k < j
    <3>1. j \in 1..n /\ j - 1 \in 0..n /\ ~(j - 1 < k) /\ ~(j < k) /\ j # k /\ k <= j - 1
      BY <1>2, <2>4
    <3>2. v[j] = Less(w[j], h, r) /\ v[j - 1] = Less(w[j - 1], h, r) /\ void[j] = changes[j]
      BY <1>12, <1>13, <3>1
    <3>3. w[j] = ApplyOne(w[j - 1], changes[j])
      BY <1>3, <3>1
    <3>4. Occurs(w[j - 1][h], r) /\ Lists(w[j - 1])
      BY <1>4, <1>10, <3>1
    <3>5. ApplyOne(Less(w[j - 1], h, r), changes[j]) = Less(ApplyOne(w[j - 1], changes[j]), h, r)
      BY <1>1, <1>5, <3>1, <3>4, ApplyCommutes
    <3> QED
      BY <2>4, <1>2, <3>2, <3>3, <3>5
  <2> QED
    BY <1>2, <2>1, <2>2, <2>3, <2>4
<1>16. Trail(v, refs, void)
  BY <1>12, <1>13, <1>15 DEF Trail
<1>17. \A j \in 0..n : /\ Lists(v[j])
                       /\ \A x \in Hooks : \A q : Occurs(v[j][x], q) => Occurs(w[j][x], q)
  <2> TAKE j \in 0..n
  <2>1. CASE j < k
    BY <1>4, <1>13, <2>1
  <2>2. CASE ~(j < k)
    <3>1. PICK u : u = w[j]
      OBVIOUS
    <3>2. Lists(u) /\ u \in [Hooks -> Seq(Refs)] /\ u[h] \in Seq(Refs) /\ Distinct(u[h])
      BY <1>4, <3>1 DEF Lists
    <3>3. PICK s : s = RemoveFirst(u[h], r)
      OBVIOUS
    <3>4. /\ s \in Seq(Refs) /\ Distinct(s)
          /\ \A q : Occurs(s, q) => Occurs(u[h], q)
      BY <3>2, <3>3, RemoveDistinct
    <3>5. v[j] = [u EXCEPT ![h] = s]
      BY <1>13, <2>2, <3>1, <3>3 DEF Less
    <3> QED
      BY <3>1, <3>2, <3>4, <3>5 DEF Lists
  <2> QED
    BY <2>1, <2>2
<1>18. Sound(v, void)
  <2>1. ASSUME NEW j \in 1..n, Adds(void[j])
        PROVE  ~Occurs(v[j - 1][void[j].hook], void[j].ref)
    <3>1. j # k /\ void[j] = changes[j]
      BY <1>12, <2>1 DEF Adds
    <3>2. changes[j].hook \in Hooks /\ j - 1 \in 0..n
      BY <1>5 DEF Changes
    <3> QED
      BY <1>5, <1>17, <2>1, <3>1, <3>2
  <2> QED
    BY <1>12, <1>17, <2>1 DEF Sound
<1>19. v[n] = Less(w[n], h, r)
  BY <1>2, <1>13
<1> QED
  BY <1>1, <1>11, <1>16, <1>18, <1>19

-----------------------------------------------------------------------------
(* The invariant *)

Live(c) == id[c] # NoId /\ c \notin removed

Ids == /\ id \in [Callbacks -> {NoId} \cup [hook : Hooks, ref : Refs]]
       /\ removed \subseteq {c \in Callbacks : id[c] # NoId}

\* The ghost lists each callback under the hook it was added to.
Lived == /\ live \in [Hooks -> Seq(Callbacks)]
         /\ \A h \in Hooks : /\ Distinct(live[h])
                             /\ \A c \in Callbacks :
                                  Occurs(live[h], c) <=> Live(c) /\ id[c].hook = h

FreeRefs == {r \in Refs : r <= size /\ fn[r] = None}

\* what links: the head of the free list, at 0, and the free references
Links == {0} \cup FreeRefs

Registry == /\ fn \in [Refs -> Callbacks \cup {None}] /\ link \in [0..MaxOps -> 0..MaxOps]
            /\ size \in Nat /\ ops \in Nat /\ size <= ops /\ ops <= MaxOps
            /\ \A r \in Refs : fn[r] # None => r <= size
            /\ \A r \in Links : link[r] # 0 => link[r] \in FreeRefs
            /\ \A r, q \in Links : link[r] # 0 /\ link[r] = link[q] => r = q

\* An addition of a reference that its hook does not have
Awaited(k) == Adds(hook_changes[k])
              /\ ~Occurs(hook_refs[hook_changes[k].hook], hook_changes[k].ref)

Pended ==
  /\ hook_changes \in Seq(Changes)
  /\ depth = 0 => hook_changes = <<>>
  /\ \A k \in 1..Len(hook_changes) :
       hook_changes[k].remove =>
         Occurs(hook_refs[hook_changes[k].hook], hook_changes[k].ref)
  /\ \A k \in 1..Len(hook_changes) :
       Awaited(k) => \E c \in Callbacks :
         Live(c) /\ id[c] = [hook |-> hook_changes[k].hook, ref |-> hook_changes[k].ref]
  /\ \A j, k \in 1..Len(hook_changes) :
       /\ Awaited(j) /\ Awaited(k)
       /\ hook_changes[j].hook = hook_changes[k].hook
       /\ hook_changes[j].ref = hook_changes[k].ref
       => j = k

\* What hook_refs should come to: the references of the live callbacks, in order
Expected == [h \in Hooks |-> [k \in 1..Len(live[h]) |-> id[live[h][k]].ref]]

\* The changes lead there, and add no reference where it is.
Leading == \E w : /\ Trail(w, hook_refs, hook_changes) /\ Sound(w, hook_changes)
                  /\ w[Len(hook_changes)] = Expected

Run(R, D) == [hook : Hooks, pos : Nat, ran : R, due : D]

Nested == \E R, D : /\ stack \in Seq(Run(R, D))
                    /\ \A k \in 1..Len(stack) :
                         stack[k].pos \in 1..Len(hook_refs[stack[k].hook])

HInv == Ids /\ Lived /\ Registry /\ ReferencesOwned /\ Pended /\ Leading /\ Nested

-----------------------------------------------------------------------------
(* The registry *)

\* luaL_ref finds a reference that nothing uses.
LEMMA FreshRef ==
  ASSUME Registry, ops < MaxOps
  PROVE  /\ FreeRef \in Refs /\ fn[FreeRef] = None
         /\ link[0] # 0 => FreeRef \in FreeRefs
         /\ link[0] = 0 => FreeRef = size + 1
<1>1. MaxOps \in Nat /\ size \in Nat /\ size < MaxOps
  BY BoundsAssumption DEF Registry
<1>2. CASE link[0] # 0
  <2>1. link[0] \in FreeRefs
    BY <1>2 DEF Registry, Links
  <2> QED
    BY <1>2, <2>1 DEF FreeRef, FreeRefs
<1>3. CASE link[0] = 0
  <2>1. FreeRef = size + 1 /\ size + 1 \in Refs /\ ~(size + 1 <= size)
    BY <1>1, <1>3 DEF FreeRef, Refs
  <2>2. fn[size + 1] = None
    BY <2>1 DEF Registry
  <2> QED
    BY <1>3, <2>1, <2>2
<1> QED
  BY <1>2, <1>3

\* It leaves the other references as they are, and the free list is one.
LEMMA RefTaken ==
  ASSUME Registry, Op, NEW c \in Callbacks, Ref(c)
  PROVE  Registry'
<1>1. PICK r : r = FreeRef
  OBVIOUS
<1>2. /\ r \in Refs /\ fn[r] = None /\ ops' = ops + 1 /\ ops < MaxOps
      /\ link[0] # 0 => r \in FreeRefs
      /\ link[0] = 0 => r = size + 1
  BY <1>1, FreshRef DEF Op
<1>3. /\ fn \in [Refs -> Callbacks \cup {None}] /\ link \in [0..MaxOps -> 0..MaxOps]
      /\ size \in Nat /\ ops \in Nat /\ size <= ops /\ MaxOps \in Nat
      /\ \A q \in Refs : fn[q] # None => q <= size
      /\ \A q \in Links : link[q] # 0 => link[q] \in FreeRefs
      /\ \A p, q \in Links : link[p] # 0 /\ link[p] = link[q] => p = q
  BY BoundsAssumption DEF Registry
<1>4. c # None
  BY NoneAssumption
<1>5. fn' = [fn EXCEPT ![r] = c]
  BY <1>1 DEF Ref
<1>6. /\ fn' \in [Refs -> Callbacks \cup {None}] /\ fn'[r] = c
      /\ \A q \in Refs : q # r => fn'[q] = fn[q]
  BY <1>2, <1>3, <1>5
<1>7. 0 \in Links /\ 0 \in 0..MaxOps /\ \A q \in Links : q \in 0..MaxOps
  BY <1>3 DEF Links, FreeRefs, Refs
<1>8. CASE link[0] = 0
  <2>1. size' = size + 1 /\ link' = link /\ r = size + 1
    BY <1>2, <1>8 DEF Ref
  <2>2. \A q \in Refs : q \in FreeRefs' <=> q \in FreeRefs
    <3>1. \A q \in Refs : q # r /\ q <= size + 1 => q <= size
      BY <1>3, <2>1 DEF Refs
    <3>2. \A q \in Refs : q <= size => q <= size + 1 /\ q # r
      BY <1>3, <2>1 DEF Refs
    <3>3. Refs' = Refs
      BY DEF Refs
    <3> QED
      BY <1>4, <1>6, <2>1, <3>1, <3>2, <3>3 DEF FreeRefs
  <2>3. Links' = Links
    <3>1. Links' = {0} \cup FreeRefs'
      BY DEF Links, Refs
    <3>2. FreeRefs \subseteq Refs /\ FreeRefs' \subseteq Refs
      BY DEF FreeRefs, Refs
    <3> QED
      BY <2>2, <3>1, <3>2 DEF Links
  <2>4. \A q \in Links : link[q] # 0 => link[q] \in Refs
    BY <1>3 DEF FreeRefs
  <2>5. \A q \in Links' : link'[q] # 0 => link'[q] \in FreeRefs'
    BY <1>3, <2>1, <2>2, <2>3, <2>4
  <2>6. \A q \in Refs : fn'[q] # None => q <= size'
    BY <1>2, <1>3, <1>6, <2>1 DEF Refs
  <2> QED
    BY <1>2, <1>3, <1>6, <2>1, <2>3, <2>5, <2>6 DEF Registry, Refs
<1>9. CASE link[0] # 0
  <2>1. r = link[0] /\ r \in FreeRefs /\ size' = size
    BY <1>1, <1>2, <1>9 DEF Ref, FreeRef
  <2>2. link' = [link EXCEPT ![0] = link[r]]
    <3>1. link' = [link EXCEPT ![0] = IF fn[@] = None THEN link[@] ELSE 0]
      BY <1>9 DEF Ref
    <3> QED
      BY <1>2, <1>3, <1>7, <2>1, <3>1
  <2>3. r \in 0..MaxOps /\ r # 0 /\ r \in Links
    BY <1>3, <1>2, <2>1 DEF Refs, Links
  <2>4. /\ link' \in [0..MaxOps -> 0..MaxOps] /\ link'[0] = link[r]
        /\ \A q \in 0..MaxOps : q # 0 => link'[q] = link[q]
    BY <1>3, <1>7, <2>2, <2>3
  <2>5. \A q \in Refs : q \in FreeRefs' <=> q \in FreeRefs /\ q # r
    BY <1>4, <1>6, <2>1 DEF FreeRefs, Refs
  <2>6. \A q \in Links' : q \in Links /\ q # r
    BY <2>3, <2>5 DEF Links, FreeRefs, Refs
  <2>7. \A q \in Links : link[q] # 0 => link[q] \in Refs
    BY <1>3 DEF FreeRefs
  <2>8. ASSUME NEW q \in Links', link'[q] # 0
        PROVE  link'[q] \in FreeRefs'
    <3>1. CASE q = 0
      <4>1. link[r] # 0 /\ link'[q] = link[r]
        BY <2>4, <2>8, <3>1
      <4>2. link[r] \in FreeRefs /\ link[r] \in Refs
        BY <1>3, <2>3, <2>7, <4>1
      <4>3. link[r] # r
        BY <1>3, <1>7, <1>9, <2>1, <2>3
      <4> QED
        BY <2>5, <4>1, <4>2, <4>3
    <3>2. CASE q # 0
      <4>1. q \in Links /\ link'[q] = link[q]
        BY <1>7, <2>4, <2>6, <3>2
      <4>2. link[q] \in FreeRefs /\ link[q] \in Refs
        BY <1>3, <2>7, <2>8, <4>1
      <4>3. link[q] # r
        BY <1>3, <1>7, <1>9, <2>1, <3>2, <4>1
      <4> QED
        BY <2>5, <4>1, <4>2, <4>3
    <3> QED
      BY <3>1, <3>2
  <2>9. ASSUME NEW p \in Links', NEW q \in Links', link'[p] # 0, link'[p] = link'[q]
        PROVE  p = q
    <3> DEFINE Was(x) == IF x = 0 THEN r ELSE x
    <3>1. /\ Was(p) \in Links /\ link'[p] = link[Was(p)]
          /\ Was(q) \in Links /\ link'[q] = link[Was(q)]
      BY <1>7, <2>3, <2>4, <2>6
    <3>2. Was(p) = Was(q)
      <4> HIDE DEF Was
      <4> QED
        BY <1>3, <2>9, <3>1
    <3> QED
      BY <2>6, <3>2
  <2>10. \A q \in Refs : fn'[q] # None => q <= size'
    BY <1>3, <1>6, <2>1 DEF FreeRefs
  <2>11. size' \in Nat /\ ops' \in Nat /\ size' <= ops' /\ ops' <= MaxOps
    BY <1>2, <1>3, <2>1
  <2>12. Refs' = Refs
    BY DEF Refs
  <2> QED
    BY <1>6, <2>4, <2>8, <2>9, <2>10, <2>11, <2>12 DEF Registry
<1> QED
  BY <1>8, <1>9

\* luaL_unref puts the reference at the head of the free list.
LEMMA RefFreed ==
  ASSUME Registry, Op, NEW r \in Refs, fn[r] # None, Unref(r)
  PROVE  Registry'
<1>1. /\ fn \in [Refs -> Callbacks \cup {None}] /\ link \in [0..MaxOps -> 0..MaxOps]
      /\ size \in Nat /\ ops \in Nat /\ size <= ops /\ MaxOps \in Nat
      /\ \A q \in Refs : fn[q] # None => q <= size
      /\ \A q \in Links : link[q] # 0 => link[q] \in FreeRefs
      /\ \A p, q \in Links : link[p] # 0 /\ link[p] = link[q] => p = q
  BY BoundsAssumption DEF Registry
<1>2. ops' = ops + 1 /\ ops < MaxOps /\ size' = size
  BY DEF Op, Unref
<1>3. /\ fn' \in [Refs -> Callbacks \cup {None}] /\ fn'[r] = None
      /\ \A q \in Refs : q # r => fn'[q] = fn[q]
  BY <1>1 DEF Unref
<1>4. /\ 0 \in Links /\ 0 \in 0..MaxOps /\ \A q \in Links : q \in 0..MaxOps
      /\ r \in 0..MaxOps /\ r # 0 /\ r \notin FreeRefs
  BY <1>1 DEF Links, Refs, FreeRefs
<1>5. /\ link' \in [0..MaxOps -> 0..MaxOps] /\ link'[0] = r /\ link'[r] = link[0]
      /\ \A q \in 0..MaxOps : q # 0 /\ q # r => link'[q] = link[q]
  BY <1>1, <1>4 DEF Unref
<1>6. \A q \in Refs : q \in FreeRefs' <=> q \in FreeRefs \/ q = r
  BY <1>1, <1>2, <1>3 DEF FreeRefs, Refs
<1>7. \A q \in Links' : q \in Links \/ q = r
  BY <1>6 DEF Links, FreeRefs, Refs
<1>8. \A q \in Links : link[q] # 0 => link[q] \in Refs /\ link[q] # r
  BY <1>1, <1>4 DEF FreeRefs
<1>9. ASSUME NEW q \in Links', link'[q] # 0
      PROVE  link'[q] \in FreeRefs'
  <2>1. CASE q = 0
    BY <1>5, <1>6, <2>1
  <2>2. CASE q = r
    <3>1. link'[q] = link[0] /\ link[0] # 0
      BY <1>5, <1>9, <2>2
    <3> QED
      BY <1>1, <1>4, <1>6, <1>8, <3>1
  <2>3. CASE q # 0 /\ q # r
    <3>1. q \in Links /\ link'[q] = link[q]
      BY <1>4, <1>5, <1>7, <2>3
    <3> QED
      BY <1>1, <1>6, <1>8, <1>9, <3>1
  <2> QED
    BY <2>1, <2>2, <2>3
<1>10. ASSUME NEW p \in Links', NEW q \in Links', link'[p] # 0, link'[p] = link'[q]
       PROVE  p = q
  <2> DEFINE Was(x) == IF x = r THEN 0 ELSE x
  <2>1. ASSUME NEW x \in Links', x # 0
        PROVE  Was(x) \in Links /\ link'[x] = link[Was(x)]
    BY <1>4, <1>5, <1>7, <2>1
  <2>2. ASSUME NEW x \in Links', x # 0, link'[x] # 0
        PROVE  link'[x] # r
    <3> HIDE DEF Was
    <3> QED
      BY <1>8, <2>1, <2>2
  <2>3. CASE p # 0 /\ q # 0
    <3>1. Was(p) = Was(q)
      <4> HIDE DEF Was
      <4> QED
        BY <1>1, <1>10, <2>1, <2>3
    <3> QED
      BY <2>3, <3>1
  <2>4. CASE p = 0 \/ q = 0
    BY <1>5, <1>10, <2>2, <2>4
  <2> QED
    BY <2>3, <2>4
<1>11. \A q \in Refs : fn'[q] # None => q <= size'
  BY <1>1, <1>2, <1>3
<1>12. size' \in Nat /\ ops' \in Nat /\ size' <= ops' /\ ops' <= MaxOps
  BY <1>1, <1>2
<1>13. Refs' = Refs
  BY DEF Refs
<1> QED
  BY <1>3, <1>5, <1>9, <1>10, <1>11, <1>12, <1>13 DEF Registry

LEMMA RegistrySame ==
  ASSUME Registry, UNCHANGED registry, ops' = ops \/ Op
  PROVE  Registry'
<1>1. ops \in Nat /\ size \in Nat /\ MaxOps \in Nat /\ size <= ops /\ ops <= MaxOps
  BY BoundsAssumption DEF Registry
<1>2. ops' \in Nat /\ size <= ops' /\ ops' <= MaxOps
  BY <1>1 DEF Op
<1>3. Links' = Links /\ FreeRefs' = FreeRefs
  BY DEF Links, FreeRefs, registry, Refs
<1> QED
  BY <1>2, <1>3 DEF Registry, registry, Refs

-----------------------------------------------------------------------------
(* What Lua asked for *)

\* no_change: nothing is left to be done to refs.
LEMMA TrailEmpty ==
  ASSUME NEW refs, Lists(refs)
  PROVE  \E w : Trail(w, refs, <<>>) /\ Sound(w, <<>>) /\ w[Len(<<>>)] = refs
<1> DEFINE w == [k \in 0..0 |-> refs]
<1>1. Len(<<>>) = 0 /\ w[0] = refs /\ \A k \in 0..0 : k = 0
  OBVIOUS
<1>2. Trail(w, refs, <<>>)
  BY <1>1 DEF Trail
<1>3. Sound(w, <<>>)
  BY <1>1 DEF Sound
<1> QED
  BY <1>1, <1>2, <1>3

\* The changes are about lists of references, and lead from some to some.
LEMMA LeadingLists ==
  ASSUME Leading, Len(hook_changes) \in Nat
  PROVE  Lists(hook_refs) /\ Lists(Expected)
<1>1. PICK w : /\ Trail(w, hook_refs, hook_changes) /\ Sound(w, hook_changes)
               /\ w[Len(hook_changes)] = Expected
  BY DEF Leading
<1>2. 0 \in 0..Len(hook_changes) /\ Len(hook_changes) \in 0..Len(hook_changes)
  OBVIOUS
<1>3. w[0] = hook_refs
  BY <1>1, <1>2 DEF Trail
<1> QED
  BY <1>1, <1>2, <1>3 DEF Sound

\* Without changes, the references are those expected.
LEMMA LeadingNowhere ==
  ASSUME Leading, hook_changes = <<>>
  PROVE  hook_refs = Expected
<1>1. PICK w : Trail(w, hook_refs, <<>>) /\ w[0] = Expected
  BY DEF Leading
<1> QED
  BY <1>1 DEF Trail

LEMMA ExpectedIs ==
  ASSUME Ids, Lived
  PROVE  /\ Expected \in [Hooks -> Seq(Refs)]
         /\ \A h \in Hooks : /\ Len(Expected[h]) = Len(live[h]) /\ Len(live[h]) \in Nat
                             /\ \A k \in 1..Len(live[h]) :
                                  /\ live[h][k] \in Callbacks /\ Live(live[h][k])
                                  /\ id[live[h][k]].hook = h
                                  /\ Expected[h][k] = id[live[h][k]].ref
                                  /\ Expected[h][k] \in Refs
<1>1. ASSUME NEW h \in Hooks
      PROVE  /\ Expected[h] \in Seq(Refs)
             /\ Len(Expected[h]) = Len(live[h]) /\ Len(live[h]) \in Nat
             /\ \A k \in 1..Len(live[h]) :
                                  /\ live[h][k] \in Callbacks /\ Live(live[h][k])
                                  /\ id[live[h][k]].hook = h
                                  /\ Expected[h][k] = id[live[h][k]].ref
                                  /\ Expected[h][k] \in Refs
  <2>1. PICK s : s = live[h]
    OBVIOUS
  <2>2. /\ s \in Seq(Callbacks) /\ Len(s) \in Nat
        /\ \A c \in Callbacks : Occurs(s, c) => Live(c) /\ id[c].hook = h
    BY <2>1 DEF Lived
  <2>3. \A k \in 1..Len(s) : s[k] \in Callbacks /\ Occurs(s, s[k])
    BY <2>2 DEF Occurs
  <2>4. \A k \in 1..Len(s) : /\ s[k] \in Callbacks /\ Live(s[k]) /\ id[s[k]].hook = h
                             /\ id[s[k]].ref \in Refs
    <3>1. \A c \in Callbacks : Live(c) => id[c].ref \in Refs
      BY DEF Ids, Live
    <3> QED
      BY <2>2, <2>3, <3>1
  <2>5. Expected[h] = [k \in 1..Len(s) |-> id[s[k]].ref]
    BY <2>1 DEF Expected
  <2>6. Expected[h] \in [1..Len(s) -> Refs]
    BY <2>4, <2>5
  <2>7. Expected[h] \in Seq(Refs) /\ Len(Expected[h]) = Len(s)
    BY <2>2, <2>6
  <2> QED
    BY <2>1, <2>2, <2>4, <2>5, <2>7
<1>2. Expected = [h \in Hooks |-> Expected[h]]
  BY DEF Expected
<1>3. Expected \in [Hooks -> Seq(Refs)]
  BY <1>1, <1>2
<1> QED
  BY <1>1, <1>3

\* What luaL_ref returns is the reference of no live callback.
LEMMA FreshForAll ==
  ASSUME Ids, Lived, Registry, ReferencesOwned, ops < MaxOps
  PROVE  /\ \A c \in Callbacks : Live(c) => id[c].ref # FreeRef
         /\ \A h \in Hooks : ~Occurs(Expected[h], FreeRef)
<1>1. FreeRef \in Refs /\ fn[FreeRef] = None
  BY FreshRef
<1>2. \A c \in Callbacks : Live(c) => id[c].ref # FreeRef
  BY <1>1, NoneAssumption DEF ReferencesOwned, Live
<1>3. ASSUME NEW h \in Hooks, Occurs(Expected[h], FreeRef)
      PROVE  FALSE
  <2>1. PICK k \in 1..Len(Expected[h]) : Expected[h][k] = FreeRef
    BY <1>3 DEF Occurs
  <2>2. k \in 1..Len(live[h]) /\ live[h][k] \in Callbacks /\ Live(live[h][k])
        /\ id[live[h][k]].ref = FreeRef
    BY <2>1, ExpectedIs
  <2> QED
    BY <1>2, <2>2
<1> QED
  BY <1>2, <1>3

\* the change AddHook makes, at once or later
Addition(h, r) == [hook |-> h, ref |-> r, remove |-> FALSE]
Removal(h, r) == [hook |-> h, ref |-> r, remove |-> TRUE]

LEMMA ExpectedAdds ==
  ASSUME Ids, Lived, NEW h \in Hooks, NEW c \in Callbacks, NEW r \in Refs,
         id[c] = NoId, id' = [id EXCEPT ![c] = [hook |-> h, ref |-> r]],
         live' = [live EXCEPT ![h] = Append(@, c)], removed' = removed
  PROVE  /\ Ids' /\ Lived' /\ Live(c)' /\ id'[c] = [hook |-> h, ref |-> r]
         /\ \A x \in Callbacks : x # c => (Live(x)' <=> Live(x)) /\ id'[x] = id[x]
         /\ \A x \in Callbacks : Live(x) => Live(x)' /\ id'[x] = id[x]
         /\ Expected' = ApplyOne(Expected, Addition(h, r))
<1>1. r # 0 /\ Refs' = Refs /\ [hook |-> h, ref |-> r] # NoId
  BY BoundsAssumption DEF Refs, NoId
<1>2. /\ id \in [Callbacks -> {NoId} \cup [hook : Hooks, ref : Refs]]
      /\ live \in [Hooks -> Seq(Callbacks)]
      /\ removed \subseteq {x \in Callbacks : id[x] # NoId}
      /\ \A g \in Hooks : /\ Distinct(live[g])
                          /\ \A x \in Callbacks :
                               Occurs(live[g], x) <=> Live(x) /\ id[x].hook = g
  BY DEF Ids, Lived
<1>3. /\ id' \in [Callbacks -> {NoId} \cup [hook : Hooks, ref : Refs]]
      /\ id'[c] = [hook |-> h, ref |-> r] /\ \A x \in Callbacks : x # c => id'[x] = id[x]
  BY <1>2
<1>4. c \notin removed /\ ~Live(c) /\ Live(c)'
  BY <1>1, <1>2, <1>3 DEF Live, NoId
<1>5. \A x \in Callbacks : x # c => (Live(x)' <=> Live(x))
  BY <1>3 DEF Live, NoId
<1>6. Ids'
  BY <1>1, <1>2, <1>3 DEF Ids, NoId
<1>7. PICK s : s = Append(live[h], c)
  OBVIOUS
<1>8. live[h] \in Seq(Callbacks) /\ Distinct(live[h]) /\ ~Occurs(live[h], c)
  BY <1>2, <1>4
<1>9. /\ s \in Seq(Callbacks) /\ Len(s) = Len(live[h]) + 1 /\ Distinct(s)
      /\ \A x : Occurs(s, x) <=> Occurs(live[h], x) \/ x = c
      /\ s[Len(live[h]) + 1] = c /\ \A k \in 1..Len(live[h]) : s[k] = live[h][k]
  BY <1>7, <1>8, AppendDistinct
<1>10. /\ live' = [live EXCEPT ![h] = s] /\ live' \in [Hooks -> Seq(Callbacks)]
       /\ live'[h] = s /\ \A g \in Hooks : g # h => live'[g] = live[g]
  BY <1>2, <1>7, <1>9
<1>11. Lived'
  <2>1. ASSUME NEW g \in Hooks
        PROVE  Distinct(live'[g])
    BY <1>2, <1>9, <1>10
  <2>2. ASSUME NEW g \in Hooks, NEW x \in Callbacks
        PROVE  Occurs(live'[g], x) <=> Live(x)' /\ id'[x].hook = g
    <3>1. CASE x = c
      <4>1. Occurs(live'[h], c) /\ Live(c)' /\ id'[c].hook = h
        BY <1>3, <1>4, <1>9, <1>10
      <4>2. CASE g = h
        BY <3>1, <4>1, <4>2
      <4>3. CASE g # h
        <5>1. live'[g] = live[g] /\ ~Occurs(live[g], c)
          BY <1>2, <1>4, <1>10, <4>3
        <5> QED
          BY <3>1, <4>1, <4>3, <5>1
      <4> QED
        BY <4>2, <4>3
    <3>2. CASE x # c
      <4>1. id'[x] = id[x] /\ (Live(x)' <=> Live(x))
        BY <1>3, <1>5, <3>2
      <4>2. Occurs(live[g], x) <=> Live(x) /\ id[x].hook = g
        BY <1>2
      <4>3. Occurs(live'[g], x) <=> Occurs(live[g], x)
        BY <1>9, <1>10, <3>2
      <4> QED
        BY <4>1, <4>2, <4>3
    <3> QED
      BY <3>1, <3>2
  <2> QED
    BY <1>10, <2>1, <2>2 DEF Lived
<1>12. Expected' = ApplyOne(Expected, Addition(h, r))
  <2>1. PICK t : t = Append(Expected[h], r)
    OBVIOUS
  <2>2. /\ Expected \in [Hooks -> Seq(Refs)] /\ Len(Expected[h]) = Len(live[h])
        /\ Len(live[h]) \in Nat
    BY ExpectedIs
  <2>3. /\ t \in Seq(Refs) /\ Len(t) = Len(live[h]) + 1 /\ t[Len(live[h]) + 1] = r
        /\ \A k \in 1..Len(live[h]) : t[k] = Expected[h][k]
    BY <2>1, <2>2
  <2>4. ApplyOne(Expected, Addition(h, r)) = [Expected EXCEPT ![h] = t]
    BY <1>1, <2>1 DEF ApplyOne, Addition
  <2>5. ASSUME NEW k \in 1..Len(s)
        PROVE  t[k] = id'[s[k]].ref
    <3>1. CASE k \in 1..Len(live[h])
      <4>1. live[h][k] \in Callbacks /\ Live(live[h][k]) /\ t[k] = id[live[h][k]].ref
        BY <2>3, <3>1, ExpectedIs
      <4>2. s[k] = live[h][k]
        BY <1>9, <3>1
      <4> QED
        BY <1>3, <1>4, <4>1, <4>2
    <3>2. CASE k = Len(live[h]) + 1
      BY <1>3, <1>9, <2>3, <3>2
    <3> QED
      BY <1>9, <2>2, <3>1, <3>2
  <2>6. [k \in 1..Len(s) |-> id'[s[k]].ref] = t
    <3>1. t = [k \in 1..Len(t) |-> t[k]] /\ Len(t) = Len(s)
      BY <1>9, <2>3
    <3> QED
      BY <2>5, <3>1
  <2>7. ASSUME NEW g \in Hooks, g # h
        PROVE  [k \in 1..Len(live'[g]) |-> id'[live'[g][k]].ref] = Expected[g]
    <3>1. live'[g] = live[g]
      BY <1>10, <2>7
    <3>2. \A k \in 1..Len(live[g]) : id'[live[g][k]].ref = id[live[g][k]].ref
      BY <1>3, <1>4, ExpectedIs
    <3>3. Expected[g] = [k \in 1..Len(live[g]) |-> id[live[g][k]].ref]
      BY DEF Expected
    <3> QED
      BY <3>1, <3>2, <3>3
  <2>8. Expected' = [g \in Hooks |-> IF g = h THEN t ELSE Expected[g]]
    <3>1. PICK e : e = Expected'
      OBVIOUS
    <3>2. e = [g \in Hooks |-> [k \in 1..Len(live'[g]) |-> id'[live'[g][k]].ref]]
      BY <3>1 DEF Expected
    <3>3. e[h] = t
      BY <1>10, <2>6, <3>2
    <3>4. \A g \in Hooks : g # h => e[g] = Expected[g]
      BY <2>7, <3>2
    <3>5. e = [g \in Hooks |-> e[g]]
      BY <3>2
    <3> QED
      BY <3>1, <3>3, <3>4, <3>5
  <2>9. [Expected EXCEPT ![h] = t] = [g \in Hooks |-> IF g = h THEN t ELSE Expected[g]]
    BY <2>2
  <2> QED
    BY <2>4, <2>8, <2>9
<1> QED
  BY <1>3, <1>4, <1>5, <1>6, <1>11, <1>12

LEMMA ExpectedRemoves ==
  ASSUME Ids, Lived, Leading, Len(hook_changes) \in Nat, NEW c \in Callbacks,
         NEW h, NEW r, Live(c), h = id[c].hook, r = id[c].ref,
         id' = id, removed' = removed \cup {c}, live' = [live EXCEPT ![h] = RemoveFirst(@, c)]
  PROVE  /\ Ids' /\ Lived' /\ h \in Hooks /\ r \in Refs /\ Occurs(Expected[h], r)
         /\ \A x \in Callbacks : Live(x)' <=> Live(x) /\ x # c
         /\ Expected' = Less(Expected, h, r)
<1>1. /\ id \in [Callbacks -> {NoId} \cup [hook : Hooks, ref : Refs]]
      /\ live \in [Hooks -> Seq(Callbacks)]
      /\ removed \subseteq {x \in Callbacks : id[x] # NoId}
      /\ \A g \in Hooks : /\ Distinct(live[g])
                          /\ \A x \in Callbacks :
                               Occurs(live[g], x) <=> Live(x) /\ id[x].hook = g
  BY DEF Ids, Lived
<1>2. h \in Hooks /\ r \in Refs /\ Refs' = Refs /\ id[c] # NoId
  BY <1>1 DEF Live, Refs
<1>3. \A x \in Callbacks : Live(x)' <=> Live(x) /\ x # c
  BY DEF Live, NoId
<1>4. Ids'
  BY <1>1, <1>2 DEF Ids, NoId
<1>5. live[h] \in Seq(Callbacks) /\ Distinct(live[h]) /\ Occurs(live[h], c)
  BY <1>1, <1>2
<1>6. PICK i \in 1..Len(live[h]) : live[h][i] = c /\ RemoveFirst(live[h], c) = Cut(live[h], i)
  BY <1>5, RemovePresent
<1>7. PICK s : s = Cut(live[h], i)
  OBVIOUS
<1>8. /\ s \in Seq(Callbacks) /\ Len(s) = Len(live[h]) - 1 /\ Len(live[h]) \in Nat
      /\ Distinct(s) /\ \A x : Occurs(s, x) <=> Occurs(live[h], x) /\ x # c
      /\ \A k \in 1..(Len(live[h]) - 1) : s[k] = IF k < i THEN live[h][k] ELSE live[h][k + 1]
  <2>1. PICK u : u = live[h]
    OBVIOUS
  <2>2. u \in Seq(Callbacks) /\ Distinct(u) /\ i \in 1..Len(u) /\ u[i] = c /\ s = Cut(u, i)
    BY <1>5, <1>6, <1>7, <2>1
  <2>3. /\ s \in Seq(Callbacks) /\ Len(s) = Len(u) - 1 /\ Len(u) \in Nat
        /\ \A k \in 1..(Len(u) - 1) : s[k] = IF k < i THEN u[k] ELSE u[k + 1]
    BY <2>2, CutIsSeq
  <2>4. Distinct(s) /\ \A x : Occurs(s, x) <=> Occurs(u, x) /\ x # c
    BY <2>2, CutOccurs
  <2> QED
    BY <2>1, <2>3, <2>4
<1>9. /\ live' = [live EXCEPT ![h] = s] /\ live' \in [Hooks -> Seq(Callbacks)]
      /\ live'[h] = s /\ \A g \in Hooks : g # h => live'[g] = live[g]
  BY <1>1, <1>2, <1>6, <1>7, <1>8
<1>10. Lived'
  <2>1. ASSUME NEW g \in Hooks
        PROVE  Distinct(live'[g])
    BY <1>1, <1>8, <1>9
  <2>2. ASSUME NEW g \in Hooks, NEW x \in Callbacks
        PROVE  Occurs(live'[g], x) <=> Live(x)' /\ id'[x].hook = g
    <3>1. CASE g = h
      BY <1>1, <1>2, <1>3, <1>8, <1>9, <3>1
    <3>2. CASE g # h
      BY <1>1, <1>3, <1>9, <3>2
    <3> QED
      BY <3>1, <3>2
  <2> QED
    BY <1>9, <2>1, <2>2 DEF Lived
<1>11. PICK e : e = Expected[h]
  OBVIOUS
<1>12. /\ e \in Seq(Refs) /\ Len(e) = Len(live[h]) /\ Distinct(e) /\ e[i] = r
       /\ Expected \in [Hooks -> Seq(Refs)]
       /\ \A k \in 1..Len(live[h]) : e[k] = id[live[h][k]].ref
  BY <1>2, <1>6, <1>11, ExpectedIs, LeadingLists DEF Lists
<1>13. i \in 1..Len(e) /\ Occurs(e, r)
  BY <1>12 DEF Occurs
<1>14. RemoveFirst(e, r) = Cut(e, i)
  BY <1>12, <1>13, RemoveFirstCuts
<1>15. PICK t : t = Cut(e, i)
  OBVIOUS
<1>16. /\ t \in Seq(Refs) /\ Len(t) = Len(s)
       /\ \A k \in 1..Len(s) : t[k] = id'[s[k]].ref
  <2>1. /\ t \in Seq(Refs) /\ Len(t) = Len(e) - 1
        /\ \A k \in 1..(Len(e) - 1) : t[k] = IF k < i THEN e[k] ELSE e[k + 1]
    BY <1>12, <1>13, <1>15, CutIsSeq
  <2>2. Len(t) = Len(s) /\ Len(e) - 1 = Len(s) /\ Len(live[h]) - 1 = Len(s)
    BY <1>8, <1>12, <2>1
  <2>3. ASSUME NEW k \in 1..Len(s)
        PROVE  t[k] = id'[s[k]].ref
    <3>1. k \in 1..Len(live[h]) /\ k + 1 \in 1..Len(live[h])
      BY <1>8, <2>2
    <3>2. t[k] = (IF k < i THEN e[k] ELSE e[k + 1])
      BY <2>1, <2>2
    <3>3. s[k] = (IF k < i THEN live[h][k] ELSE live[h][k + 1])
      BY <1>8, <2>2
    <3>4. e[k] = id[live[h][k]].ref /\ e[k + 1] = id[live[h][k + 1]].ref
      BY <1>12, <3>1
    <3> QED
      BY <3>2, <3>3, <3>4
  <2> QED
    BY <2>1, <2>2, <2>3
<1>17. [k \in 1..Len(s) |-> id'[s[k]].ref] = t
  <2>1. t = [k \in 1..Len(t) |-> t[k]]
    BY <1>16
  <2> QED
    BY <1>16, <2>1
<1>18. Expected' = Less(Expected, h, r)
  <2>1. Expected' = [g \in Hooks |-> [k \in 1..Len(live'[g]) |-> id'[live'[g][k]].ref]]
    BY DEF Expected
  <2>2. Expected = [g \in Hooks |-> [k \in 1..Len(live[g]) |-> id[live[g][k]].ref]]
    BY DEF Expected
  <2>3. \A g \in Hooks : [k \in 1..Len(live'[g]) |-> id'[live'[g][k]].ref]
                           = IF g = h THEN t ELSE Expected[g]
    BY <1>9, <1>17, <2>2
  <2>4. Less(Expected, h, r) = [Expected EXCEPT ![h] = t]
    BY <1>11, <1>14, <1>15 DEF Less
  <2>5. [Expected EXCEPT ![h] = t] = [g \in Hooks |-> IF g = h THEN t ELSE Expected[g]]
    BY <1>12
  <2> QED
    BY <2>1, <2>3, <2>4, <2>5
<1> QED
  BY <1>2, <1>3, <1>4, <1>10, <1>11, <1>13, <1>18

-----------------------------------------------------------------------------
(* Each step keeps the invariant *)

LEMMA InitHInv ==
  ASSUME Init
  PROVE  HInv
<1>1. /\ Len(<<>>) = 0 /\ \A k \in 1..Len(<<>>) : FALSE
      /\ \A S : <<>> \in Seq(S)
  OBVIOUS
<1>2. Ids
  BY DEF Init, Ids
<1>3. Lived
  BY <1>1 DEF Init, Lived, Distinct, Occurs, Live
<1>4. Registry
  BY BoundsAssumption DEF Init, Registry, Links, FreeRefs, Refs
<1>5. ReferencesOwned
  BY DEF Init, ReferencesOwned
<1>6. Pended
  BY <1>1 DEF Init, Pended
<1>7. Lists(hook_refs)
  BY <1>1 DEF Init, Lists, Distinct
<1>8. hook_refs = Expected
  <2>1. Expected = [h \in Hooks |-> [k \in 1..0 |-> id[live[h][k]].ref]]
    BY <1>1 DEF Init, Expected
  <2>2. \A h \in Hooks : [k \in 1..0 |-> id[live[h][k]].ref] = <<>>
    OBVIOUS
  <2> QED
    BY <2>1, <2>2 DEF Init
<1>9. Leading
  BY <1>7, <1>8, TrailEmpty DEF Init, Leading
<1>10. Nested
  BY <1>1 DEF Init, Nested
<1> QED
  BY <1>2, <1>3, <1>4, <1>5, <1>6, <1>9, <1>10 DEF HInv

\* hook_refs change only while no hook is run: the runs find theirs.
LEMMA NestedSame ==
  ASSUME Nested, UNCHANGED stack, stack = <<>> \/ UNCHANGED hook_refs
  PROVE  Nested'
<1>1. \A k \in 1..Len(<<>>) : FALSE
  OBVIOUS
<1>2. CASE UNCHANGED hook_refs
  BY <1>2 DEF Nested, Run
<1>3. CASE stack = <<>>
  BY <1>1, <1>3 DEF Nested, Run
<1> QED
  BY <1>2, <1>3

LEMMA DepthIs ==
  ASSUME Nested
  PROVE  /\ depth \in Nat /\ stack = [k \in 1..depth |-> stack[k]]
         /\ depth = 0 <=> stack = <<>>
  BY DEF Nested, depth

LEMMA AddHookHInv ==
  ASSUME HInv, NEW h \in Hooks, NEW c \in Callbacks, AddHook(h, c)
  PROVE  HInv'
<1>1. PICK r : r = FreeRef
  OBVIOUS
<1>2. /\ Op /\ ops < MaxOps /\ id[c] = NoId /\ Ref(c)
      /\ id' = [id EXCEPT ![c] = [hook |-> h, ref |-> r]]
      /\ live' = [live EXCEPT ![h] = Append(@, c)]
      /\ UNCHANGED <<stack, removed, base>>
  BY <1>1 DEF AddHook, Op
<1>3. Ids /\ Lived /\ Registry /\ ReferencesOwned /\ Pended /\ Leading /\ Nested
  BY DEF HInv
<1>4. /\ r \in Refs /\ r # 0 /\ fn[r] = None
      /\ \A x \in Callbacks : Live(x) => id[x].ref # r
      /\ ~Occurs(Expected[h], r)
  <2>1. \A q \in Refs : q # 0
    BY DEF Refs
  <2> QED
    BY <1>1, <1>2, <1>3, <2>1, FreshRef, FreshForAll
<1>5. Registry'
  BY <1>2, <1>3, RefTaken
<1>6. /\ Ids' /\ Lived' /\ Live(c)' /\ id'[c] = [hook |-> h, ref |-> r]
      /\ \A x \in Callbacks : x # c => (Live(x)' <=> Live(x)) /\ id'[x] = id[x]
      /\ \A x \in Callbacks : Live(x) => Live(x)' /\ id'[x] = id[x]
      /\ Expected' = ApplyOne(Expected, Addition(h, r))
  BY <1>2, <1>3, <1>4, ExpectedAdds
<1>7. ReferencesOwned'
  <2>1. fn' = [fn EXCEPT ![r] = c] /\ fn \in [Refs -> Callbacks \cup {None}]
    BY <1>1, <1>2, <1>3 DEF Ref, Registry
  <2>2. ASSUME NEW x \in Callbacks, Live(x)'
        PROVE  fn'[id'[x].ref] = x
    <3>1. CASE x = c
      BY <1>4, <1>6, <2>1, <3>1
    <3>2. CASE x # c
      <4>1. Live(x) /\ id'[x] = id[x]
        BY <1>6, <2>2, <3>2
      <4>2. fn[id[x].ref] = x /\ id[x].ref \in Refs /\ id[x].ref # r
        BY <1>3, <1>4, <4>1 DEF ReferencesOwned, Live, Ids
      <4> QED
        BY <2>1, <4>1, <4>2
    <3> QED
      BY <3>1, <3>2
  <2> QED
    BY <2>2 DEF ReferencesOwned, Live, NoId
<1>8. /\ hook_changes \in Seq(Changes) /\ Len(hook_changes) \in Nat
      /\ depth \in Nat /\ (depth = 0 <=> stack = <<>>) /\ depth' = depth
  BY <1>2, <1>3, DepthIs DEF Pended, depth
<1>9. Lists(hook_refs) /\ Lists(Expected)
  BY <1>3, <1>8, LeadingLists
<1>10. PICK a : a = Addition(h, r)
  OBVIOUS
<1>11. a \in Changes /\ Adds(a) /\ a.hook = h /\ a.ref = r /\ a.remove = FALSE
  BY <1>4, <1>10 DEF Changes, Addition, Adds
<1>12. CASE depth = 0
  <2>1. /\ hook_refs' = [hook_refs EXCEPT ![h] = Append(@, r)]
        /\ hook_changes' = hook_changes /\ hook_changes = <<>> /\ stack = <<>>
    BY <1>1, <1>3, <1>8, <1>12 DEF AddHook, Pended
  <2>2. hook_refs = Expected
    BY <1>3, <2>1, LeadingNowhere
  <2>3. hook_refs' = ApplyOne(hook_refs, a)
    BY <1>11, <2>1 DEF ApplyOne, Adds
  <2>4. Lists(hook_refs') /\ hook_refs' = Expected'
    BY <1>4, <1>6, <1>9, <1>10, <1>11, <2>2, <2>3, ApplyLists
  <2>5. Leading'
    BY <2>1, <2>4, TrailEmpty DEF Leading
  <2>6. Pended'
    <3>1. \A k \in 1..Len(<<>>) : FALSE
      OBVIOUS
    <3> QED
      BY <2>1, <3>1 DEF Pended
  <2>7. Nested'
    BY <1>2, <1>3, <2>1, NestedSame
  <2> QED
    BY <1>5, <1>6, <1>7, <2>5, <2>6, <2>7 DEF HInv
<1>13. CASE depth # 0
  <2>1. hook_refs' = hook_refs /\ hook_changes' = Append(hook_changes, a)
    BY <1>1, <1>8, <1>10, <1>13 DEF AddHook, Addition
  <2>2. PICK n : n = Len(hook_changes)
    OBVIOUS
  <2>3. /\ n \in Nat /\ hook_changes' \in Seq(Changes) /\ Len(hook_changes') = n + 1
        /\ hook_changes'[n + 1] = a
        /\ \A k \in 1..n : hook_changes'[k] = hook_changes[k]
    BY <1>8, <1>11, <2>1, <2>2
  <2>4. PICK w : /\ Trail(w, hook_refs, hook_changes) /\ Sound(w, hook_changes)
                 /\ w[n] = Expected
    BY <1>3, <2>2 DEF Leading
  <2>5. \E v : /\ Trail(v, hook_refs, Append(hook_changes, a))
               /\ Sound(v, Append(hook_changes, a))
               /\ v[n + 1] = ApplyOne(Expected, a)
    BY <1>4, <1>8, <1>11, <2>2, <2>4, TrailAppend
  <2>6. Leading'
    BY <1>6, <1>10, <2>1, <2>3, <2>5 DEF Leading
  <2>7. \A k \in 1..(n + 1) : k \in 1..n \/ k = n + 1
    BY <2>3
  <2>8. \A k \in 1..n : Awaited(k)' <=> Awaited(k)
    BY <2>1, <2>3 DEF Awaited
  <2>9. \A k \in 1..n : Awaited(k) =>
          ~(hook_changes[k].hook = h /\ hook_changes[k].ref = r)
    <3> SUFFICES ASSUME NEW k \in 1..n, Awaited(k),
                        hook_changes[k].hook = h, hook_changes[k].ref = r
                 PROVE  FALSE
      OBVIOUS
    <3>1. PICK x \in Callbacks : Live(x) /\ id[x] = [hook |-> h, ref |-> r]
      BY <1>3, <2>2 DEF Pended
    <3> QED
      BY <1>4, <3>1
  <2>10. ASSUME NEW k \in 1..(n + 1), hook_changes'[k].remove
         PROVE  Occurs(hook_refs[hook_changes'[k].hook], hook_changes'[k].ref)
    <3>1. k \in 1..n
      BY <1>11, <2>3, <2>7, <2>10
    <3> QED
      BY <1>3, <2>2, <2>3, <2>10, <3>1 DEF Pended
  <2>11. ASSUME NEW k \in 1..(n + 1), Awaited(k)'
         PROVE  \E x \in Callbacks :
                  /\ Live(x)'
                  /\ id'[x] = [hook |-> hook_changes'[k].hook, ref |-> hook_changes'[k].ref]
    <3>1. CASE k = n + 1
      BY <1>6, <1>11, <2>3, <3>1
    <3>2. CASE k \in 1..n
      <4>1. Awaited(k)
        BY <2>8, <2>11, <3>2
      <4>2. PICK x \in Callbacks :
              Live(x) /\ id[x] = [hook |-> hook_changes[k].hook, ref |-> hook_changes[k].ref]
        BY <1>3, <2>2, <3>2, <4>1 DEF Pended
      <4> QED
        BY <1>6, <2>3, <3>2, <4>2
    <3> QED
      BY <2>7, <3>1, <3>2
  <2>12. ASSUME NEW j \in 1..(n + 1), NEW k \in 1..(n + 1), Awaited(j)', Awaited(k)',
                hook_changes'[j].hook = hook_changes'[k].hook,
                hook_changes'[j].ref = hook_changes'[k].ref
         PROVE  j = k
    <3>1. CASE j \in 1..n /\ k \in 1..n
      <4>1. Awaited(j) /\ Awaited(k)
        BY <2>8, <2>12, <3>1
      <4>2. /\ hook_changes[j].hook = hook_changes[k].hook
            /\ hook_changes[j].ref = hook_changes[k].ref
        BY <2>3, <2>12, <3>1
      <4> QED
        BY <1>3, <2>2, <3>1, <4>1, <4>2 DEF Pended
    <3>2. CASE j \in 1..n /\ k = n + 1
      BY <1>11, <2>3, <2>8, <2>9, <2>12, <3>2
    <3>3. CASE k \in 1..n /\ j = n + 1
      BY <1>11, <2>3, <2>8, <2>9, <2>12, <3>3
    <3> QED
      BY <2>7, <3>1, <3>2, <3>3
  <2>13. Pended'
    <3>1. depth' # 0
      BY <1>8, <1>13
    <3>2. Changes' = Changes
      BY DEF Changes, Refs
    <3> QED
      BY <2>1, <2>3, <2>10, <2>11, <2>12, <3>1, <3>2 DEF Pended
  <2>14. Nested'
    BY <1>2, <1>3, <2>1, NestedSame
  <2> QED
    BY <1>5, <1>6, <1>7, <2>6, <2>13, <2>14 DEF HInv
<1> QED
  BY <1>12, <1>13

LEMMA DelHookHInv ==
  ASSUME HInv, ~RemoveTwice, NEW c \in Callbacks, DelHook(c)
  PROVE  HInv'
<1>1. PICK h : h = id[c].hook
  OBVIOUS
<1>2. PICK r : r = id[c].ref
  OBVIOUS
<1>3. /\ Op /\ Live(c) /\ Unref(r) /\ RemoveHook(id[c])
      /\ id' = id /\ removed' = removed \cup {c}
      /\ live' = [live EXCEPT ![h] = RemoveFirst(@, c)]
      /\ UNCHANGED <<stack, base>>
  BY <1>1, <1>2 DEF DelHook, Live
<1>4. Ids /\ Lived /\ Registry /\ ReferencesOwned /\ Pended /\ Leading /\ Nested
  BY DEF HInv
<1>5. /\ hook_changes \in Seq(Changes) /\ Len(hook_changes) \in Nat
      /\ depth \in Nat /\ (depth = 0 <=> stack = <<>>) /\ depth' = depth
  BY <1>3, <1>4, DepthIs DEF Pended, depth
<1>6. /\ Ids' /\ Lived' /\ h \in Hooks /\ r \in Refs /\ Occurs(Expected[h], r)
      /\ \A x \in Callbacks : Live(x)' <=> Live(x) /\ x # c
      /\ Expected' = Less(Expected, h, r)
  BY <1>1, <1>2, <1>3, <1>4, <1>5, ExpectedRemoves
<1>7. fn[r] = c /\ c # None
  BY <1>2, <1>3, <1>4, NoneAssumption DEF ReferencesOwned, Live
<1>8. Registry'
  BY <1>3, <1>4, <1>6, <1>7, RefFreed
<1>9. ReferencesOwned'
  <2>1. fn' = [fn EXCEPT ![r] = None] /\ fn \in [Refs -> Callbacks \cup {None}]
    BY <1>3, <1>4 DEF Unref, Registry
  <2>2. ASSUME NEW x \in Callbacks, Live(x)'
        PROVE  fn'[id'[x].ref] = x
    <3>1. Live(x) /\ x # c /\ id'[x] = id[x]
      BY <1>3, <1>6, <2>2
    <3>2. fn[id[x].ref] = x /\ id[x].ref \in Refs /\ id[x].ref # r
      BY <1>4, <1>7, <3>1 DEF ReferencesOwned, Live, Ids
    <3> QED
      BY <2>1, <3>1, <3>2
  <2> QED
    BY <2>2 DEF ReferencesOwned, Live, NoId
<1>10. Lists(hook_refs) /\ Lists(Expected)
  BY <1>4, <1>5, LeadingLists
<1>11. PICK a : a = Removal(h, r)
  OBVIOUS
<1>12. /\ a \in Changes /\ ~Adds(a) /\ a.hook = h /\ a.ref = r /\ a.remove = TRUE /\ r # 0
       /\ \A refs : ApplyOne(refs, a) = Less(refs, h, r)
  BY <1>6, <1>11 DEF Changes, Removal, Adds, ApplyOne, Less, Refs
<1>13. /\ hook_refs[h] \in Seq(Refs) /\ Distinct(hook_refs[h])
       /\ hook_refs \in [Hooks -> Seq(Refs)]
  BY <1>6, <1>10 DEF Lists
<1>14. Contains(hook_refs[h], r) <=> Occurs(hook_refs[h], r)
  <2>1. PICK s : s = hook_refs[h]
    OBVIOUS
  <2>2. s \in Seq(Refs)
    BY <1>13, <2>1
  <2>3. Contains(s, r) <=> Occurs(s, r)
    BY <2>2 DEF Contains, Occurs
  <2> QED
    BY <2>1, <2>3
<1>15. ASSUME NEW x \in Callbacks, Live(x), id[x] # id[c]
       PROVE  Live(x)' /\ id'[x] = id[x]
  BY <1>3, <1>6, <1>15
<1>16. CASE Occurs(hook_refs[h], r) /\ depth = 0
  <2>1. /\ hook_refs' = [hook_refs EXCEPT ![h] = RemoveFirst(@, r)]
        /\ hook_changes' = hook_changes /\ hook_changes = <<>> /\ stack = <<>>
    BY <1>1, <1>2, <1>3, <1>4, <1>5, <1>14, <1>16 DEF RemoveHook, Pended
  <2>2. hook_refs = Expected
    BY <1>4, <2>1, LeadingNowhere
  <2>3. hook_refs' = ApplyOne(hook_refs, a)
    BY <1>12, <2>1 DEF Less
  <2>4. Lists(hook_refs') /\ hook_refs' = Expected'
    BY <1>6, <1>10, <1>12, <2>2, <2>3, ApplyLists
  <2>5. Leading'
    BY <2>1, <2>4, TrailEmpty DEF Leading
  <2>6. Pended'
    <3>1. \A k \in 1..Len(<<>>) : FALSE
      OBVIOUS
    <3> QED
      BY <2>1, <3>1 DEF Pended
  <2>7. Nested'
    BY <1>3, <1>4, <2>1, NestedSame
  <2> QED
    BY <1>6, <1>8, <1>9, <2>5, <2>6, <2>7 DEF HInv
<1>17. CASE Occurs(hook_refs[h], r) /\ depth # 0
  <2>1. hook_refs' = hook_refs /\ hook_changes' = Append(hook_changes, a)
    BY <1>1, <1>2, <1>3, <1>5, <1>11, <1>14, <1>17 DEF RemoveHook, Removal
  <2>2. PICK n : n = Len(hook_changes)
    OBVIOUS
  <2>3. /\ n \in Nat /\ hook_changes' \in Seq(Changes) /\ Len(hook_changes') = n + 1
        /\ hook_changes'[n + 1] = a
        /\ \A k \in 1..n : hook_changes'[k] = hook_changes[k]
    BY <1>5, <1>12, <2>1, <2>2
  <2>4. PICK w : /\ Trail(w, hook_refs, hook_changes) /\ Sound(w, hook_changes)
                 /\ w[n] = Expected
    BY <1>4, <2>2 DEF Leading
  <2>5. \E v : /\ Trail(v, hook_refs, Append(hook_changes, a))
               /\ Sound(v, Append(hook_changes, a))
               /\ v[n + 1] = ApplyOne(Expected, a)
    <3>1. a \in Changes /\ (Adds(a) => ~Occurs(w[Len(hook_changes)][a.hook], a.ref))
      BY <1>12
    <3>2. \E v : /\ Trail(v, hook_refs, Append(hook_changes, a))
                 /\ Sound(v, Append(hook_changes, a))
                 /\ v[Len(hook_changes) + 1] = ApplyOne(w[Len(hook_changes)], a)
      BY <1>5, <2>4, <3>1, TrailAppend
    <3> QED
      BY <2>2, <2>4, <3>2
  <2>6. Leading'
    BY <1>6, <1>12, <2>1, <2>3, <2>5 DEF Leading
  <2>7. \A k \in 1..(n + 1) : k \in 1..n \/ k = n + 1
    BY <2>3
  <2>8. ASSUME NEW k \in 1..(n + 1), Awaited(k)'
        PROVE  k \in 1..n /\ Awaited(k)
    <3>1. k # n + 1
      BY <1>12, <2>3, <2>8 DEF Awaited
    <3> QED
      BY <2>1, <2>3, <2>7, <2>8, <3>1 DEF Awaited
  <2>9. ASSUME NEW k \in 1..(n + 1), hook_changes'[k].remove
        PROVE  Occurs(hook_refs[hook_changes'[k].hook], hook_changes'[k].ref)
    <3>1. CASE k = n + 1
      BY <1>12, <1>17, <2>3, <3>1
    <3>2. CASE k \in 1..n
      BY <1>4, <2>2, <2>3, <2>9, <3>2 DEF Pended
    <3> QED
      BY <2>7, <3>1, <3>2
  <2>10. ASSUME NEW k \in 1..(n + 1), Awaited(k)'
         PROVE  \E x \in Callbacks :
                  /\ Live(x)'
                  /\ id'[x] = [hook |-> hook_changes'[k].hook, ref |-> hook_changes'[k].ref]
    <3>1. k \in 1..n /\ Awaited(k)
      BY <2>8, <2>10
    <3>2. PICK x \in Callbacks :
            Live(x) /\ id[x] = [hook |-> hook_changes[k].hook, ref |-> hook_changes[k].ref]
      BY <1>4, <2>2, <3>1 DEF Pended
    <3>3. id[x] # id[c]
      BY <1>1, <1>2, <1>17, <3>1, <3>2 DEF Awaited
    <3> QED
      BY <1>15, <2>3, <3>1, <3>2, <3>3
  <2>11. ASSUME NEW j \in 1..(n + 1), NEW k \in 1..(n + 1), Awaited(j)', Awaited(k)',
                hook_changes'[j].hook = hook_changes'[k].hook,
                hook_changes'[j].ref = hook_changes'[k].ref
         PROVE  j = k
    <3>1. j \in 1..n /\ k \in 1..n /\ Awaited(j) /\ Awaited(k)
      BY <2>8, <2>11
    <3>2. /\ hook_changes[j].hook = hook_changes[k].hook
          /\ hook_changes[j].ref = hook_changes[k].ref
      BY <2>3, <2>11, <3>1
    <3> QED
      BY <1>4, <2>2, <3>1, <3>2 DEF Pended
  <2>12. Pended'
    <3>1. depth' # 0
      BY <1>5, <1>17
    <3>2. Changes' = Changes
      BY DEF Changes, Refs
    <3> QED
      BY <2>1, <2>3, <2>9, <2>10, <2>11, <3>1, <3>2 DEF Pended
  <2>13. Nested'
    BY <1>3, <1>4, <2>1, NestedSame
  <2> QED
    BY <1>6, <1>8, <1>9, <2>6, <2>12, <2>13 DEF HInv
\* The hook was added during the run: its addition is made void.
<1>18. CASE ~Occurs(hook_refs[h], r)
  <2>1. PICK k : k = First(Pending(id[c]))
    OBVIOUS
  <2>2. /\ Pending(id[c]) # {} /\ hook_refs' = hook_refs
        /\ hook_changes' = [hook_changes EXCEPT ![k].ref = 0]
    BY <1>1, <1>2, <1>3, <1>14, <1>18, <2>1 DEF RemoveHook
  <2>3. PICK n : n = Len(hook_changes)
    OBVIOUS
  <2>4. n \in Nat /\ DOMAIN hook_changes = 1..n
        /\ \A j \in 1..n : hook_changes[j] \in Changes
    BY <1>5, <2>3
  <2>5. \A j \in 1..n : j \in Pending(id[c]) <=>
          /\ ~hook_changes[j].remove /\ hook_changes[j].hook = h /\ hook_changes[j].ref = r
    BY <1>1, <1>2, <2>4 DEF Pending
  <2>6. \A j \in 1..n : j \in Pending(id[c]) => Awaited(j)
    BY <1>12, <1>18, <2>5 DEF Awaited, Adds
  <2>7. Pending(id[c]) \subseteq 1..n
    BY <2>4 DEF Pending
  <2>8. \A i, j \in Pending(id[c]) : i = j
    <3> SUFFICES ASSUME NEW i \in Pending(id[c]), NEW j \in Pending(id[c])
                 PROVE  i = j
      OBVIOUS
    <3>1. i \in 1..n /\ j \in 1..n /\ Awaited(i) /\ Awaited(j)
      BY <2>6, <2>7
    <3>2. /\ hook_changes[i].hook = hook_changes[j].hook
          /\ hook_changes[i].ref = hook_changes[j].ref
      BY <2>5, <3>1
    <3> QED
      BY <1>4, <2>3, <3>1, <3>2 DEF Pended
  <2>9. k \in Pending(id[c])
    <3>1. PICK j : j \in Pending(id[c])
      BY <2>2
    <3>2. \A m \in Pending(id[c]) : j <= m
      BY <2>4, <2>7, <2>8, <3>1
    <3> QED
      BY <2>1, <3>1, <3>2 DEF First
  <2>10. /\ k \in 1..n /\ Adds(hook_changes[k]) /\ hook_changes[k].hook = h
         /\ hook_changes[k].ref = r
    BY <1>12, <2>5, <2>7, <2>9 DEF Adds
  <2>11. ASSUME NEW j \in 1..n, j # k, hook_changes[j].hook = h, hook_changes[j].ref = r
         PROVE  FALSE
    <3>1. ~hook_changes[j].remove
      BY <1>4, <1>18, <2>3, <2>11 DEF Pended
    <3> QED
      BY <2>5, <2>8, <2>9, <2>11, <3>1
  <2>12. PICK w : /\ Trail(w, hook_refs, hook_changes) /\ Sound(w, hook_changes)
                  /\ w[n] = Expected
    BY <1>4, <2>3 DEF Leading
  <2>13. \E v : /\ Trail(v, hook_refs, hook_changes') /\ Sound(v, hook_changes')
                /\ v[n] = Less(Expected, h, r)
    <3>1. \A j \in 1..Len(hook_changes) :
            j # k => ~(hook_changes[j].hook = h /\ hook_changes[j].ref = r)
      BY <2>3, <2>11
    <3>2. k \in 1..Len(hook_changes)
      BY <2>3, <2>10
    <3>3. \E v : /\ Trail(v, hook_refs, [hook_changes EXCEPT ![k].ref = 0])
                 /\ Sound(v, [hook_changes EXCEPT ![k].ref = 0])
                 /\ v[Len(hook_changes)] = Less(w[Len(hook_changes)], h, r)
      BY <1>5, <1>6, <1>18, <2>10, <2>12, <3>1, <3>2, TrailVoid
    <3> QED
      BY <2>2, <2>3, <2>12, <3>3
  <2>14. /\ hook_changes' \in Seq(Changes) /\ Len(hook_changes') = n
         /\ hook_changes'[k].ref = 0 /\ hook_changes'[k].remove = hook_changes[k].remove
         /\ \A j \in 1..n : j # k => hook_changes'[j] = hook_changes[j]
    <3>1. [hook_changes[k] EXCEPT !.ref = 0] \in Changes
      BY <2>4, <2>10 DEF Changes
    <3> QED
      BY <1>5, <2>2, <2>3, <2>4, <2>10, <3>1 DEF Changes
  <2>15. Leading'
    BY <1>6, <2>2, <2>13, <2>14 DEF Leading
  <2>16. ASSUME NEW j \in 1..n, Awaited(j)'
         PROVE  j # k /\ Awaited(j)
    <3>1. j # k
      BY <2>14, <2>16 DEF Awaited, Adds
    <3> QED
      BY <2>2, <2>14, <2>16, <3>1 DEF Awaited
  <2>17. ASSUME NEW j \in 1..n, hook_changes'[j].remove
         PROVE  Occurs(hook_refs[hook_changes'[j].hook], hook_changes'[j].ref)
    <3>1. j # k
      BY <2>10, <2>14, <2>17 DEF Adds
    <3> QED
      BY <1>4, <2>3, <2>14, <2>17, <3>1 DEF Pended
  <2>18. ASSUME NEW j \in 1..n, Awaited(j)'
         PROVE  \E x \in Callbacks :
                  /\ Live(x)'
                  /\ id'[x] = [hook |-> hook_changes'[j].hook, ref |-> hook_changes'[j].ref]
    <3>1. j # k /\ Awaited(j)
      BY <2>16, <2>18
    <3>2. PICK x \in Callbacks :
            Live(x) /\ id[x] = [hook |-> hook_changes[j].hook, ref |-> hook_changes[j].ref]
      BY <1>4, <2>3, <3>1 DEF Pended
    <3>3. id[x] # id[c]
      BY <1>1, <1>2, <2>11, <3>1, <3>2
    <3> QED
      BY <1>15, <2>14, <3>1, <3>2, <3>3
  <2>19. ASSUME NEW i \in 1..n, NEW j \in 1..n, Awaited(i)', Awaited(j)',
                hook_changes'[i].hook = hook_changes'[j].hook,
                hook_changes'[i].ref = hook_changes'[j].ref
         PROVE  i = j
    <3>1. i # k /\ j # k /\ Awaited(i) /\ Awaited(j)
      BY <2>16, <2>19
    <3>2. /\ hook_changes[i].hook = hook_changes[j].hook
          /\ hook_changes[i].ref = hook_changes[j].ref
      BY <2>14, <2>19, <3>1
    <3> QED
      BY <1>4, <2>3, <3>1, <3>2 DEF Pended
  <2>20. Pended'
    <3>1. depth' # 0
      <4>1. hook_changes # <<>>
        BY <2>3, <2>4, <2>10
      <4> QED
        BY <1>4, <1>5, <4>1 DEF Pended
    <3>2. Changes' = Changes
      BY DEF Changes, Refs
    <3> QED
      BY <2>2, <2>14, <2>17, <2>18, <2>19, <3>1, <3>2 DEF Pended
  <2>21. Nested'
    BY <1>3, <1>4, <2>2, NestedSame
  <2> QED
    BY <1>6, <1>8, <1>9, <2>15, <2>20, <2>21 DEF HInv
<1> QED
  BY <1>16, <1>17, <1>18

\* Running hooks leaves what Lua asked for, and the registry, alone.
LEMMA RunsLeave ==
  ASSUME HInv, UNCHANGED <<registry, id, removed, live>>, ops' = ops \/ Op
  PROVE  Ids' /\ Lived' /\ Registry' /\ ReferencesOwned' /\ Expected' = Expected
<1>1. Ids /\ Lived /\ Registry /\ ReferencesOwned
  BY DEF HInv
<1>2. \A c : Live(c)' <=> Live(c)
  BY DEF Live, NoId
<1>3. Ids' /\ Lived'
  BY <1>1, <1>2 DEF Ids, Lived, Refs, NoId
<1>4. Registry'
  BY <1>1, RegistrySame
<1>5. ReferencesOwned'
  BY <1>1 DEF ReferencesOwned, registry, NoId
<1>6. Expected' = Expected
  BY DEF Expected
<1> QED
  BY <1>3, <1>4, <1>5, <1>6

LEMMA PendedSame ==
  ASSUME Pended, UNCHANGED <<hook_refs, hook_changes, id, removed>>,
         depth' = 0 => hook_changes = <<>>
  PROVE  Pended'
<1>1. \A k : Awaited(k)' <=> Awaited(k)
  BY DEF Awaited
<1>2. \A c : Live(c)' <=> Live(c)
  BY DEF Live, NoId
<1>3. Changes' = Changes
  BY DEF Changes, Refs
<1> QED
  BY <1>1, <1>2, <1>3 DEF Pended

LEMMA RunHookHInv ==
  ASSUME HInv, NEW h \in Hooks, RunHook(h)
  PROVE  HInv'
<1>1. Ids' /\ Lived' /\ Registry' /\ ReferencesOwned' /\ Expected' = Expected
  BY RunsLeave DEF RunHook
<1>2. Pended /\ Leading /\ Nested /\ UNCHANGED <<hook_refs, hook_changes, id, removed>>
  BY DEF HInv, RunHook
<1>3. PICK R, D : /\ stack \in Seq(Run(R, D))
                  /\ \A k \in 1..Len(stack) :
                       stack[k].pos \in 1..Len(hook_refs[stack[k].hook])
  BY <1>2 DEF Nested
<1>4. PICK x : x = <<fn[hook_refs[h][1]]>>
  OBVIOUS
<1>5. PICK y : y = base'[h]
  OBVIOUS
<1>6. PICK f : f = [hook |-> h, pos |-> 1, ran |-> x, due |-> y]
  OBVIOUS
<1>7. stack' = Append(stack, f)
  BY <1>4, <1>5, <1>6 DEF RunHook
<1> DEFINE F == Run(R \cup {x}, D \cup {y})
<1>8. f \in F /\ Run(R, D) \subseteq F /\ f.pos = 1 /\ f.hook = h
  BY <1>6 DEF Run
<1> HIDE DEF F
<1>9. /\ stack' \in Seq(F) /\ Len(stack') = Len(stack) + 1 /\ Len(stack) \in Nat
      /\ stack'[Len(stack) + 1] = f /\ \A k \in 1..Len(stack) : stack'[k] = stack[k]
  <2>1. stack \in Seq(F)
    BY <1>3, <1>8
  <2> QED
    BY <1>7, <1>8, <2>1
<1>10. hook_refs[h] \in Seq(Refs) /\ 1 \in 1..Len(hook_refs[h])
  <2>1. Lists(hook_refs)
    BY <1>2, LeadingLists DEF Pended
  <2>2. hook_refs[h] \in Seq(Refs) /\ hook_refs[h] # <<>>
    BY <2>1 DEF Lists, RunHook
  <2>3. PICK s : s = hook_refs[h]
    OBVIOUS
  <2>4. 1 \in 1..Len(s)
    BY <2>2, <2>3
  <2> QED
    BY <2>2, <2>3, <2>4
<1>11. \A k \in 1..Len(stack') : stack'[k].pos \in 1..Len(hook_refs'[stack'[k].hook])
  <2> TAKE k \in 1..Len(stack')
  <2>1. CASE k \in 1..Len(stack)
    BY <1>2, <1>3, <1>9, <2>1
  <2>2. CASE k = Len(stack) + 1
    BY <1>2, <1>8, <1>9, <1>10, <2>2
  <2> QED
    BY <1>9, <2>1, <2>2
<1>12. Nested'
  BY <1>9, <1>11 DEF Nested, F, Run
<1>13. depth' # 0
  BY <1>9 DEF depth
<1>14. Pended'
  BY <1>2, <1>13, PendedSame
<1>15. Leading'
  BY <1>1, <1>2 DEF Leading
<1> QED
  BY <1>1, <1>12, <1>14, <1>15 DEF HInv

LEMMA NextCallbackHInv ==
  ASSUME HInv, NextCallback
  PROVE  HInv'
<1>1. /\ UNCHANGED <<registry, id, removed, live>> /\ ops' = ops
      /\ UNCHANGED <<hook_refs, hook_changes>> /\ stack # <<>>
  BY DEF NextCallback
<1>2. Ids' /\ Lived' /\ Registry' /\ ReferencesOwned' /\ Expected' = Expected
  BY <1>1, RunsLeave
<1>3. Pended /\ Leading /\ Nested
  BY DEF HInv
<1>4. PICK R, D : /\ stack \in Seq(Run(R, D))
                  /\ \A k \in 1..Len(stack) :
                       stack[k].pos \in 1..Len(hook_refs[stack[k].hook])
  BY <1>3 DEF Nested
<1>5. PICK d : d = depth
  OBVIOUS
<1>6. d \in Nat /\ d = Len(stack) /\ d \in 1..d
  BY <1>1, <1>4, <1>5 DEF depth
<1>7. PICK f : f = stack[d]
  OBVIOUS
<1>8. /\ f \in Run(R, D) /\ f.pos \in 1..Len(hook_refs[f.hook]) /\ Last(stack) = f
      /\ f.pos < Len(hook_refs[f.hook])
  BY <1>4, <1>6, <1>7 DEF Last, NextCallback
<1>9. PICK x : x = Append(f.ran, fn[hook_refs[f.hook][f.pos + 1]])
  OBVIOUS
<1>10. PICK g : g = [f EXCEPT !.pos = @ + 1, !.ran = x]
  OBVIOUS
<1>11. stack' = [stack EXCEPT ![d] = g]
  BY <1>5, <1>8, <1>9, <1>10 DEF NextCallback
<1> DEFINE F == Run(R \cup {x}, D)
<1>12. g \in F /\ Run(R, D) \subseteq F /\ g.pos = f.pos + 1 /\ g.hook = f.hook
  <2>1. /\ f.hook \in Hooks /\ f.pos \in Nat /\ f.ran \in R /\ f.due \in D
        /\ f = [hook |-> f.hook, pos |-> f.pos, ran |-> f.ran, due |-> f.due]
    BY <1>8 DEF Run
  <2>2. g = [hook |-> f.hook, pos |-> f.pos + 1, ran |-> x, due |-> f.due]
    BY <1>10, <2>1
  <2> QED
    BY <2>1, <2>2 DEF Run
<1> HIDE DEF F
<1>13. /\ stack' \in Seq(F) /\ Len(stack') = d
       /\ stack'[d] = g /\ \A k \in 1..d : k # d => stack'[k] = stack[k]
  <2>1. stack \in Seq(F)
    BY <1>4, <1>12
  <2> QED
    BY <1>6, <1>11, <1>12, <2>1
<1>14. Len(hook_refs[f.hook]) \in Nat
  <2>1. Lists(hook_refs)
    BY <1>3, LeadingLists DEF Pended
  <2>2. f.hook \in Hooks
    BY <1>8 DEF Run
  <2> QED
    BY <2>1, <2>2 DEF Lists
<1>15. \A k \in 1..Len(stack') : stack'[k].pos \in 1..Len(hook_refs'[stack'[k].hook])
  <2> TAKE k \in 1..Len(stack')
  <2>1. CASE k # d
    BY <1>1, <1>4, <1>6, <1>13, <2>1
  <2>2. CASE k = d
    BY <1>1, <1>8, <1>12, <1>13, <1>14, <2>2
  <2> QED
    BY <2>1, <2>2
<1>16. Nested'
  BY <1>13, <1>15 DEF Nested, F, Run
<1>17. depth' # 0
  BY <1>6, <1>13 DEF depth
<1>18. Pended'
  BY <1>1, <1>3, <1>17, PendedSame
<1>19. Leading'
  BY <1>1, <1>2, <1>3 DEF Leading
<1> QED
  BY <1>2, <1>16, <1>18, <1>19 DEF HInv

\* The outermost run applies the changes, which lead to what is expected.
LEMMA EndRunHInv ==
  ASSUME HInv, EndRun
  PROVE  HInv'
<1>1. /\ UNCHANGED <<registry, id, removed, live>> /\ ops' = ops
      /\ stack # <<>> /\ stack' = Front(stack)
  BY DEF EndRun
<1>2. Ids' /\ Lived' /\ Registry' /\ ReferencesOwned' /\ Expected' = Expected
  BY <1>1, RunsLeave
<1>3. Pended /\ Leading /\ Nested /\ hook_changes \in Seq(Changes)
  BY DEF HInv, Pended
<1>4. PICK R, D : /\ stack \in Seq(Run(R, D))
                  /\ \A k \in 1..Len(stack) :
                       stack[k].pos \in 1..Len(hook_refs[stack[k].hook])
  BY <1>3 DEF Nested
<1>5. /\ Len(stack) \in Nat /\ Len(stack) # 0 /\ stack' \in Seq(Run(R, D))
      /\ Len(stack') = Len(stack) - 1
      /\ \A k \in 1..(Len(stack) - 1) : stack'[k] = stack[k]
  <2>1. PICK G : G = Run(R, D)
    OBVIOUS
  <2>2. stack \in Seq(G) /\ stack # <<>>
    BY <1>1, <1>4, <2>1
  <2>3. stack' = SubSeq(stack, 1, Len(stack) - 1)
    BY <1>1 DEF Front
  <2>4. Len(stack) \in Nat /\ Len(stack) # 0
    BY <2>2
  <2>5. /\ stack' \in Seq(G) /\ Len(stack') = Len(stack) - 1
        /\ \A k \in 1..(Len(stack) - 1) : stack'[k] = stack[k]
    <3>1. PICK m : m = Len(stack) - 1
      OBVIOUS
    <3>2. m \in Nat /\ m <= Len(stack) /\ stack' = SubSeq(stack, 1, m)
      BY <2>3, <2>4, <3>1
    <3>3. PICK t : t = SubSeq(stack, 1, m)
      OBVIOUS
    <3>4. t \in Seq(G) /\ Len(t) = m
      BY <2>2, <3>2, <3>3
    <3>5. \A k \in 1..m : t[k] = stack[k]
      BY <2>2, <3>2, <3>3
    <3> QED
      BY <3>1, <3>2, <3>3, <3>4, <3>5
  <2> QED
    BY <2>1, <2>4, <2>5
<1>6. CASE depth = 1
  <2>1. hook_refs' = Applied(hook_refs, hook_changes) /\ hook_changes' = <<>>
    BY <1>6 DEF EndRun, ApplyHookChanges
  <2>2. PICK w : /\ Trail(w, hook_refs, hook_changes)
                 /\ w[Len(hook_changes)] = Expected
    BY <1>3 DEF Leading
  <2>3. hook_refs' = Expected'
    BY <1>2, <1>3, <2>1, <2>2, TrailApplied
  <2>4. Lists(Expected)
    BY <1>3, LeadingLists
  <2>5. Leading'
    <3>1. Lists(hook_refs')
      BY <1>2, <2>3, <2>4
    <3> QED
      BY <2>1, <2>3, <3>1, TrailEmpty DEF Leading
  <2>6. \A k \in 1..Len(<<>>) : FALSE
    OBVIOUS
  <2>7. Pended'
    BY <2>1, <2>6 DEF Pended
  <2>8. Nested'
    <3>1. \A k \in 1..Len(stack') : FALSE
      BY <1>5, <1>6 DEF depth
    <3> QED
      BY <1>5, <3>1 DEF Nested, Run
  <2> QED
    BY <1>2, <2>5, <2>7, <2>8 DEF HInv
<1>7. CASE depth # 1
  <2>1. UNCHANGED <<hook_refs, hook_changes>>
    BY <1>7 DEF EndRun
  <2>2. depth' # 0
    BY <1>5, <1>7 DEF depth
  <2>3. Pended'
    BY <1>1, <1>3, <2>1, <2>2, PendedSame
  <2>4. Leading'
    BY <1>2, <1>3, <2>1 DEF Leading
  <2>5. Nested'
    <3>1. \A k \in 1..Len(stack') : k \in 1..Len(stack) /\ stack'[k] = stack[k]
      BY <1>5
    <3> QED
      BY <1>4, <1>5, <2>1, <3>1 DEF Nested, Run
  <2> QED
    BY <1>2, <2>3, <2>4, <2>5 DEF HInv
<1> QED
  BY <1>6, <1>7

LEMMA StutterHInv ==
  ASSUME HInv, UNCHANGED vars
  PROVE  HInv'
<1>1. /\ UNCHANGED <<registry, id, removed, live>> /\ ops' = ops
      /\ UNCHANGED <<hook_refs, hook_changes, stack>>
  BY DEF vars, registry
<1>2. Ids' /\ Lived' /\ Registry' /\ ReferencesOwned' /\ Expected' = Expected
  BY <1>1, RunsLeave
<1>3. Pended /\ Leading /\ Nested
  BY DEF HInv
<1>4. Pended'
  BY <1>1, <1>3, PendedSame DEF depth, Pended
<1>5. Leading'
  BY <1>1, <1>2, <1>3 DEF Leading
<1>6. Nested'
  BY <1>1, <1>3, NestedSame
<1> QED
  BY <1>2, <1>4, <1>5, <1>6 DEF HInv

\* The invariant says that every hook is there.
LEMMA HInvMeans ==
  ASSUME HInv
  PROVE  HooksAreThoseAdded
<1>1. Ids /\ Lived /\ Registry /\ ReferencesOwned /\ Pended /\ Leading /\ Nested
  BY DEF HInv
<1>2. Lists(hook_refs) /\ hook_refs \in [Hooks -> Seq(Refs)]
  BY <1>1, LeadingLists DEF Pended, Lists
<1>3. TypeOK
  <2>1. \A h \in Hooks : \A k \in DOMAIN hook_refs[h] : hook_refs[h][k] \in Refs
    BY <1>2
  <2>2. \A k \in DOMAIN hook_changes : /\ hook_changes[k].hook \in Hooks
                                       /\ hook_changes[k].ref \in Refs \cup {0}
                                       /\ hook_changes[k].remove \in BOOLEAN
    <3>1. DOMAIN hook_changes = 1..Len(hook_changes)
          /\ \A k \in 1..Len(hook_changes) : hook_changes[k] \in Changes
      BY <1>1 DEF Pended
    <3> QED
      BY <3>1 DEF Changes
  <2>3. \A k \in DOMAIN stack : /\ stack[k].hook \in Hooks
                                /\ stack[k].pos \in 1..Len(hook_refs[stack[k].hook])
    <3>1. PICK R, D : /\ stack \in Seq(Run(R, D))
                      /\ \A k \in 1..Len(stack) :
                           stack[k].pos \in 1..Len(hook_refs[stack[k].hook])
      BY <1>1 DEF Nested
    <3>2. DOMAIN stack = 1..Len(stack) /\ \A k \in 1..Len(stack) : stack[k] \in Run(R, D)
      BY <3>1
    <3> QED
      BY <3>1, <3>2 DEF Run
  <2>4. /\ fn \in [Refs -> Callbacks \cup {None}]
        /\ link \in [0..MaxOps -> 0..MaxOps] /\ size \in 0..MaxOps
    BY <1>1, BoundsAssumption DEF Registry
  <2>5. removed \subseteq Callbacks
    BY <1>1 DEF Ids
  <2> QED
    BY <2>1, <2>2, <2>3, <2>4, <2>5 DEF TypeOK
<1>4. ChangesInOrder
  <2> SUFFICES ASSUME depth = 0
               PROVE  hook_changes = <<>> /\ \A h \in Hooks : Installed(h) = live[h]
    BY DEF ChangesInOrder
  <2>1. hook_changes = <<>> /\ hook_refs = Expected
    BY <1>1, LeadingNowhere DEF Pended
  <2>2. ASSUME NEW h \in Hooks
        PROVE  Installed(h) = live[h]
    <3>1. PICK s : s = live[h]
      OBVIOUS
    <3>2. PICK e : e = hook_refs[h]
      OBVIOUS
    <3>3. /\ s \in Seq(Callbacks) /\ e \in Seq(Refs) /\ Len(e) = Len(s)
          /\ \A k \in 1..Len(s) : s[k] \in Callbacks /\ Live(s[k]) /\ e[k] = id[s[k]].ref
      BY <1>1, <1>2, <2>1, <3>1, <3>2, ExpectedIs DEF Lived
    <3>4. \A k \in 1..Len(s) : fn[e[k]] = s[k]
      BY <1>1, <3>3 DEF ReferencesOwned, Live
    <3>5. Installed(h) = [k \in DOMAIN e |-> fn[e[k]]]
      BY <3>2 DEF Installed
    <3>6. DOMAIN e = 1..Len(s) /\ s = [k \in 1..Len(s) |-> s[k]]
      BY <3>3
    <3> QED
      BY <3>1, <3>4, <3>5, <3>6
  <2> QED
    BY <2>1, <2>2
<1> QED
  BY <1>1, <1>3, <1>4 DEF HooksAreThoseAdded

LEMMA NextHInv ==
  ASSUME ~RemoveTwice, HInv, [Next]_vars
  PROVE  HInv'
<1>1. CASE \E h \in Hooks : RunHook(h)
  BY <1>1, RunHookHInv
<1>2. CASE \E h \in Hooks : \E c \in Callbacks : AddHook(h, c)
  BY <1>2, AddHookHInv
<1>3. CASE \E c \in Callbacks : DelHook(c)
  BY <1>3, DelHookHInv
<1>4. CASE NextCallback
  BY <1>4, NextCallbackHInv
<1>5. CASE EndRun
  BY <1>5, EndRunHInv
<1>6. CASE Idle \/ UNCHANGED vars
  BY <1>6, StutterHInv DEF Idle
<1> QED
  BY <1>1, <1>2, <1>3, <1>4, <1>5, <1>6 DEF Next

\* Whatever callbacks add, remove and run while their hooks are being run, and
\* however registry references are used again: as long as Lua uses no id twice to
\* remove a hook, each hook that was added and not removed has a reference of its
\* own that leads to its callback, and outside of runs the hooks installed are
\* exactly those, in the order in which they were added.
THEOREM HooksStayInOrder ==
  ASSUME ~RemoveTwice
  PROVE  Spec => []HooksAreThoseAdded
<1>1. Init => HInv
  BY InitHInv
<1>2. HInv /\ [Next]_vars => HInv'
  BY NextHInv
<1>3. HInv => HooksAreThoseAdded
  BY HInvMeans
<1> QED
  BY <1>1, <1>2, <1>3, PTL DEF Spec

-----------------------------------------------------------------------------
(* What runs call *)

\* A reference leads to a callback that was given it.
Given == \A r \in Refs : fn[r] # None => id[fn[r]] # NoId /\ id[fn[r]].ref = r

\* The references of the hooks are those of the callbacks in b.
BasedOn(b) ==
  \A h \in Hooks :
    /\ b[h] \in Seq(Callbacks) /\ Len(b[h]) = Len(hook_refs[h])
    /\ \A k \in 1..Len(b[h]) : /\ id[b[h][k]] # NoId /\ id[b[h][k]].hook = h
                               /\ id[b[h][k]].ref = hook_refs[h][k]

\* x is called where the callback at k is due: it is that one, or, if that one was removed,
\* it is none of those due.
CallsRight(x, b, k) == /\ b[k] \notin removed => x = b[k]
                       /\ \A m \in 1..Len(b) : x = b[m] => m = k

Faithful(f) == /\ f.due = base[f.hook] /\ Len(f.ran) = f.pos
               /\ \E S : f.ran \in Seq(S)
               /\ \A k \in 1..f.pos : CallsRight(f.ran[k], f.due, k)

Runs == /\ depth > 0 => BasedOn(base)
        /\ \A k \in 1..Len(stack) : Faithful(stack[k])

EInv == HInv /\ Given /\ Runs

\* The callback that is called is right.
LEMMA CallIsRight ==
  ASSUME HInv, Given, NEW b, BasedOn(b), NEW h \in Hooks, NEW k \in 1..Len(hook_refs[h])
  PROVE  CallsRight(fn[hook_refs[h][k]], b[h], k)
<1>1. Ids /\ ReferencesOwned /\ Registry /\ Leading /\ Pended
  BY DEF HInv
<1>2. Lists(hook_refs)
  BY <1>1, LeadingLists DEF Pended
<1>3. PICK s : s = b[h]
  OBVIOUS
<1>4. PICK e : e = hook_refs[h]
  OBVIOUS
<1>5. /\ s \in Seq(Callbacks) /\ Len(s) = Len(e) /\ e \in Seq(Refs) /\ Distinct(e)
      /\ \A m \in 1..Len(s) : id[s[m]] # NoId /\ id[s[m]].hook = h /\ id[s[m]].ref = e[m]
  BY <1>2, <1>3, <1>4 DEF BasedOn, Lists
<1>6. k \in 1..Len(s) /\ e[k] \in Refs /\ \A m \in 1..Len(s) : s[m] \in Callbacks
  BY <1>4, <1>5
<1>7. s[k] \notin removed => fn[e[k]] = s[k]
  BY <1>1, <1>5, <1>6 DEF ReferencesOwned
<1>8. ASSUME NEW m \in 1..Len(s), fn[e[k]] = s[m]
      PROVE  m = k
  <2>1. fn[e[k]] # None
    BY <1>6, <1>8, NoneAssumption
  <2>2. id[s[m]].ref = e[k]
    BY <1>6, <1>8, <2>1 DEF Given
  <2>3. e[m] = e[k] /\ m \in 1..Len(e) /\ k \in 1..Len(e)
    BY <1>5, <1>6, <2>2
  <2> QED
    BY <1>5, <2>3 DEF Distinct
<1> QED
  BY <1>3, <1>4, <1>7, <1>8 DEF CallsRight

LEMMA InitEInv ==
  ASSUME Init
  PROVE  EInv
<1>1. HInv
  BY InitHInv
<1>2. Given
  BY DEF Init, Given
<1>3. stack = <<>> /\ Len(stack) = 0 /\ depth = 0
  BY DEF Init, depth
<1>4. Runs
  BY <1>3 DEF Runs
<1> QED
  BY <1>1, <1>2, <1>4 DEF EInv

\* More may be removed.
LEMMA FaithfulStays ==
  ASSUME NEW f, Faithful(f), base' = base, removed \subseteq removed'
  PROVE  Faithful(f)'
BY DEF Faithful, CallsRight

LEMMA AddHookEInv ==
  ASSUME EInv, NEW h \in Hooks, NEW c \in Callbacks, AddHook(h, c)
  PROVE  Given' /\ Runs'
<1>1. PICK r : r = FreeRef
  OBVIOUS
<1>2. /\ id[c] = NoId /\ id' = [id EXCEPT ![c] = [hook |-> h, ref |-> r]]
      /\ fn' = [fn EXCEPT ![r] = c] /\ UNCHANGED <<stack, removed, base>>
      /\ ops < MaxOps /\ (depth > 0 => UNCHANGED hook_refs)
  BY <1>1 DEF AddHook, Ref, Op
<1>3. Ids /\ Registry /\ Nested /\ Given /\ Runs
  BY DEF EInv, HInv
<1>4. r \in Refs /\ fn \in [Refs -> Callbacks \cup {None}]
  BY <1>1, <1>2, <1>3, FreshRef DEF Registry
<1>5. id'[c] = [hook |-> h, ref |-> r] /\ \A x \in Callbacks : x # c => id'[x] = id[x]
  BY <1>2, <1>3 DEF Ids
<1>6. NoId' = NoId /\ id'[c] # NoId
  <2>1. r # 0
    BY <1>4 DEF Refs
  <2>2. id'[c].ref = r
    BY <1>5
  <2> QED
    BY <2>1, <2>2 DEF NoId
<1>7. Given'
  <2> SUFFICES ASSUME NEW q \in Refs, fn'[q] # None
               PROVE  id'[fn'[q]] # NoId /\ id'[fn'[q]].ref = q
    BY <1>6 DEF Given, Refs
  <2>1. CASE q = r
    BY <1>2, <1>4, <1>5, <1>6, <2>1
  <2>2. CASE q # r
    <3>1. fn'[q] = fn[q] /\ fn[q] \in Callbacks /\ id[fn[q]] # NoId /\ id[fn[q]].ref = q
      BY <1>2, <1>3, <1>4, <2>2 DEF Given
    <3> QED
      BY <1>2, <1>5, <3>1
  <2> QED
    BY <2>1, <2>2
<1>8. ASSUME depth > 0 PROVE BasedOn(base)'
  <2>1. BasedOn(base) /\ base' = base /\ hook_refs' = hook_refs
    BY <1>2, <1>3, <1>8 DEF Runs
  <2> SUFFICES ASSUME NEW g \in Hooks
               PROVE  /\ base[g] \in Seq(Callbacks) /\ Len(base[g]) = Len(hook_refs[g])
                      /\ \A k \in 1..Len(base[g]) :
                           /\ id'[base[g][k]] # NoId /\ id'[base[g][k]].hook = g
                           /\ id'[base[g][k]].ref = hook_refs[g][k]
    BY <1>6, <2>1 DEF BasedOn
  <2>2. /\ base[g] \in Seq(Callbacks) /\ Len(base[g]) = Len(hook_refs[g])
        /\ \A k \in 1..Len(base[g]) :
                           /\ id[base[g][k]] # NoId /\ id[base[g][k]].hook = g
                           /\ id[base[g][k]].ref = hook_refs[g][k]
    BY <2>1 DEF BasedOn
  <2>3. PICK s : s = base[g]
    OBVIOUS
  <2>4. \A k \in 1..Len(s) : s[k] \in Callbacks /\ s[k] # c
    BY <1>2, <2>2, <2>3
  <2> QED
    BY <1>5, <2>2, <2>3, <2>4
<1>9. Runs'
  <2>1. depth' = depth /\ stack' = stack
    BY <1>2 DEF depth
  <2>2. \A k \in 1..Len(stack) : Faithful(stack[k])'
    BY <1>2, <1>3, FaithfulStays DEF Runs
  <2> QED
    BY <1>8, <2>1, <2>2 DEF Runs, Faithful, CallsRight
<1> QED
  BY <1>7, <1>9

LEMMA DelHookEInv ==
  ASSUME EInv, ~RemoveTwice, NEW c \in Callbacks, DelHook(c)
  PROVE  Given' /\ Runs'
<1>1. PICK r : r = id[c].ref
  OBVIOUS
<1>2. /\ id' = id /\ fn' = [fn EXCEPT ![r] = None] /\ removed' = removed \cup {c}
      /\ UNCHANGED <<stack, base>> /\ RemoveHook(id[c])
  BY <1>1 DEF DelHook, Unref
<1>3. Registry /\ Nested /\ Given /\ Runs
  BY DEF EInv, HInv
<1>4. Given'
  <2>1. NoId' = NoId /\ fn \in [Refs -> Callbacks \cup {None}]
    BY <1>3 DEF NoId, Registry
  <2> QED
    BY <1>2, <1>3, <2>1 DEF Given, Refs
<1>5. depth > 0 => hook_refs' = hook_refs
  BY <1>2 DEF RemoveHook
<1>6. depth > 0 => BasedOn(base)'
  BY <1>2, <1>3, <1>5 DEF Runs, BasedOn, NoId
<1>7. Runs'
  <2>1. depth' = depth /\ stack' = stack
    BY <1>2 DEF depth
  <2>2. \A k \in 1..Len(stack) : Faithful(stack[k])'
    BY <1>2, <1>3, FaithfulStays DEF Runs
  <2> QED
    BY <1>6, <2>1, <2>2 DEF Runs, Faithful, CallsRight
<1> QED
  BY <1>4, <1>7

\* What runs do to the stack only
LEMMA GivenStays ==
  ASSUME Given, UNCHANGED <<registry, id>>
  PROVE  Given'
BY DEF Given, registry, NoId, Refs

LEMMA RunHookEInv ==
  ASSUME EInv, NEW h \in Hooks, RunHook(h)
  PROVE  Given' /\ Runs'
<1>1. /\ UNCHANGED <<hook_refs, hook_changes, registry, id, removed, live>>
      /\ base' = (IF depth = 0 THEN live ELSE base) /\ hook_refs[h] # <<>>
  BY DEF RunHook
<1>2. Ids /\ Lived /\ Pended /\ Leading /\ Nested /\ Given /\ Runs /\ HInv
  BY DEF EInv, HInv
<1>3. Given'
  BY <1>1, <1>2, GivenStays
<1>4. PICK b : b = base'
  OBVIOUS
<1>5. BasedOn(b)
  <2>1. CASE depth = 0
    <3>1. hook_refs = Expected
      BY <1>2, <2>1, LeadingNowhere DEF Pended
    <3>2. b = live
      BY <1>1, <1>4, <2>1
    <3> SUFFICES ASSUME NEW g \in Hooks
                 PROVE  /\ live[g] \in Seq(Callbacks) /\ Len(live[g]) = Len(Expected[g])
                        /\ \A k \in 1..Len(live[g]) :
                             /\ id[live[g][k]] # NoId /\ id[live[g][k]].hook = g
                             /\ id[live[g][k]].ref = Expected[g][k]
      BY <3>1, <3>2 DEF BasedOn
    <3>3. live[g] \in Seq(Callbacks)
      BY <1>2 DEF Lived
    <3>4. /\ Len(live[g]) = Len(Expected[g])
          /\ \A k \in 1..Len(live[g]) : /\ Live(live[g][k]) /\ id[live[g][k]].hook = g
                                        /\ id[live[g][k]].ref = Expected[g][k]
      BY <1>2, ExpectedIs
    <3> QED
      BY <3>3, <3>4 DEF Live
  <2>2. CASE depth # 0
    <3>1. depth > 0
      BY <1>2, <2>2, DepthIs
    <3> QED
      BY <1>1, <1>2, <1>4, <2>2, <3>1 DEF Runs
  <2> QED
    BY <2>1, <2>2
<1>6. BasedOn(base)'
  BY <1>1, <1>4, <1>5 DEF BasedOn, NoId
<1>7. hook_refs[h] \in Seq(Refs) /\ 1 \in 1..Len(hook_refs[h])
  <2>1. Lists(hook_refs)
    BY <1>2, LeadingLists DEF Pended
  <2>2. PICK s : s = hook_refs[h]
    OBVIOUS
  <2>3. s \in Seq(Refs) /\ s # <<>>
    BY <1>1, <2>1, <2>2 DEF Lists
  <2> QED
    BY <2>2, <2>3
<1>8. PICK x : x = fn[hook_refs[h][1]]
  OBVIOUS
<1>9. CallsRight(x, b[h], 1)
  BY <1>2, <1>5, <1>7, <1>8, CallIsRight
<1>10. PICK f : f = [hook |-> h, pos |-> 1, ran |-> <<x>>, due |-> b[h]]
  OBVIOUS
<1>11. Faithful(f)'
  <2>1. /\ f.due = base'[f.hook] /\ f.ran = <<x>> /\ f.pos = 1 /\ f.due = b[h]
    BY <1>4, <1>10
  <2>2. Len(<<x>>) = 1 /\ <<x>> \in Seq({x}) /\ <<x>>[1] = x
    OBVIOUS
  <2>3. \A k \in 1..1 : CallsRight(f.ran[k], f.due, k)'
    BY <1>1, <1>9, <2>1, <2>2 DEF CallsRight
  <2> QED
    BY <2>1, <2>2, <2>3 DEF Faithful, CallsRight
<1>12. stack' = Append(stack, f)
  BY <1>4, <1>8, <1>10 DEF RunHook
<1>13. PICK R, D : stack \in Seq(Run(R, D))
  BY <1>2 DEF Nested
<1>14. /\ Len(stack) \in Nat /\ Len(stack') = Len(stack) + 1 /\ stack'[Len(stack) + 1] = f
       /\ \A k \in 1..Len(stack) : stack'[k] = stack[k]
  <2>1. PICK F : F = Run(R, D) \cup {f}
    OBVIOUS
  <2>2. stack \in Seq(F) /\ f \in F
    BY <1>13, <2>1
  <2> QED
    BY <1>12, <2>2
<1>15. \A k \in 1..Len(stack) : Faithful(stack[k])'
  <2> SUFFICES ASSUME NEW k \in 1..Len(stack) PROVE Faithful(stack[k])'
    OBVIOUS
  <2>1. depth # 0 /\ base' = base
    BY <1>1, <1>14 DEF depth
  <2>2. Faithful(stack[k])
    BY <1>2 DEF Runs
  <2>3. PICK g : g = stack[k]
    OBVIOUS
  <2>4. stack'[k] = g
    BY <1>14, <2>3
  <2> QED
    BY <1>1, <2>1, <2>2, <2>3, <2>4 DEF Faithful, CallsRight
<1>16. Runs'
  <2>1. \A k \in 1..Len(stack') : k \in 1..Len(stack) \/ k = Len(stack) + 1
    BY <1>14
  <2> QED
    BY <1>6, <1>11, <1>14, <1>15, <2>1 DEF Runs, Faithful, CallsRight
<1> QED
  BY <1>3, <1>16

LEMMA NextCallbackEInv ==
  ASSUME EInv, NextCallback
  PROVE  Given' /\ Runs'
<1>1. /\ UNCHANGED <<hook_refs, hook_changes, registry, id, removed, live, base>>
      /\ stack # <<>>
  BY DEF NextCallback
<1>2. Nested /\ Given /\ Runs /\ HInv
  BY DEF EInv, HInv
<1>3. Given'
  BY <1>1, <1>2, GivenStays
<1>4. PICK R, D : /\ stack \in Seq(Run(R, D))
                  /\ \A k \in 1..Len(stack) :
                       stack[k].pos \in 1..Len(hook_refs[stack[k].hook])
  BY <1>2 DEF Nested
<1>5. PICK d : d = depth
  OBVIOUS
<1>6. d \in Nat /\ d = Len(stack) /\ d \in 1..d
  BY <1>1, <1>4, <1>5 DEF depth
<1>7. PICK f : f = stack[d]
  OBVIOUS
<1>8. /\ f \in Run(R, D) /\ f.pos \in 1..Len(hook_refs[f.hook]) /\ Last(stack) = f
      /\ f.pos < Len(hook_refs[f.hook])
  BY <1>4, <1>6, <1>7 DEF Last, NextCallback
<1>9. /\ f.hook \in Hooks /\ f.pos \in Nat /\ f.pos # 0
      /\ f = [hook |-> f.hook, pos |-> f.pos, ran |-> f.ran, due |-> f.due]
  BY <1>8 DEF Run
<1>10. PICK n : n = f.pos + 1
  OBVIOUS
<1>11. PICK x : x = fn[hook_refs[f.hook][n]]
  OBVIOUS
<1>12. PICK g : g = [f EXCEPT !.pos = @ + 1, !.ran = Append(@, x)]
  OBVIOUS
<1>13. g = [hook |-> f.hook, pos |-> n, ran |-> Append(f.ran, x), due |-> f.due]
  BY <1>9, <1>10, <1>12
<1>14. stack' = [stack EXCEPT ![d] = g]
  BY <1>5, <1>8, <1>10, <1>11, <1>12 DEF NextCallback
<1>15. BasedOn(base) /\ Faithful(f)
  BY <1>2, <1>5, <1>6, <1>7 DEF Runs
<1>16. n \in 1..Len(hook_refs[f.hook])
  <2>1. Lists(hook_refs)
    BY <1>2, LeadingLists DEF HInv, Pended
  <2>2. Len(hook_refs[f.hook]) \in Nat
    BY <1>9, <2>1 DEF Lists
  <2> QED
    BY <1>8, <1>9, <1>10, <2>2
<1>17. CallsRight(x, base[f.hook], n)
  BY <1>2, <1>9, <1>11, <1>15, <1>16, CallIsRight
<1>18. Faithful(g)
  <2>1. /\ f.due = base[f.hook] /\ Len(f.ran) = f.pos
        /\ \A k \in 1..f.pos : CallsRight(f.ran[k], f.due, k)
    BY <1>15 DEF Faithful
  <2>2. PICK S : f.ran \in Seq(S)
    BY <1>15 DEF Faithful
  <2>3. PICK T : T = S \cup {x}
    OBVIOUS
  <2>4. PICK q : q = f.ran
    OBVIOUS
  <2>5. q \in Seq(T) /\ x \in T
    BY <2>2, <2>3, <2>4
  <2>6. PICK a : a = Append(q, x)
    OBVIOUS
  <2>7. /\ a \in Seq(T) /\ Len(a) = n /\ a[n] = x
        /\ \A k \in 1..f.pos : a[k] = f.ran[k]
    BY <1>10, <2>1, <2>4, <2>5, <2>6
  <2>8. /\ g.due = f.due /\ g.hook = f.hook /\ g.ran = a /\ g.pos = n
    BY <1>13, <2>4, <2>6
  <2>9. \A k \in 1..n : CallsRight(a[k], f.due, k)
    <3> SUFFICES ASSUME NEW k \in 1..n PROVE CallsRight(a[k], f.due, k)
      OBVIOUS
    <3>1. CASE k = n
      BY <1>17, <2>1, <2>7, <3>1
    <3>2. CASE k # n
      <4>1. k \in 1..f.pos
        BY <1>9, <1>10, <3>2
      <4> QED
        BY <2>1, <2>7, <4>1
    <3> QED
      BY <3>1, <3>2
  <2> QED
    BY <2>1, <2>7, <2>8, <2>9 DEF Faithful
<1>19. /\ Len(stack') = d /\ stack'[d] = g /\ \A k \in 1..d : k # d => stack'[k] = stack[k]
  <2>1. PICK F : F = Run(R, D) \cup {g}
    OBVIOUS
  <2>2. stack \in Seq(F) /\ g \in F
    BY <1>4, <2>1
  <2> QED
    BY <1>6, <1>14, <2>2
<1>20. \A k \in 1..Len(stack') : Faithful(stack'[k])
  <2> SUFFICES ASSUME NEW k \in 1..d PROVE Faithful(stack'[k])
    BY <1>19
  <2>1. Faithful(stack[k])
    BY <1>2, <1>6 DEF Runs
  <2> QED
    BY <1>18, <1>19, <2>1
<1>21. BasedOn(base)'
  BY <1>1, <1>15 DEF BasedOn, NoId
<1>22. Runs'
  BY <1>1, <1>20, <1>21 DEF Runs, Faithful, CallsRight
<1> QED
  BY <1>3, <1>22

LEMMA EndRunEInv ==
  ASSUME EInv, EndRun
  PROVE  Given' /\ Runs'
<1>1. UNCHANGED <<registry, id, removed, live, base>> /\ stack # <<>> /\ stack' = Front(stack)
  BY DEF EndRun
<1>2. Nested /\ Given /\ Runs
  BY DEF EInv, HInv
<1>3. Given'
  BY <1>1, <1>2, GivenStays
<1>4. PICK R, D : stack \in Seq(Run(R, D))
  BY <1>2 DEF Nested
<1>5. /\ Len(stack) \in Nat /\ Len(stack) # 0 /\ Len(stack') = Len(stack) - 1
      /\ \A k \in 1..(Len(stack) - 1) : stack'[k] = stack[k]
  <2>1. PICK G : G = Run(R, D)
    OBVIOUS
  <2>2. PICK m : m = Len(stack) - 1
    OBVIOUS
  <2>3. stack \in Seq(G) /\ m \in Nat /\ m <= Len(stack) /\ Len(stack) \in Nat
    BY <1>1, <1>4, <2>1, <2>2
  <2>4. PICK t : t = SubSeq(stack, 1, m)
    OBVIOUS
  <2>5. stack' = t
    BY <1>1, <2>2, <2>4 DEF Front
  <2>6. Len(t) = m /\ \A k \in 1..m : t[k] = stack[k]
    BY <2>3, <2>4
  <2>7. Len(stack) # 0
    BY <1>1, <2>3
  <2> QED
    BY <2>2, <2>3, <2>5, <2>6, <2>7
<1>6. \A k \in 1..Len(stack') : Faithful(stack'[k])
  <2>1. \A k \in 1..Len(stack) : Faithful(stack[k])
    BY <1>2 DEF Runs
  <2>2. \A k \in 1..Len(stack') : k \in 1..Len(stack) /\ stack'[k] = stack[k]
    BY <1>5
  <2> QED
    BY <2>1, <2>2
<1>7. depth' > 0 => BasedOn(base)'
  <2> SUFFICES ASSUME depth' > 0 PROVE BasedOn(base)'
    OBVIOUS
  <2>1. depth > 0 /\ depth # 1
    BY <1>5 DEF depth
  <2>2. UNCHANGED hook_refs /\ BasedOn(base)
    BY <1>2, <2>1 DEF EndRun, Runs
  <2> QED
    BY <1>1, <2>2 DEF BasedOn, NoId
<1>8. Runs'
  BY <1>1, <1>6, <1>7 DEF Runs, Faithful, CallsRight
<1> QED
  BY <1>3, <1>8

LEMMA StutterEInv ==
  ASSUME EInv, UNCHANGED vars
  PROVE  Given' /\ Runs'
<1>1. UNCHANGED <<registry, id, removed, live, base, hook_refs, stack>> /\ Given /\ Runs
  BY DEF vars, registry, EInv
<1>2. Given'
  BY <1>1, GivenStays
<1>3. Runs'
  BY <1>1 DEF Runs, Faithful, CallsRight, BasedOn, NoId, depth
<1> QED
  BY <1>2, <1>3

\* A run that ends has called what was due.
LEMMA EndRunCalled ==
  ASSUME EInv, EndRun
  PROVE  CalledOnce(Last(stack))
<1>1. Nested /\ Runs /\ stack # <<>> /\ HInv
  BY DEF EInv, HInv, EndRun
<1>2. PICK R, D : /\ stack \in Seq(Run(R, D))
                  /\ \A k \in 1..Len(stack) :
                       stack[k].pos \in 1..Len(hook_refs[stack[k].hook])
  BY <1>1 DEF Nested
<1>3. PICK f : f = Last(stack)
  OBVIOUS
<1>4. Len(stack) \in Nat /\ Len(stack) \in 1..Len(stack)
  BY <1>1, <1>2
<1>5. /\ f \in Run(R, D) /\ f.pos \in 1..Len(hook_refs[f.hook])
      /\ f.pos >= Len(hook_refs[f.hook]) /\ Faithful(f) /\ BasedOn(base)
  <2>1. f = stack[Len(stack)]
    BY <1>3 DEF Last
  <2>2. depth > 0
    BY <1>4 DEF depth
  <2> QED
    BY <1>1, <1>2, <1>3, <1>4, <2>1, <2>2 DEF Runs, EndRun
<1>6. PICK n : n = Len(hook_refs[f.hook])
  OBVIOUS
<1>7. n \in Nat /\ f.hook \in Hooks
  <2>1. f.hook \in Hooks
    BY <1>5 DEF Run
  <2>2. Lists(hook_refs)
    BY <1>1, LeadingLists DEF HInv, Pended
  <2> QED
    BY <1>6, <2>1, <2>2 DEF Lists
<1>8. f.pos = n
  BY <1>5, <1>6, <1>7
<1>9. DOMAIN f.ran = 1..n
  <2>1. PICK S : f.ran \in Seq(S)
    BY <1>5 DEF Faithful
  <2>2. Len(f.ran) = n
    BY <1>5, <1>8 DEF Faithful
  <2> QED
    BY <2>1, <2>2
<1>10. DOMAIN f.due = 1..n /\ Len(f.due) = n
  <2>1. f.due = base[f.hook] /\ base[f.hook] \in Seq(Callbacks) /\ Len(base[f.hook]) = n
    BY <1>5, <1>6, <1>7 DEF Faithful, BasedOn
  <2> QED
    BY <2>1
<1>11. \A k \in 1..n : /\ f.due[k] \notin removed => f.ran[k] = f.due[k]
                       /\ \A m \in 1..n : f.ran[k] = f.due[m] => m = k
  BY <1>5, <1>8, <1>10 DEF Faithful, CallsRight
<1>12. ASSUME NEW k \in 1..n, f.due[k] \notin removed
       PROVE  {m \in DOMAIN f.ran : f.ran[m] = f.due[k]} = {k}
  BY <1>9, <1>11, <1>12
<1>13. CalledOnce(f)
  BY <1>9, <1>10, <1>12 DEF CalledOnce
<1> QED
  BY <1>3, <1>13

\* Only the end of a run makes the stack smaller.
LEMMA OnlyEndRun ==
  ASSUME EInv, [Next]_vars, depth' < depth
  PROVE  EndRun
<1>1. Nested
  BY DEF EInv, HInv
<1>2. PICK R, D : stack \in Seq(Run(R, D))
  BY <1>1 DEF Nested
<1>3. Len(stack) \in Nat /\ stack' # stack
  BY <1>2 DEF depth
<1>4. ASSUME NEW h \in Hooks, RunHook(h) PROVE FALSE
  <2>1. PICK f : stack' = Append(stack, f)
    BY <1>4 DEF RunHook
  <2>2. PICK F : F = Run(R, D) \cup {f}
    OBVIOUS
  <2>3. stack \in Seq(F) /\ f \in F
    BY <1>2, <2>2
  <2>4. Len(stack') = Len(stack) + 1
    BY <2>1, <2>3
  <2> QED
    BY <1>3, <2>4 DEF depth
<1>5. ASSUME NextCallback PROVE FALSE
  <2>1. PICK g : stack' = [stack EXCEPT ![depth] = g]
    BY <1>5 DEF NextCallback
  <2>2. PICK F : F = Run(R, D) \cup {g}
    OBVIOUS
  <2>3. stack \in Seq(F) /\ g \in F
    BY <1>2, <2>2
  <2>4. Len(stack') = Len(stack)
    BY <2>1, <2>3
  <2> QED
    BY <1>3, <2>4 DEF depth
<1>6. ~UNCHANGED vars /\ ~Idle
  BY <1>3 DEF vars, Idle
<1>7. \A h \in Hooks, c \in Callbacks : ~AddHook(h, c)
  BY <1>3 DEF AddHook
<1>8. \A c \in Callbacks : ~DelHook(c)
  BY <1>3 DEF DelHook
<1> QED
  BY <1>4, <1>5, <1>6, <1>7, <1>8 DEF Next

\* A run calls each callback that was there when the outermost run began, and that is
\* not removed meanwhile, once and in order: however callbacks add, remove and run hooks, and
\* although the reference of one that was removed may lead to another by then.
THEOREM RunsCallEachOnce ==
  ASSUME ~RemoveTwice
  PROVE  Spec => EachCalledOnce
<1>1. Init => EInv
  BY InitEInv
<1>2. EInv /\ [Next]_vars => EInv'
  <2> SUFFICES ASSUME EInv, [Next]_vars
               PROVE  EInv'
    OBVIOUS
  <2>1. HInv'
    BY NextHInv DEF EInv
  <2>2. Given' /\ Runs'
    <3>1. CASE \E h \in Hooks : RunHook(h)
      BY <3>1, RunHookEInv
    <3>2. CASE \E h \in Hooks : \E c \in Callbacks : AddHook(h, c)
      BY <3>2, AddHookEInv
    <3>3. CASE \E c \in Callbacks : DelHook(c)
      BY <3>3, DelHookEInv
    <3>4. CASE NextCallback
      BY <3>4, NextCallbackEInv
    <3>5. CASE EndRun
      BY <3>5, EndRunEInv
    <3>6. CASE Idle \/ UNCHANGED vars
      BY <3>6, StutterEInv DEF Idle
    <3> QED
      BY <3>1, <3>2, <3>3, <3>4, <3>5, <3>6 DEF Next
  <2> QED
    BY <2>1, <2>2 DEF EInv
<1>3. EInv /\ [Next]_vars => [depth' < depth => CalledOnce(Last(stack))]_vars
  BY OnlyEndRun, EndRunCalled
<1> QED
  BY <1>1, <1>2, <1>3, PTL DEF Spec, EachCalledOnce
=============================================================================
