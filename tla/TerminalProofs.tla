--------------------------- MODULE TerminalProofs ----------------------------
(***************************************************************************)
(* Proofs about KeyInput, for any keys, modes, mappings and Lua functions: *)
(* what is shown and recorded is what was typed, and keys do what they ask *)
(* for.  A key may run any number of commands; what they keep is shown by  *)
(* induction on sequences, stated for sets (SeqIndSet).  And about CmdLine *)
(* for any text: the cursor stays on the screen, and words stay whole.     *)
(***************************************************************************)
EXTENDS Terminal, WellFoundedInduction, FiniteSetTheorems, TLAPS

-----------------------------------------------------------------------------
(* Sequences and folds *)

\* A set of numbers has a least one.
LEMMA NatMin ==
  ASSUME NEW T \in SUBSET Nat, T # {}
  PROVE  \E n \in T : \A m \in T : ~(m < n)
<1> DEFINE R == OpToRel(<, Nat)
<1>1. IsWellFoundedOn(R, Nat)
  BY NatLessThanWellFounded
<1>2. PICK n \in T : \A m \in T : ~(<<m, n>> \in R)
  <2> HIDE DEF R
  <2> QED
    BY <1>1, WFMin
<1>3. \A m \in T : m < n => <<m, n>> \in R
  BY DEF OpToRel
<1> QED
  BY <1>2, <1>3

\* Induction on numbers: a set that has 0 and the successor of each of its elements
LEMMA NatIndSet ==
  ASSUME NEW T, 0 \in T, \A n \in Nat : n \in T => n + 1 \in T
  PROVE  Nat \subseteq T
<1> DEFINE U == Nat \ T
<1>1. SUFFICES ASSUME U # {} PROVE FALSE
  OBVIOUS
<1>2. PICK n \in U : \A m \in U : ~(m < n)
  BY <1>1, NatMin
<1>3. n # 0 /\ n - 1 \in Nat /\ n - 1 \notin U
  BY <1>2
<1> QED
  BY <1>3

\* Induction on sequences
LEMMA SeqIndSet ==
  ASSUME NEW S, NEW T, <<>> \in T, \A s \in Seq(S) : s \in T => \A x \in S : Append(s, x) \in T
  PROVE  Seq(S) \subseteq T
<1> DEFINE N == {n \in Nat : \A s \in Seq(S) : Len(s) = n => s \in T}
<1>1. 0 \in N
  <2> SUFFICES ASSUME NEW s \in Seq(S), Len(s) = 0
               PROVE  s \in T
    OBVIOUS
  <2>1. s = <<>>
    OBVIOUS
  <2> QED
    BY <2>1
<1>2. ASSUME NEW n \in Nat, n \in N
      PROVE  n + 1 \in N
  <2> SUFFICES ASSUME NEW s \in Seq(S), Len(s) = n + 1
               PROVE  s \in T
    OBVIOUS
  <2>1. PICK t : t = SubSeq(s, 1, n)
    OBVIOUS
  <2>2. t \in Seq(S) /\ Len(t) = n /\ s[n + 1] \in S
    BY <2>1
  <2>3. s = Append(t, s[n + 1])
    BY <2>1, <2>2
  <2>4. t \in T
    BY <1>2, <2>2
  <2> QED
    BY <2>2, <2>3, <2>4
<1>3. Nat \subseteq N
  <2> HIDE DEF N
  <2> QED
    BY <1>1, <1>2, NatIndSet
<1> QED
  BY <1>3

\* The largest of some numbers
LEMMA MaxOf ==
  ASSUME NEW n \in Nat, NEW s \in SUBSET (1..n), s # {}
  PROVE  K!Max(s) \in s /\ \A y \in s : y <= K!Max(s)
<1> DEFINE T == {m \in Nat : \A y \in s : y <= m}
<1>1. n \in T
  OBVIOUS
<1>2. PICK m \in T : \A k \in T : ~(k < m)
  <2> HIDE DEF T
  <2>1. T \in SUBSET Nat
    BY DEF T
  <2> QED
    BY <1>1, <2>1, NatMin
<1>3. m \in s
  <2> SUFFICES ASSUME m \notin s
               PROVE  FALSE
    OBVIOUS
  <2>1. m # 0
    <3>1. PICK y : y \in s
      OBVIOUS
    <3>2. y \in 1..n
      BY <3>1
    <3> QED
      BY <3>1, <3>2, <1>2
  <2>2. m - 1 \in T
    BY <2>1, <1>2
  <2> QED
    BY <2>2, <1>2
<1>4. \E x \in s : \A y \in s : x >= y
  BY <1>2, <1>3
<1> QED
  BY <1>4 DEF K!Max

\* What a fold is computed by: a function of the sets of positions
Folds(it, base, g, seq) ==
  \A s \in SUBSET (1..Len(seq)) :
    it[s] = IF s = {} THEN base ELSE g[<<it[s \ {K!Max(s)}], seq[K!Max(s)]>>]

\* What a fold recurs on exists, for a function that gives the next value.
LEMMA FoldExists ==
  ASSUME NEW A, NEW B, NEW base \in A, NEW g \in [A \X B -> A], NEW seq \in Seq(B)
  PROVE  \E it \in [SUBSET (1..Len(seq)) -> A] : Folds(it, base, g, seq)
<1> DEFINE
  Computes(n, it) == \A s \in SUBSET (1..n) :
                    it[s] = IF s = {} THEN base
                            ELSE g[<<it[s \ {K!Max(s)}], seq[K!Max(s)]>>]
  Has(n) == \E it \in [SUBSET (1..n) -> A] : Computes(n, it)
  N == {n \in Nat : n <= Len(seq) => Has(n)}
<1>0. Len(seq) \in Nat
  OBVIOUS
<1>1. 0 \in N
  <2>1. [s \in SUBSET (1..0) |-> base] \in [SUBSET (1..0) -> A]
    OBVIOUS
  <2>2. Computes(0, [s \in SUBSET (1..0) |-> base])
    OBVIOUS
  <2> QED
    BY <2>1, <2>2
<1>2. ASSUME NEW n \in Nat, n \in N
      PROVE  n + 1 \in N
  <2> SUFFICES ASSUME n + 1 <= Len(seq)
               PROVE  Has(n + 1)
    <3> HIDE DEF Has
    <3> QED
      OBVIOUS
  <2>0. Has(n)
    <3> HIDE DEF Has
    <3> QED
      BY <1>0, <1>2
  <2>1. PICK it \in [SUBSET (1..n) -> A] : Computes(n, it)
    BY <2>0
  <2> DEFINE more == [s \in SUBSET (1..(n + 1)) |->
                        IF n + 1 \in s THEN g[<<it[s \ {n + 1}], seq[n + 1]>>] ELSE it[s]]
  <2>2. more \in [SUBSET (1..(n + 1)) -> A]
    <3> SUFFICES ASSUME NEW s \in SUBSET (1..(n + 1))
                 PROVE  (IF n + 1 \in s THEN g[<<it[s \ {n + 1}], seq[n + 1]>>] ELSE it[s]) \in A
      OBVIOUS
    <3>1. s \ {n + 1} \in SUBSET (1..n)
      OBVIOUS
    <3>2. seq[n + 1] \in B
      OBVIOUS
    <3>3. n + 1 \notin s => s \in SUBSET (1..n)
      OBVIOUS
    <3> QED
      BY <3>1, <3>2, <3>3
  <2>3. Computes(n + 1, more)
    <3> SUFFICES ASSUME NEW s \in SUBSET (1..(n + 1))
                 PROVE  more[s] = IF s = {} THEN base
                                  ELSE g[<<more[s \ {K!Max(s)}], seq[K!Max(s)]>>]
      OBVIOUS
    <3>1. CASE n + 1 \in s
      <4>1. K!Max(s) \in s /\ \A y \in s : y <= K!Max(s)
        <5>1. n + 1 \in Nat /\ s # {}
          BY <3>1
        <5> QED
          BY <5>1, MaxOf
      <4>2. K!Max(s) = n + 1
        <5>1. PICK m : m = K!Max(s)
          OBVIOUS
        <5>2. m \in 1..(n + 1) /\ n + 1 <= m
          BY <5>1, <4>1, <3>1
        <5> QED
          BY <5>1, <5>2
      <4>3. s \ {n + 1} \in SUBSET (1..n)
        OBVIOUS
      <4>4. more[s \ {n + 1}] = it[s \ {n + 1}]
        <5>1. s \ {n + 1} \in SUBSET (1..(n + 1))
          OBVIOUS
        <5> QED
          BY <5>1
      <4> QED
        BY <3>1, <4>2, <4>4
    <3>2. CASE n + 1 \notin s /\ s # {}
      <4>1. s \in SUBSET (1..n)
        BY <3>2
      <4>2. more[s] = it[s]
        BY <3>2
      <4>3. K!Max(s) \in s
        BY <3>2, <4>1, MaxOf
      <4>4. more[s \ {K!Max(s)}] = it[s \ {K!Max(s)}]
        <5>1. s \ {K!Max(s)} \in SUBSET (1..(n + 1)) /\ n + 1 \notin s \ {K!Max(s)}
          BY <3>2
        <5> QED
          BY <5>1
      <4>5. it[s] = g[<<it[s \ {K!Max(s)}], seq[K!Max(s)]>>]
        BY <2>1, <4>1, <3>2
      <4> QED
        BY <4>2, <4>4, <4>5, <3>2
    <3>3. CASE s = {}
      <4>1. it[{}] = base
        BY <2>1
      <4> QED
        BY <3>3, <4>1
    <3> QED
      BY <3>1, <3>2, <3>3
  <2> QED
    BY <2>2, <2>3
<1>3. Nat \subseteq N
  <2> HIDE DEF N
  <2> QED
    BY <1>1, <1>2, NatIndSet
<1> QED
  <2>1. Has(Len(seq))
    <3> HIDE DEF Has
    <3> QED
      BY <1>0, <1>3
  <2> QED
    BY <2>1 DEF Folds

-----------------------------------------------------------------------------
(* What is known of the state whose keys are handled *)

KAssumptions ==
  /\ K!ModesAssumption /\ K!KeysAssumption /\ K!DelaysAssumption /\ K!MapsAssumption
  /\ K!CodeAssumption /\ K!NoneAssumption

Node == [trie : Modes \cup {None}, path : Seq(Keys)]
FrameType == [from : {"feed", "macro", "buffer"}, keys : Seq(Keys)]
DidType == [what : {"drop", "count", "wait", "insert"}] \cup {None}
             \cup [what : {"run"}, function : Callbacks, count : Nat \cup {-1}]
LfmType ==
  [mode : Modes, state : {"IDLE", "COUNT", "SEQUENCE"}, cur : Node, cur_base : Node,
   count : Nat \cup {-1}, seq : Seq(Keys), clear : BOOLEAN, suggest : BOOLEAN,
   menu : {None} \cup SUBSET Seq(Keys), macros : [Macros -> Seq(Keys)],
   recording : Macros \cup {None}, playing : BOOLEAN, stack : Seq(FrameType),
   buffer : Seq(Keys), did : DidType, recorded : Seq(Keys), before : [Macros -> Seq(Keys)]]

LEMMA FrontType ==
  ASSUME NEW S, NEW s \in Seq(S)
  PROVE  K!Front(s) \in Seq(S)
BY DEF K!Front

\* One command
LEMMA DoType ==
  ASSUME KAssumptions, NEW s \in LfmType, NEW c \in K!Commands
  PROVE  K!Do(s, c) \in LfmType
<1>1. CASE c \in [do : {"mode"}, mode : Modes]
  <2>1. c.do = "mode" /\ c.mode \in Modes
    BY <1>1
  <2>2. K!NoNode \in Node
    BY DEF K!NoNode, Node
  <2>3. K!Do(s, c) = K!EnterMode(s, c.mode)
    BY <2>1 DEF K!Do
  <2> QED
    BY <2>1, <2>2, <2>3 DEF K!EnterMode, LfmType
<1>2. CASE c \in [do : {"record", "play"}, id : Macros]
  <2>1. CASE c.do = "record"
    <3>1. K!Do(s, c) = K!Record(s, c.id) /\ c.id \in Macros
      BY <1>2, <2>1 DEF K!Do
    <3>0. PICK e \in Seq(Keys) : e = <<>>
      <4>1. <<>> \in Seq(Keys)
        OBVIOUS
      <4> QED
        BY <4>1
    <3> DEFINE s1 == [s EXCEPT !.recording = c.id]
               s2 == [s1 EXCEPT !.recorded = e]
               s3 == [s2 EXCEPT !.before = s.macros]
    <3>2. s1 \in LfmType /\ s1.macros = s.macros
      BY <3>1 DEF LfmType
    <3>3. s3 \in LfmType
      <4> HIDE DEF s1
      <4>1. s2 \in LfmType /\ s2.macros = s.macros
        BY <3>2 DEF LfmType
      <4> HIDE DEF s2
      <4> QED
        BY <3>2, <4>1 DEF LfmType
    <3>4. K!Do(s, c) \in {s, s3}
      BY <3>0, <3>1 DEF K!Record, LfmType
    <3> QED
      BY <3>3, <3>4
  <2>2. CASE c.do = "play"
    <3>1. K!Do(s, c) = K!Play(s, c.id) /\ c.id \in Macros
      BY <1>2, <2>2 DEF K!Do
    <3>2. s.macros[c.id] \in Seq(Keys) /\ s.stack \in Seq(FrameType)
      BY <3>1 DEF LfmType
    <3>3. <<K!Frame("macro", s.macros[c.id])>> \o s.stack \in Seq(FrameType)
      BY <3>2 DEF K!Frame, FrameType
    <3> QED
      BY <3>1, <3>3 DEF K!Play, LfmType
  <2> QED
    BY <1>2, <2>1, <2>2
<1>3. CASE c \in [do : {"feed", "input"}, keys : Seq(Keys)]
  <2>1. CASE c.do = "feed"
    <3>1. K!Do(s, c) = K!Feed(s, c.keys) /\ c.keys \in Seq(Keys)
      BY <1>3, <2>1 DEF K!Do
    <3>2. s.stack \in Seq(FrameType)
      BY DEF LfmType
    <3>3. <<K!Frame("feed", c.keys)>> \o s.stack \in Seq(FrameType)
      BY <3>1, <3>2 DEF K!Frame, FrameType
    <3> QED
      BY <3>1, <3>3 DEF K!Feed, LfmType
  <2>2. CASE c.do = "input"
    <3>1. K!Do(s, c) = K!Buffer(s, c.keys) /\ c.keys \in Seq(Keys)
      BY <1>3, <2>2 DEF K!Do
    <3>2. s.buffer \o c.keys \in Seq(Keys)
      BY <3>1 DEF LfmType
    <3> QED
      BY <3>1, <3>2 DEF K!Buffer, LfmType
  <2> QED
    BY <1>3, <2>1, <2>2
<1>4. CASE c \in [do : {"stop", "execute"}]
  <2>1. CASE c.do = "stop"
    <3>1. K!Do(s, c) = K!StopRecord(s)
      BY <2>1 DEF K!Do
    <3>2. s.recording # None => /\ s.recording \in Macros
                                /\ K!Front(s.macros[s.recording]) \in Seq(Keys)
      BY FrontType DEF LfmType
    <3> DEFINE s1 == [s EXCEPT !.macros[s.recording] = K!Front(@)]
               s2 == [s1 EXCEPT !.recording = None]
    <3>3. s.recording # None => s2 \in LfmType
      <4> SUFFICES ASSUME s.recording # None
                   PROVE  s2 \in LfmType
        OBVIOUS
      <4>1. s1 \in LfmType
        BY <3>2 DEF LfmType
      <4> HIDE DEF s1
      <4> QED
        BY <4>1 DEF LfmType
    <3>4. K!Do(s, c) = IF s.recording = None THEN s ELSE s2
      BY <3>1 DEF K!StopRecord, LfmType
    <3> QED
      BY <3>3, <3>4
  <2>2. CASE c.do = "execute"
    BY <2>2 DEF K!Do, K!Execute, LfmType
  <2> QED
    BY <1>4, <2>1, <2>2
<1> QED
  BY <1>1, <1>2, <1>3, <1>4 DEF K!Commands


\* Commands, one after the other
LEMMA RunTrail ==
  ASSUME KAssumptions, NEW begin \in LfmType, NEW s \in Seq(K!Commands)
  PROVE  \E w : /\ w[0] = begin
                /\ \A k \in 1..Len(s) : w[k] = K!Do(w[k - 1], s[k])
                /\ w[Len(s)] = K!Run(begin, s)
<1> DEFINE
  A == LfmType
  g == [p \in A \X K!Commands |-> K!Do(p[1], p[2])]
  Is(it) == it = [x \in SUBSET DOMAIN s |->
                    IF x = {} THEN begin
                    ELSE K!Do(it[x \ {K!Max(x)}], s[K!Max(x)])]
  iter == CHOOSE it : Is(it)
<1>1. K!Run(begin, s) = iter[DOMAIN s]
  BY DEF K!Run, K!FoldLeft, K!MapThenFoldSet
<1>2. \E it : Is(it)
  <2>1. g \in [A \X K!Commands -> A] /\ begin \in A
    BY DoType
  <2>2. PICK it \in [SUBSET (1..Len(s)) -> A] : Folds(it, begin, g, s)
    <3> HIDE DEF g, A
    <3> QED
      BY <2>1, FoldExists
  <2>3. \A x \in SUBSET (1..Len(s)) :
          it[x] = IF x = {} THEN begin ELSE K!Do(it[x \ {K!Max(x)}], s[K!Max(x)])
    <3> SUFFICES ASSUME NEW x \in SUBSET (1..Len(s)), x # {}
                 PROVE  g[<<it[x \ {K!Max(x)}], s[K!Max(x)]>>] =
                          K!Do(it[x \ {K!Max(x)}], s[K!Max(x)])
      BY <2>2 DEF Folds
    <3> HIDE DEF A
    <3>1. K!Max(x) \in 1..Len(s)
      <4>1. Len(s) \in Nat
        OBVIOUS
      <4> QED
        BY <4>1, MaxOf
    <3>2. it[x \ {K!Max(x)}] \in A /\ s[K!Max(x)] \in K!Commands
      <4>1. x \ {K!Max(x)} \in SUBSET (1..Len(s))
        OBVIOUS
      <4>2. s[K!Max(x)] \in K!Commands
        BY <3>1
      <4> QED
        BY <4>1, <4>2
    <3> QED
      BY <3>2
  <2>4. DOMAIN s = 1..Len(s)
    OBVIOUS
  <2>5. Is(it)
    <3> HIDE DEF A, g
    <3> QED
      BY <2>2, <2>3, <2>4
  <2> QED
    BY <2>5
<1>3. Is(iter)
  <2> HIDE DEF Is
  <2> QED
    BY <1>2
<1> HIDE DEF iter, g
<1> DEFINE w == [k \in 0..Len(s) |-> iter[1..k]]
<1>4. w[0] = begin
  <2>1. iter[{}] = begin
    BY <1>3
  <2>2. 1..0 = {}
    OBVIOUS
  <2> QED
    BY <2>1, <2>2
<1>5. ASSUME NEW k \in 1..Len(s)
      PROVE  w[k] = K!Do(w[k - 1], s[k])
  <2>1. (1..k) \in SUBSET (1..Len(s)) /\ 1..k # {} /\ k \in Nat
    <3>1. Len(s) \in Nat
      OBVIOUS
    <3>2. k \in Nat /\ k \in 1..k
      BY <3>1
    <3>3. \A i \in 1..k : i \in 1..Len(s)
      BY <3>1
    <3> QED
      BY <3>2, <3>3
  <2>2. K!Max(1..k) = k
    <3>1. (1..k) \in SUBSET (1..k)
      OBVIOUS
    <3>2. K!Max(1..k) \in 1..k /\ \A y \in 1..k : y <= K!Max(1..k)
      BY <2>1, <3>1, MaxOf, Zenon
    <3>3. k \in 1..k
      BY <2>1
    <3> QED
      BY <2>1, <3>2, <3>3
  <2>3. (1..k) \ {k} = 1..(k - 1)
    OBVIOUS
  <2>4. (1..k) \in SUBSET DOMAIN s
    BY <2>1
  <2>5. iter[1..k] = K!Do(iter[(1..k) \ {K!Max(1..k)}], s[K!Max(1..k)])
    <3> HIDE DEF w
    <3> QED
      BY <1>3, <2>1, <2>4, Zenon
  <2>6. iter[1..k] = K!Do(iter[1..(k - 1)], s[k])
    BY <2>2, <2>3, <2>5
  <2> QED
    BY <2>6
<1>6. w[Len(s)] = K!Run(begin, s)
  BY <1>1
<1> HIDE DEF w
<1> QED
  BY <1>4, <1>5, <1>6

\* The value for no element, and with one more
LEMMA RunStep ==
  ASSUME KAssumptions, NEW begin \in LfmType
  PROVE  /\ K!Run(begin, <<>>) = begin
         /\ \A s \in Seq(K!Commands), x \in K!Commands :
              K!Run(begin, Append(s, x)) = K!Do(K!Run(begin, s), x)
<1>1. K!Run(begin, <<>>) = begin
  <2> DEFINE none == <<>>
  <2>1. none \in Seq(K!Commands) /\ Len(none) = 0
    OBVIOUS
  <2> HIDE DEF none
  <2>2. PICK w : /\ w[0] = begin
                 /\ \A k \in 1..Len(none) : w[k] = K!Do(w[k - 1], none[k])
                 /\ w[Len(none)] = K!Run(begin, none)
    BY <2>1, RunTrail
  <2>3. K!Run(begin, none) = begin
    BY <2>1, <2>2
  <2> QED
    BY <2>3 DEF none
<1>2. ASSUME NEW s \in Seq(K!Commands), NEW x \in K!Commands
      PROVE  K!Run(begin, Append(s, x)) = K!Do(K!Run(begin, s), x)
  <2> DEFINE more == Append(s, x)
  <2>1. /\ more \in Seq(K!Commands) /\ Len(more) = Len(s) + 1 /\ more[Len(s) + 1] = x
        /\ \A k \in 1..Len(s) : more[k] = s[k]
        /\ Len(s) \in Nat
    OBVIOUS
  <2> HIDE DEF more
  <2>2. PICK v : /\ v[0] = begin
                 /\ \A k \in 1..Len(s) : v[k] = K!Do(v[k - 1], s[k])
                 /\ v[Len(s)] = K!Run(begin, s)
    BY RunTrail
  <2>3. PICK w : /\ w[0] = begin
                 /\ \A k \in 1..Len(more) : w[k] = K!Do(w[k - 1], more[k])
                 /\ w[Len(more)] = K!Run(begin, more)
    BY <2>1, RunTrail
  <2> DEFINE N == {n \in Nat : n <= Len(s) => w[n] = v[n]}
  <2>4. 0 \in N
    BY <2>2, <2>3
  <2>5. ASSUME NEW n \in Nat, n \in N
        PROVE  n + 1 \in N
    <3> SUFFICES ASSUME n + 1 <= Len(s)
                 PROVE  w[n + 1] = v[n + 1]
      OBVIOUS
    <3>1. w[n] = v[n]
      BY <2>1, <2>5
    <3>2. n + 1 \in 1..Len(s) /\ n + 1 \in 1..Len(more) /\ (n + 1) - 1 = n
      BY <2>1
    <3>3. more[n + 1] = s[n + 1]
      BY <2>1, <3>2
    <3>4. w[n + 1] = K!Do(w[(n + 1) - 1], more[n + 1])
      BY <2>3, <3>2
    <3>5. v[n + 1] = K!Do(v[(n + 1) - 1], s[n + 1])
      BY <2>2, <3>2
    <3> QED
      BY <3>1, <3>2, <3>3, <3>4, <3>5
  <2>6. Nat \subseteq N
    <3> HIDE DEF N
    <3> QED
      BY <2>4, <2>5, NatIndSet
  <2>7. w[Len(s)] = v[Len(s)]
    BY <2>1, <2>6
  <2>8. Len(s) + 1 \in 1..Len(more) /\ (Len(s) + 1) - 1 = Len(s)
    BY <2>1
  <2>9. w[Len(s) + 1] = K!Do(w[(Len(s) + 1) - 1], more[Len(s) + 1])
    BY <2>3, <2>8
  <2>10. K!Run(begin, more) = K!Do(K!Run(begin, s), x)
    BY <2>1, <2>2, <2>3, <2>7, <2>8, <2>9
  <2> QED
    BY <2>10 DEF more
<1> QED
  BY <1>1, <1>2

\* Commands lead to where each of them leads.
LEMMA RunIn ==
  ASSUME KAssumptions, NEW p \in LfmType, NEW T \in SUBSET LfmType, p \in T,
         \A s \in T, c \in K!Commands : K!Do(s, c) \in T,
         NEW cs \in Seq(K!Commands)
  PROVE  K!Run(p, cs) \in T
<1>1. PICK w : /\ w[0] = p
               /\ \A k \in 1..Len(cs) : w[k] = K!Do(w[k - 1], cs[k])
               /\ w[Len(cs)] = K!Run(p, cs)
  BY RunTrail
<1> DEFINE N == {n \in Nat : n <= Len(cs) => w[n] \in T}
<1>2. 0 \in N
  BY <1>1
<1>3. ASSUME NEW n \in Nat, n \in N
      PROVE  n + 1 \in N
  <2> SUFFICES ASSUME n + 1 <= Len(cs)
               PROVE  w[n + 1] \in T
    OBVIOUS
  <2>1. n + 1 \in 1..Len(cs) /\ cs[n + 1] \in K!Commands /\ Len(cs) \in Nat
    OBVIOUS
  <2>2. w[n] \in T
    BY <1>3, <2>1
  <2>3. w[n + 1] = K!Do(w[n], cs[n + 1])
    BY <1>1, <2>1
  <2> QED
    BY <2>1, <2>2, <2>3
<1>4. Len(cs) \in Nat
  OBVIOUS
<1>5. Nat \subseteq N
  <2> HIDE DEF N
  <2> QED
    BY <1>2, <1>3, NatIndSet
<1> QED
  BY <1>1, <1>4, <1>5

-----------------------------------------------------------------------------
(* Macros: frames of the stack, and what is recorded *)

MacroFrames(stack) == {i \in DOMAIN stack : stack[i].from = "macro"}
Playing(s) ==
  /\ s.playing => s.recording = None /\ \E i : MacroFrames(s.stack) = {i}
  /\ ~s.playing => MacroFrames(s.stack) = {}
Recording(s) ==
  s.recording # None => s.macros = [s.before EXCEPT ![s.recording] = @ \o s.recorded]
Sound(s) ==
  s \in LfmType /\ K!TrieOf(s.mode) \in DOMAIN maps /\ Playing(s) /\ Recording(s)

\* What may have become of a recording: it goes on, it ended, or another one began.
Recorded(s, r) ==
  s.recording # None =>
    \/ /\ r.recording = s.recording
       /\ r.recorded = s.recorded /\ r.before = s.before
    \/ /\ r.recording = None
       /\ r.recorded = s.recorded /\ r.before = s.before
       /\ r.macros = [s.before EXCEPT ![s.recording] = @ \o K!Front(s.recorded)]
    \/ r.recorded = <<>>

\* Where commands leave the input
Place(s, r) ==
  /\ r.state = s.state /\ r.cur = s.cur /\ r.cur_base \in {s.cur_base, K!NoNode}
  /\ r.count = s.count /\ r.seq = s.seq /\ r.menu = s.menu /\ r.did = s.did
  /\ r.clear => s.clear
  /\ r.suggest => s.suggest

SamePlace(s, r) ==
  /\ r.state = s.state /\ r.cur = s.cur /\ r.cur_base = s.cur_base
  /\ r.count = s.count /\ r.seq = s.seq /\ r.menu = s.menu /\ r.did = s.did
  /\ r.clear = s.clear /\ r.suggest = s.suggest /\ r.mode = s.mode
SameMacros(s, r) ==
  /\ r.recording = s.recording /\ r.recorded = s.recorded /\ r.before = s.before
  /\ r.macros = s.macros /\ r.playing = s.playing /\ r.stack = s.stack

LEMMA SoundSame ==
  ASSUME NEW s, NEW r \in LfmType, Sound(s), SameMacros(s, r), K!TrieOf(r.mode) \in DOMAIN maps
  PROVE  Sound(r)
BY DEF Sound, SameMacros, Playing, Recording

LEMMA RecordedSame ==
  ASSUME NEW s, NEW t, NEW r, Recorded(s, t), SameMacros(t, r)
  PROVE  Recorded(s, r)
BY DEF SameMacros, Recorded

LEMMA PlaceSame ==
  ASSUME NEW s, NEW t, NEW r, Place(s, t), SamePlace(t, r)
  PROVE  Place(s, r)
BY DEF SamePlace, Place

\* A frame on top of the others
LEMMA Pushed ==
  ASSUME NEW st \in Seq(FrameType), NEW f \in FrameType
  PROVE  MacroFrames(<<f>> \o st) =
           (IF f.from = "macro" THEN {1} ELSE {}) \cup {i + 1 : i \in MacroFrames(st)}
<1> DEFINE u == <<f>> \o st
<1>1. /\ u \in Seq(FrameType) /\ Len(u) = Len(st) + 1 /\ Len(st) \in Nat
      /\ DOMAIN u = 1..(Len(st) + 1) /\ DOMAIN st = 1..Len(st) /\ u[1] = f
  OBVIOUS
<1>2. \A i \in 1..Len(st) : u[i + 1] = st[i]
  OBVIOUS
<1> HIDE DEF u
<1>3. ASSUME NEW i \in 1..(Len(st) + 1), i # 1
      PROVE  i - 1 \in 1..Len(st) /\ i = (i - 1) + 1 /\ u[i] = st[i - 1]
  <2>1. i - 1 \in 1..Len(st) /\ i = (i - 1) + 1
    BY <1>1, <1>3
  <2> QED
    BY <1>2, <2>1
<1>4. \A i \in MacroFrames(u) :
        \/ i = 1 /\ f.from = "macro"
        \/ i - 1 \in MacroFrames(st) /\ i = (i - 1) + 1
  BY <1>1, <1>3 DEF MacroFrames
<1>5. \A i \in MacroFrames(st) : i + 1 \in MacroFrames(u)
  <2> SUFFICES ASSUME NEW i \in 1..Len(st), st[i].from = "macro"
               PROVE  i + 1 \in 1..(Len(st) + 1) /\ u[i + 1].from = "macro"
    BY <1>1 DEF MacroFrames
  <2> QED
    BY <1>1, <1>2
<1>6. f.from = "macro" => 1 \in MacroFrames(u)
  BY <1>1 DEF MacroFrames
<1>7. MacroFrames(u) = (IF f.from = "macro" THEN {1} ELSE {}) \cup {i + 1 : i \in MacroFrames(st)}
  BY <1>4, <1>5, <1>6
<1> QED
  BY <1>7 DEF u

\* The last key is the last one of what was recorded.
LEMMA FrontJoin ==
  ASSUME NEW S, NEW m \in Seq(S), NEW n \in Seq(S), n # <<>>
  PROVE  K!Front(m \o n) = m \o K!Front(n)
<1>1. /\ Len(m) \in Nat /\ Len(n) \in Nat /\ Len(n) # 0 /\ Len(m \o n) = Len(m) + Len(n)
      /\ m \o n \in Seq(S)
  OBVIOUS
<1> DEFINE a == SubSeq(m \o n, 1, Len(m \o n) - 1)
           f == SubSeq(n, 1, Len(n) - 1)
           b == m \o f
<1>2. a \in Seq(S) /\ Len(a) = Len(m) + Len(n) - 1
  BY <1>1
<1>3. \A i \in 1..(Len(m) + Len(n) - 1) : a[i] = (m \o n)[i]
  BY <1>1
<1>4. f \in Seq(S) /\ Len(f) = Len(n) - 1
  <2>1. PICK j \in Nat : j = Len(n) - 1
    BY <1>1
  <2>2. SubSeq(n, 1, j) \in Seq(S) /\ Len(SubSeq(n, 1, j)) = j
    BY <1>1, <2>1
  <2> QED
    BY <2>1, <2>2
<1>5. \A i \in 1..(Len(n) - 1) : f[i] = n[i]
  BY <1>1
<1> HIDE DEF a, f
<1>6. b \in Seq(S) /\ Len(b) = Len(m) + Len(n) - 1
  BY <1>1, <1>4
<1>7. \A i \in 1..Len(m) : b[i] = m[i] /\ (m \o n)[i] = m[i]
  BY <1>1, <1>4
<1>8. \A i \in 1..(Len(n) - 1) : b[Len(m) + i] = f[i] /\ (m \o n)[Len(m) + i] = n[i]
  BY <1>1, <1>4
<1> HIDE DEF b
<1>9. ASSUME NEW i \in 1..(Len(m) + Len(n) - 1)
      PROVE  a[i] = b[i]
  <2>1. CASE i <= Len(m)
    <3>1. i \in 1..Len(m)
      BY <1>1, <2>1
    <3> QED
      BY <1>3, <1>7, <3>1
  <2>2. CASE ~(i <= Len(m))
    <3>1. i - Len(m) \in 1..(Len(n) - 1) /\ Len(m) + (i - Len(m)) = i
      BY <1>1, <2>2
    <3>2. b[i] = f[i - Len(m)] /\ (m \o n)[i] = n[i - Len(m)]
      BY <1>8, <3>1
    <3> QED
      BY <1>3, <1>5, <3>1, <3>2
  <2> QED
    BY <2>1, <2>2
<1>10. a = b
  BY <1>2, <1>6, <1>9
<1> QED
  BY <1>10 DEF a, b, f, K!Front

LEMMA DoSound ==
  ASSUME KAssumptions, NEW s0, NEW s, Sound(s), Recorded(s0, s), Place(s0, s),
         NEW c \in K!Commands
  PROVE  LET r == K!Do(s, c) IN Sound(r) /\ Recorded(s0, r) /\ Place(s0, r)
<1> DEFINE r == K!Do(s, c)
<1>0. s \in LfmType /\ r \in LfmType
  BY DoType DEF Sound
<1> SUFFICES Sound(r) /\ Recorded(s0, r) /\ Place(s0, r)
  OBVIOUS
<1>1. CASE c.do = "mode" /\ c.mode \in Modes
  <2>1. r = K!EnterMode(s, c.mode)
    BY <1>1 DEF K!Do
  <2>2. /\ SameMacros(s, r)
        /\ r = s \/ (r.mode = c.mode /\ r.cur_base = K!NoNode /\ K!TrieOf(c.mode) \in DOMAIN maps)
        /\ r.state = s.state /\ r.cur = s.cur /\ r.count = s.count /\ r.seq = s.seq
        /\ r.menu = s.menu /\ r.did = s.did /\ r.clear = s.clear /\ r.suggest = s.suggest
    BY <1>0, <2>1 DEF K!EnterMode, SameMacros, LfmType, K!Tries
  <2> HIDE DEF r
  <2>3. K!TrieOf(r.mode) \in DOMAIN maps
    BY <2>2 DEF Sound
  <2> QED
    BY <1>0, <2>2, <2>3, SoundSame, RecordedSame DEF Place
<1>2. CASE c.do = "record" /\ c.id \in Macros
  <2>1. r = K!Record(s, c.id)
    BY <1>2 DEF K!Do
  <2>2. SamePlace(s, r) /\ r.playing = s.playing /\ r.stack = s.stack /\ r.macros = s.macros
    BY <1>0, <2>1 DEF K!Record, SamePlace, LfmType
  <2>3. \/ r = s
        \/ /\ s.recording = None /\ ~s.playing /\ r.recording = c.id
           /\ r.recorded = <<>> /\ r.before = s.macros
    BY <1>0, <2>1 DEF K!Record, LfmType
  <2> HIDE DEF r
  <2>4. CASE s.recording = None /\ ~s.playing /\ r.recording = c.id
             /\ r.recorded = <<>> /\ r.before = s.macros
    <3>1. s.macros \in [Macros -> Seq(Keys)]
      BY <1>0 DEF LfmType
    <3>2. s.macros[c.id] \o <<>> = s.macros[c.id]
      BY <1>2, <3>1
    <3>3. Recording(r)
      BY <1>2, <2>2, <2>4, <3>1, <3>2 DEF Recording
    <3>4. Playing(r)
      BY <2>2, <2>4 DEF Playing, Sound
    <3> QED
      BY <1>0, <2>2, <2>4, <3>3, <3>4, PlaceSame DEF Sound, Recorded, SamePlace
  <2> QED
    BY <2>2, <2>3, <2>4
<1>3. CASE c.do = "stop"
  <2>1. r = K!StopRecord(s)
    BY <1>3 DEF K!Do
  <2>2. SamePlace(s, r) /\ r.playing = s.playing /\ r.stack = s.stack
        /\ r.before = s.before /\ r.recorded = s.recorded
    BY <1>0, <2>1 DEF K!StopRecord, SamePlace, LfmType
  <2>3. \/ r = s
        \/ /\ s.recording # None /\ r.recording = None
           /\ r.macros = [s.macros EXCEPT ![s.recording] = K!Front(s.macros[s.recording])]
    BY <1>0, <2>1 DEF K!StopRecord, LfmType
  <2> HIDE DEF r
  <2>4. CASE s.recording # None /\ r.recording = None
           /\ r.macros = [s.macros EXCEPT ![s.recording] = K!Front(s.macros[s.recording])]
    <3>1. s.before \in [Macros -> Seq(Keys)] /\ s.recorded \in Seq(Keys) /\ s.recording \in Macros
      BY <1>0, <2>4 DEF LfmType
    <3>2. s.macros = [s.before EXCEPT ![s.recording] = s.before[s.recording] \o s.recorded]
      BY <2>4 DEF Sound, Recording
    <3>3. s.recorded # <<>> =>
            r.macros = [s.before EXCEPT ![s.recording] = @ \o K!Front(s.recorded)]
      <4> SUFFICES ASSUME s.recorded # <<>>
                   PROVE  r.macros = [s.before EXCEPT ![s.recording] = @ \o K!Front(s.recorded)]
        OBVIOUS
      <4>1. s.before[s.recording] \in Seq(Keys)
        BY <3>1
      <4>2. K!Front(s.before[s.recording] \o s.recorded)
              = s.before[s.recording] \o K!Front(s.recorded)
        BY <3>1, <4>1, FrontJoin
      <4>3. s.macros[s.recording] = s.before[s.recording] \o s.recorded
        BY <3>1, <3>2
      <4> QED
        BY <2>4, <3>1, <3>2, <4>2, <4>3
    <3>4. Playing(r)
      BY <2>2, <2>4 DEF Playing, Sound
    <3>5. Recording(r)
      BY <2>4 DEF Recording
    <3>6. Recorded(s0, r)
      <4>1. CASE s0.recording = None
        BY <4>1 DEF Recorded
      <4>2. CASE s0.recording # None /\ s.recorded = <<>>
        BY <2>2, <4>2 DEF Recorded
      <4>3. CASE s0.recording # None /\ s.recorded # <<>>
        <5>1. s.recording = s0.recording /\ s.recorded = s0.recorded /\ s.before = s0.before
          BY <2>4, <4>3 DEF Recorded
        <5> QED
          BY <2>2, <2>4, <3>3, <4>3, <5>1 DEF Recorded
      <4> QED
        BY <4>1, <4>2, <4>3
    <3> QED
      BY <1>0, <2>2, <3>4, <3>5, <3>6, PlaceSame DEF Sound, SamePlace
  <2> QED
    BY <2>3, <2>4
<1>4. CASE c.do = "play" /\ c.id \in Macros
  <2>1. r = K!Play(s, c.id)
    BY <1>4 DEF K!Do
  <2>2. SamePlace(s, r) /\ r.recording = s.recording /\ r.macros = s.macros
        /\ r.before = s.before /\ r.recorded = s.recorded
    BY <1>0, <2>1 DEF K!Play, SamePlace, LfmType
  <2>3. \/ r = s
        \/ /\ s.recording = None /\ ~s.playing /\ r.playing
           /\ r.stack = <<K!Frame("macro", s.macros[c.id])>> \o s.stack
    BY <1>0, <2>1 DEF K!Play, LfmType
  <2> HIDE DEF r
  <2>4. CASE s.recording = None /\ ~s.playing /\ r.playing
           /\ r.stack = <<K!Frame("macro", s.macros[c.id])>> \o s.stack
    <3> DEFINE f == K!Frame("macro", s.macros[c.id])
    <3>1. f \in FrameType /\ f.from = "macro" /\ s.stack \in Seq(FrameType)
      BY <1>0, <1>4 DEF LfmType, K!Frame, FrameType
    <3> HIDE DEF f
    <3>2. MacroFrames(<<f>> \o s.stack) =
           (IF f.from = "macro" THEN {1} ELSE {}) \cup {i + 1 : i \in MacroFrames(s.stack)}
      BY <3>1, Pushed
    <3>3. MacroFrames(s.stack) = {}
      BY <2>4 DEF Playing, Sound
    <3>4. MacroFrames(r.stack) = {1}
      BY <2>4, <3>1, <3>2, <3>3 DEF f
    <3>5. Playing(r)
      BY <2>2, <2>4, <3>4 DEF Playing
    <3>6. Recording(r) /\ Recorded(s0, r)
      BY <2>2, <2>4 DEF Recording, Recorded
    <3> QED
      BY <1>0, <2>2, <3>5, <3>6, PlaceSame DEF Sound, SamePlace
  <2> QED
    BY <2>3, <2>4
<1>5. CASE c.do = "feed" /\ c.keys \in Seq(Keys)
  <2>1. r = K!Feed(s, c.keys)
    BY <1>5 DEF K!Do
  <2>2. /\ SamePlace(s, r) /\ r.recording = s.recording /\ r.macros = s.macros
        /\ r.before = s.before /\ r.recorded = s.recorded /\ r.playing = s.playing
        /\ r.stack = <<K!Frame("feed", c.keys)>> \o s.stack
    BY <1>0, <2>1 DEF K!Feed, SamePlace, LfmType
  <2> HIDE DEF r
  <2> DEFINE f == K!Frame("feed", c.keys)
  <2>3. f \in FrameType /\ f.from # "macro" /\ s.stack \in Seq(FrameType)
    BY <1>0, <1>5 DEF LfmType, K!Frame, FrameType
  <2> HIDE DEF f
  <2>4. MacroFrames(<<f>> \o s.stack) =
         (IF f.from = "macro" THEN {1} ELSE {}) \cup {i + 1 : i \in MacroFrames(s.stack)}
    BY <2>3, Pushed
  <2>5. MacroFrames(r.stack) = {i + 1 : i \in MacroFrames(s.stack)}
    BY <2>2, <2>3, <2>4 DEF f
  <2>6. Playing(r)
    <3>1. MacroFrames(s.stack) = {} => MacroFrames(r.stack) = {}
      BY <2>5
    <3>2. \A i : MacroFrames(s.stack) = {i} => MacroFrames(r.stack) = {i + 1}
      BY <2>5
    <3> QED
      BY <2>2, <3>1, <3>2 DEF Playing, Sound
  <2>7. Recording(r) /\ Recorded(s0, r)
    BY <2>2 DEF Recording, Recorded, Sound
  <2> QED
    BY <1>0, <2>2, <2>6, <2>7, PlaceSame DEF Sound, SamePlace
<1>6. CASE c.do = "input" /\ c.keys \in Seq(Keys)
  <2>1. r = K!Buffer(s, c.keys)
    BY <1>6 DEF K!Do
  <2>2. SamePlace(s, r) /\ SameMacros(s, r)
    BY <1>0, <2>1 DEF K!Buffer, SamePlace, SameMacros, LfmType
  <2> HIDE DEF r
  <2>3. K!TrieOf(r.mode) \in DOMAIN maps
    BY <2>2 DEF Sound, SamePlace
  <2> QED
    BY <1>0, <2>2, <2>3, SoundSame, RecordedSame, PlaceSame
<1>7. CASE c.do = "execute"
  <2>1. r = K!Execute(s)
    BY <1>7 DEF K!Do
  <2>2. /\ SameMacros(s, r) /\ r.mode = s.mode
        /\ r.state = s.state /\ r.cur = s.cur /\ r.cur_base = s.cur_base
        /\ r.count = s.count /\ r.seq = s.seq /\ r.menu = s.menu /\ r.did = s.did
        /\ ~r.clear /\ ~r.suggest
    BY <1>0, <2>1 DEF K!Execute, SameMacros, LfmType
  <2> HIDE DEF r
  <2>3. K!TrieOf(r.mode) \in DOMAIN maps
    BY <2>2 DEF Sound
  <2> QED
    BY <1>0, <2>2, <2>3, SoundSame, RecordedSame DEF Place
<1> QED
  BY <1>1, <1>2, <1>3, <1>4, <1>5, <1>6, <1>7 DEF K!Commands

LEMMA PlaceItself == \A s : Place(s, s) /\ Recorded(s, s)
BY DEF Place, Recorded

\* A whole function or script
LEMMA RunSound ==
  ASSUME KAssumptions, NEW s, Sound(s), NEW cs \in Seq(K!Commands)
  PROVE  LET r == K!Run(s, cs) IN Sound(r) /\ Recorded(s, r) /\ Place(s, r)
<1> DEFINE T == {r \in LfmType : Sound(r) /\ Recorded(s, r) /\ Place(s, r)}
<1>1. s \in LfmType /\ s \in T
  BY PlaceItself DEF Sound
<1>2. \A r \in T, c \in K!Commands : K!Do(r, c) \in T
  <2> SUFFICES ASSUME NEW r \in T, NEW c \in K!Commands
               PROVE  K!Do(r, c) \in T
    OBVIOUS
  <2>1. K!Do(r, c) \in LfmType
    BY DoType
  <2>2. Sound(K!Do(r, c)) /\ Recorded(s, K!Do(r, c)) /\ Place(s, K!Do(r, c))
    BY DoSound
  <2> QED
    BY <2>1, <2>2
<1>3. K!Run(s, cs) \in T
  <2>1. T \in SUBSET LfmType
    OBVIOUS
  <2> HIDE DEF T
  <2> QED
    BY <1>1, <1>2, <2>1, RunIn
<1> QED
  BY <1>3

LEMMA CallSound ==
  ASSUME KAssumptions, NEW s, Sound(s), NEW f \in Callbacks \cup {None}
  PROVE  LET r == K!Call(s, f) IN Sound(r) /\ Recorded(s, r) /\ Place(s, r)
<1>1. CASE f = None
  BY <1>1, PlaceItself DEF K!Call
<1>2. CASE f # None
  <2>1. Code[f] \in Seq(K!Commands)
    BY <1>2 DEF KAssumptions, K!CodeAssumption
  <2>2. K!Call(s, f) = K!Run(s, Code[f])
    BY <1>2 DEF K!Call
  <2> QED
    BY <2>1, <2>2, RunSound
<1> QED
  BY <1>1, <1>2

\* lfm_mode_enter
LEMMA EnterSound ==
  ASSUME KAssumptions, NEW s, Sound(s), NEW m \in Modes
  PROVE  LET r == K!EnterMode(s, m) IN Sound(r) /\ Recorded(s, r) /\ Place(s, r)
<1> DEFINE c == [do |-> "mode", mode |-> m]
<1>1. c \in K!Commands /\ K!Do(s, c) = K!EnterMode(s, m)
  BY DEF K!Commands, K!Do
<1> HIDE DEF c
<1> QED
  BY <1>1, PlaceItself, DoSound


\* A digit behind a number
Shifted(n, d) == n * 10 + d

\* Numbers, digit by digit
LEMMA NumberTrail ==
  ASSUME NEW s \in Seq(Nat)
  PROVE  \E w : /\ w[0] = 0
                /\ \A k \in 1..Len(s) : w[k] = Shifted(w[k - 1], s[k])
                /\ w[Len(s)] = K!Number(s)
<1> DEFINE
  A == Nat
  g == [p \in A \X Nat |-> Shifted(p[1], p[2])]
  Is(it) == it = [x \in SUBSET DOMAIN s |->
                    IF x = {} THEN 0
                    ELSE Shifted(it[x \ {K!Max(x)}], s[K!Max(x)])]
  iter == CHOOSE it : Is(it)
<1>1. K!Number(s) = iter[DOMAIN s]
  BY DEF K!Number, K!FoldLeft, K!MapThenFoldSet, Shifted
<1>2. \E it : Is(it)
  <2>1. g \in [A \X Nat -> A] /\ 0 \in A
    BY DEF Shifted
  <2>2. PICK it \in [SUBSET (1..Len(s)) -> A] : Folds(it, 0, g, s)
    <3> HIDE DEF g, A
    <3> QED
      BY <2>1, FoldExists
  <2>3. \A x \in SUBSET (1..Len(s)) :
          it[x] = IF x = {} THEN 0 ELSE Shifted(it[x \ {K!Max(x)}], s[K!Max(x)])
    <3> SUFFICES ASSUME NEW x \in SUBSET (1..Len(s)), x # {}
                 PROVE  g[<<it[x \ {K!Max(x)}], s[K!Max(x)]>>] =
                          Shifted(it[x \ {K!Max(x)}], s[K!Max(x)])
      BY <2>2 DEF Folds
    <3> HIDE DEF A
    <3>1. K!Max(x) \in 1..Len(s)
      <4>1. Len(s) \in Nat
        OBVIOUS
      <4> QED
        BY <4>1, MaxOf
    <3>2. it[x \ {K!Max(x)}] \in A /\ s[K!Max(x)] \in Nat
      <4>1. x \ {K!Max(x)} \in SUBSET (1..Len(s))
        OBVIOUS
      <4>2. s[K!Max(x)] \in Nat
        BY <3>1
      <4> QED
        BY <4>1, <4>2
    <3> QED
      BY <3>2
  <2>4. DOMAIN s = 1..Len(s)
    OBVIOUS
  <2>5. Is(it)
    <3> HIDE DEF A, g
    <3> QED
      BY <2>2, <2>3, <2>4
  <2> QED
    BY <2>5
<1>3. Is(iter)
  <2> HIDE DEF Is
  <2> QED
    BY <1>2
<1> HIDE DEF iter, g
<1> DEFINE w == [k \in 0..Len(s) |-> iter[1..k]]
<1>4. w[0] = 0
  <2>1. iter[{}] = 0
    BY <1>3
  <2>2. 1..0 = {}
    OBVIOUS
  <2> QED
    BY <2>1, <2>2
<1>5. ASSUME NEW k \in 1..Len(s)
      PROVE  w[k] = Shifted(w[k - 1], s[k])
  <2>1. (1..k) \in SUBSET (1..Len(s)) /\ 1..k # {} /\ k \in Nat
    <3>1. Len(s) \in Nat
      OBVIOUS
    <3>2. k \in Nat /\ k \in 1..k
      BY <3>1
    <3>3. \A i \in 1..k : i \in 1..Len(s)
      BY <3>1
    <3> QED
      BY <3>2, <3>3
  <2>2. K!Max(1..k) = k
    <3>1. (1..k) \in SUBSET (1..k)
      OBVIOUS
    <3>2. K!Max(1..k) \in 1..k /\ \A y \in 1..k : y <= K!Max(1..k)
      BY <2>1, <3>1, MaxOf, Zenon
    <3>3. k \in 1..k
      BY <2>1
    <3> QED
      BY <2>1, <3>2, <3>3
  <2>3. (1..k) \ {k} = 1..(k - 1)
    OBVIOUS
  <2>4. (1..k) \in SUBSET DOMAIN s
    BY <2>1
  <2>5. iter[1..k] = Shifted(iter[(1..k) \ {K!Max(1..k)}], s[K!Max(1..k)])
    <3> HIDE DEF w
    <3> QED
      BY <1>3, <2>1, <2>4, Zenon
  <2>6. iter[1..k] = Shifted(iter[1..(k - 1)], s[k])
    BY <2>2, <2>3, <2>5
  <2> QED
    BY <2>6
<1>6. w[Len(s)] = K!Number(s)
  BY <1>1
<1> HIDE DEF w
<1> QED
  BY <1>4, <1>5, <1>6

\* The value for no element, and with one more
LEMMA NumberStep ==
         /\ K!Number(<<>>) = 0
         /\ \A s \in Seq(Nat), x \in Nat :
              K!Number(Append(s, x)) = Shifted(K!Number(s), x)
<1>1. K!Number(<<>>) = 0
  <2> DEFINE none == <<>>
  <2>1. none \in Seq(Nat) /\ Len(none) = 0
    OBVIOUS
  <2> HIDE DEF none
  <2>2. PICK w : /\ w[0] = 0
                 /\ \A k \in 1..Len(none) : w[k] = Shifted(w[k - 1], none[k])
                 /\ w[Len(none)] = K!Number(none)
    BY <2>1, NumberTrail
  <2>3. K!Number(none) = 0
    BY <2>1, <2>2
  <2> QED
    BY <2>3 DEF none
<1>2. ASSUME NEW s \in Seq(Nat), NEW x \in Nat
      PROVE  K!Number(Append(s, x)) = Shifted(K!Number(s), x)
  <2> DEFINE more == Append(s, x)
  <2>1. /\ more \in Seq(Nat) /\ Len(more) = Len(s) + 1 /\ more[Len(s) + 1] = x
        /\ \A k \in 1..Len(s) : more[k] = s[k]
        /\ Len(s) \in Nat
    OBVIOUS
  <2> HIDE DEF more
  <2>2. PICK v : /\ v[0] = 0
                 /\ \A k \in 1..Len(s) : v[k] = Shifted(v[k - 1], s[k])
                 /\ v[Len(s)] = K!Number(s)
    BY NumberTrail
  <2>3. PICK w : /\ w[0] = 0
                 /\ \A k \in 1..Len(more) : w[k] = Shifted(w[k - 1], more[k])
                 /\ w[Len(more)] = K!Number(more)
    BY <2>1, NumberTrail
  <2> DEFINE N == {n \in Nat : n <= Len(s) => w[n] = v[n]}
  <2>4. 0 \in N
    BY <2>2, <2>3
  <2>5. ASSUME NEW n \in Nat, n \in N
        PROVE  n + 1 \in N
    <3> SUFFICES ASSUME n + 1 <= Len(s)
                 PROVE  w[n + 1] = v[n + 1]
      OBVIOUS
    <3>1. w[n] = v[n]
      BY <2>1, <2>5
    <3>2. n + 1 \in 1..Len(s) /\ n + 1 \in 1..Len(more) /\ (n + 1) - 1 = n
      BY <2>1
    <3>3. more[n + 1] = s[n + 1]
      BY <2>1, <3>2
    <3>4. w[n + 1] = Shifted(w[(n + 1) - 1], more[n + 1])
      BY <2>3, <3>2
    <3>5. v[n + 1] = Shifted(v[(n + 1) - 1], s[n + 1])
      BY <2>2, <3>2
    <3> QED
      BY <3>1, <3>2, <3>3, <3>4, <3>5
  <2>6. Nat \subseteq N
    <3> HIDE DEF N
    <3> QED
      BY <2>4, <2>5, NatIndSet
  <2>7. w[Len(s)] = v[Len(s)]
    BY <2>1, <2>6
  <2>8. Len(s) + 1 \in 1..Len(more) /\ (Len(s) + 1) - 1 = Len(s)
    BY <2>1
  <2>9. w[Len(s) + 1] = Shifted(w[(Len(s) + 1) - 1], more[Len(s) + 1])
    BY <2>3, <2>8
  <2>10. K!Number(more) = Shifted(K!Number(s), x)
    BY <2>1, <2>2, <2>3, <2>7, <2>8, <2>9
  <2> QED
    BY <2>10 DEF more
<1> QED
  BY <1>1, <1>2

-----------------------------------------------------------------------------
(* Handling a key *)

\* Mappings are sequences of keys with functions, in the tries of modes.
MapsOK ==
  /\ DOMAIN maps \subseteq Modes \ {Visual} /\ {Normal, Input} \subseteq DOMAIN maps
  /\ \A t \in DOMAIN maps : /\ DOMAIN maps[t] \subseteq Seq(Keys)
                            /\ \A s \in DOMAIN maps[t] : maps[t][s] \in Callbacks

NodesOK(s) == \A n \in {s.cur, s.cur_base} : n # K!NoNode => n.trie \in DOMAIN maps
Untimed(s) == ~s.clear /\ ~s.suggest

\* Nothing is underway.
Quiet(s) ==
  /\ s.state = "IDLE" /\ s.cur = K!NoNode /\ s.cur_base = K!NoNode /\ s.seq = <<>>
  /\ s.menu = None /\ Untimed(s)

Done(s, r) == Sound(r) /\ Recorded(s, r) /\ Quiet(r)

LEMMA QuietPlace ==
  ASSUME NEW s, NEW r, Quiet(s), Place(s, r)
  PROVE  Quiet(r)
BY DEF Quiet, Place, Untimed

LEMMA RecordedFrom ==
  ASSUME NEW s, NEW t, NEW r, SameMacros(s, t), Recorded(t, r)
  PROVE  Recorded(s, r)
BY DEF SameMacros, Recorded

LEMMA DoneFrom ==
  ASSUME NEW s, NEW t, NEW r, SameMacros(s, t), Done(t, r)
  PROVE  Done(s, r)
BY RecordedFrom DEF Done

LEMMA NoNodeType == K!NoNode \in Node
<1>1. <<>> \in Seq(Keys)
  OBVIOUS
<1> QED
  BY <1>1 DEF K!NoNode, Node

LEMMA RootType ==
  ASSUME NEW t \in Modes
  PROVE  K!Root(t) \in Node
<1>1. <<>> \in Seq(Keys)
  OBVIOUS
<1> QED
  BY <1>1 DEF K!Root, Node

\* A root is a node.
LEMMA RootIsNode ==
  ASSUME KAssumptions, NEW t \in Modes
  PROVE  K!Root(t) # K!NoNode
BY DEF K!Root, K!NoNode, KAssumptions, K!NoneAssumption

LEMMA BaseType ==
  ASSUME KAssumptions, MapsOK, NEW m
  PROVE  K!BaseOf(m) \in DOMAIN maps /\ K!BaseOf(m) \in Modes
BY DEF K!BaseOf, MapsOK

\* input_clear
LEMMA ClearSound ==
  ASSUME NEW s, Sound(s)
  PROVE  LET r == K!Clear(s)
         IN /\ Sound(r) /\ SameMacros(s, r) /\ r.mode = s.mode /\ r.did = s.did
            /\ r.clear = s.clear /\ r.suggest = s.suggest
            /\ Untimed(s) => Quiet(r)
<1> DEFINE r == K!Clear(s)
           s1 == [s EXCEPT !.state = "IDLE", !.cur = K!NoNode]
           s2 == [s1 EXCEPT !.cur_base = K!NoNode, !.count = -1]
<1>0. PICK e \in Seq(Keys) : e = <<>>
  <2>1. <<>> \in Seq(Keys)
    OBVIOUS
  <2> QED
    BY <2>1
<1> DEFINE s3 == [s2 EXCEPT !.menu = None, !.seq = e]
<1>1. s \in LfmType
  BY DEF Sound
<1>2. s1 \in LfmType
  BY <1>1, NoNodeType DEF LfmType
<1>3. s2 \in LfmType
  <2> HIDE DEF s1
  <2>1. -1 \in Nat \cup {-1}
    OBVIOUS
  <2> QED
    BY <1>2, <2>1, NoNodeType DEF LfmType
<1>4. s3 \in LfmType
  <2> HIDE DEF s2
  <2> QED
    BY <1>3 DEF LfmType
<1>5. r = s3
  BY <1>0, <1>1 DEF K!Clear, LfmType
<1>6. SameMacros(s, r) /\ r.mode = s.mode /\ r.did = s.did
      /\ r.clear = s.clear /\ r.suggest = s.suggest
  BY <1>1 DEF K!Clear, SameMacros, LfmType
<1>7. r.state = "IDLE" /\ r.cur = K!NoNode /\ r.cur_base = K!NoNode /\ r.seq = <<>> /\ r.menu = None
  BY <1>1 DEF K!Clear, LfmType
<1> HIDE DEF r, s3
<1>8. Sound(r)
  <2>1. K!TrieOf(r.mode) \in DOMAIN maps
    BY <1>6 DEF Sound
  <2> QED
    BY <1>4, <1>5, <1>6, <2>1, SoundSame
<1>9. Untimed(s) => Quiet(r)
  BY <1>6, <1>7 DEF Quiet, Untimed
<1> QED
  BY <1>6, <1>8, <1>9 DEF r

\* What is noted of a key
LEMMA DidSound ==
  ASSUME NEW s, Sound(s), NEW d \in DidType
  PROVE  LET r == [s EXCEPT !.did = d]
         IN /\ Sound(r) /\ SameMacros(s, r) /\ r.did = d
            /\ r.mode = s.mode /\ r.state = s.state /\ r.cur = s.cur /\ r.cur_base = s.cur_base
            /\ r.count = s.count /\ r.seq = s.seq /\ r.menu = s.menu
            /\ r.clear = s.clear /\ r.suggest = s.suggest
<1> DEFINE r == [s EXCEPT !.did = d]
<1>1. s \in LfmType /\ r \in LfmType
  BY DEF Sound, LfmType
<1>2. /\ SameMacros(s, r) /\ r.did = d
      /\ r.mode = s.mode /\ r.state = s.state /\ r.cur = s.cur /\ r.cur_base = s.cur_base
      /\ r.count = s.count /\ r.seq = s.seq /\ r.menu = s.menu
      /\ r.clear = s.clear /\ r.suggest = s.suggest
  BY <1>1 DEF LfmType, SameMacros
<1> HIDE DEF r
<1>3. Sound(r)
  <2>1. K!TrieOf(r.mode) \in DOMAIN maps
    BY <1>2 DEF Sound
  <2> QED
    BY <1>1, <1>2, <2>1, SoundSame
<1> QED
  BY <1>2, <1>3 DEF r

\* Clearing, with what is noted
LEMMA ClearedSound ==
  ASSUME NEW s, Sound(s), Untimed(s), NEW d \in DidType
  PROVE  LET r == [K!Clear(s) EXCEPT !.did = d]
         IN Sound(r) /\ SameMacros(s, r) /\ Quiet(r) /\ r.did = d /\ r.mode = s.mode
<1> DEFINE c == K!Clear(s)
           r == [c EXCEPT !.did = d]
<1>1. Sound(c) /\ SameMacros(s, c) /\ Quiet(c) /\ c.mode = s.mode
  BY ClearSound
<1> HIDE DEF c
<1>2. /\ Sound(r) /\ SameMacros(c, r) /\ r.did = d
      /\ r.mode = c.mode /\ r.state = c.state /\ r.cur = c.cur /\ r.cur_base = c.cur_base
      /\ r.seq = c.seq /\ r.menu = c.menu
      /\ r.clear = c.clear /\ r.suggest = c.suggest
  BY <1>1, DidSound
<1> HIDE DEF r
<1>3. SameMacros(s, r) /\ Quiet(r) /\ r.mode = s.mode
  BY <1>1, <1>2 DEF SameMacros, Quiet, Untimed
<1> QED
  BY <1>2, <1>3 DEF r, c

LEMMA DropDone ==
  ASSUME NEW s, Sound(s), Untimed(s)
  PROVE  Done(s, K!Drop(s)) /\ K!Drop(s).did = [what |-> "drop"]
<1> DEFINE d == [what |-> "drop"]
           r == [K!Clear(s) EXCEPT !.did = d]
<1>1. d \in DidType
  BY DEF DidType
<1> HIDE DEF d
<1>2. Sound(r) /\ SameMacros(s, r) /\ Quiet(r) /\ r.did = d
  BY <1>1, ClearedSound
<1>3. K!Drop(s) = r
  BY DEF K!Drop, d
<1> HIDE DEF r
<1>4. Recorded(s, r)
  BY <1>2, PlaceItself, RecordedSame
<1> QED
  BY <1>2, <1>3, <1>4 DEF Done, d

\* A function that is called when nothing is underway
LEMMA CallDone ==
  ASSUME KAssumptions, NEW s, Sound(s), Quiet(s), NEW f \in Callbacks \cup {None}
  PROVE  Done(s, K!Call(s, f)) /\ K!Call(s, f).did = s.did
<1> DEFINE r == K!Call(s, f)
<1>1. Sound(r) /\ Recorded(s, r) /\ Place(s, r)
  BY CallSound
<1> HIDE DEF r
<1>2. Quiet(r) /\ r.did = s.did
  BY <1>1, QuietPlace DEF Place
<1> QED
  BY <1>1, <1>2 DEF Done, r

LEMMA EnterDone ==
  ASSUME KAssumptions, NEW s0, NEW s, Done(s0, s)
  PROVE  Done(s0, K!EnterMode(s, Normal)) /\ K!EnterMode(s, Normal).did = s.did
<1> DEFINE r == K!EnterMode(s, Normal)
<1>1. Normal \in Modes
  BY DEF KAssumptions, K!ModesAssumption
<1>2. Sound(r) /\ Place(s, r)
  BY <1>1, EnterSound DEF Done
<1>3. SameMacros(s, r)
  BY DEF K!EnterMode, SameMacros, Done, Sound, LfmType
<1> HIDE DEF r
<1>4. Quiet(r) /\ r.did = s.did
  BY <1>2, QuietPlace DEF Place, Done
<1>5. Recorded(s0, r)
  BY <1>3, RecordedSame DEF Done
<1> QED
  BY <1>2, <1>4, <1>5 DEF Done, r

Ran(n, c) == [what |-> "run", function |-> maps[n.trie][n.path], count |-> c]

LEMMA RunDone ==
  ASSUME KAssumptions, MapsOK, NEW s, Sound(s), Untimed(s), NEW n,
         n.trie \in DOMAIN maps, n.path \in DOMAIN maps[n.trie]
  PROVE  Done(s, K!RunMapping(s, n)) /\ K!RunMapping(s, n).did = Ran(n, s.count)
<1> DEFINE f == maps[n.trie][n.path]
           d == [what |-> "run", function |-> f, count |-> s.count]
           c == [K!Clear(s) EXCEPT !.did = d]
           r == K!Call(c, f)
<1>1. f \in Callbacks
  BY DEF MapsOK
<1>2. d \in DidType
  <2>1. s.count \in Nat \cup {-1}
    BY DEF Sound, LfmType
  <2> HIDE DEF f
  <2> QED
    BY <1>1, <2>1 DEF DidType
<1>3. K!RunMapping(s, n) = r
  BY DEF K!RunMapping
<1>4. d = Ran(n, s.count)
  BY DEF Ran
<1> HIDE DEF d, f
<1>5. Sound(c) /\ SameMacros(s, c) /\ Quiet(c) /\ c.did = d
  BY <1>2, ClearedSound
<1> HIDE DEF c
<1>6. Done(c, r) /\ r.did = c.did
  BY <1>1, <1>5, CallDone
<1> HIDE DEF r
<1> QED
  BY <1>3, <1>4, <1>5, <1>6, DoneFrom

\* process_sequence_key
LEMMA SequenceCases ==
  ASSUME KAssumptions, MapsOK, NEW s, Sound(s), Untimed(s), NodesOK(s), NEW k
  PROVE  LET r == K!SequenceKey(s, k)
             own == K!Child(s.cur, k)
             base == K!Child(s.cur_base, k)
         IN /\ K!IsLeaf(own) => Done(s, r) /\ r.did = Ran(own, s.count)
            /\ ~K!IsLeaf(own) /\ K!IsLeaf(base) => Done(s, r) /\ r.did = Ran(base, s.count)
            /\ ~K!IsLeaf(own) /\ ~K!IsLeaf(base) /\ K!Matches(s, k) => r = K!Advance(s, k)
            /\ ~K!Matches(s, k) => Done(s, r) /\ r.did = [what |-> "drop"]
<1> DEFINE r == K!SequenceKey(s, k)
           own == K!Child(s.cur, k)
           base == K!Child(s.cur_base, k)
<1>1. ASSUME NEW n \in {s.cur, s.cur_base}, NEW c, c = K!Child(n, k), K!IsLeaf(c)
      PROVE  /\ c # K!NoNode /\ c.trie \in DOMAIN maps /\ c.path \in DOMAIN maps[c.trie]
             /\ Done(s, K!RunMapping(s, c)) /\ K!RunMapping(s, c).did = Ran(c, s.count)
  <2>1. c # K!NoNode /\ c.path \in DOMAIN maps[c.trie]
    BY <1>1 DEF K!IsLeaf, K!Mapped
  <2>2. n # K!NoNode /\ c = [n EXCEPT !.path = Append(n.path, k)]
    BY <1>1, <2>1 DEF K!Child
  <2>3. n \in Node
    BY DEF Sound, LfmType
  <2>4. c.trie = n.trie
    BY <2>2, <2>3 DEF Node
  <2>5. c.trie \in DOMAIN maps
    BY <2>2, <2>4 DEF NodesOK
  <2> QED
    BY <2>1, <2>5, RunDone
<1>2. CASE K!IsLeaf(own)
  <2>1. r = K!RunMapping(s, own) /\ own # K!NoNode
    BY <1>2 DEF K!SequenceKey, K!IsLeaf
  <2>2. Done(s, K!RunMapping(s, own)) /\ K!RunMapping(s, own).did = Ran(own, s.count)
    <3> HIDE DEF r, own
    <3>1. s.cur \in {s.cur, s.cur_base} /\ own = K!Child(s.cur, k)
      BY DEF own
    <3> QED
      BY <1>1, <1>2, <3>1
  <2> QED
    BY <1>2, <2>1, <2>2 DEF K!Matches
<1>3. CASE ~K!IsLeaf(own) /\ K!IsLeaf(base)
  <2>1. r = K!RunMapping(s, base) /\ base # K!NoNode
    BY <1>3 DEF K!SequenceKey, K!IsLeaf
  <2>2. Done(s, K!RunMapping(s, base)) /\ K!RunMapping(s, base).did = Ran(base, s.count)
    <3> HIDE DEF r, base
    <3>1. s.cur_base \in {s.cur, s.cur_base} /\ base = K!Child(s.cur_base, k)
      BY DEF base
    <3> QED
      BY <1>1, <1>3, <3>1
  <2> QED
    BY <1>3, <2>1, <2>2 DEF K!Matches
<1>4. CASE ~K!IsLeaf(own) /\ ~K!IsLeaf(base) /\ K!Matches(s, k)
  BY <1>4 DEF K!SequenceKey
<1>5. CASE ~K!IsLeaf(own) /\ ~K!IsLeaf(base) /\ ~K!Matches(s, k)
  <2>1. r = K!Drop(s)
    BY <1>5 DEF K!SequenceKey
  <2> QED
    BY <1>5, <2>1, DropDone
<1> QED
  BY <1>2, <1>3, <1>4, <1>5

\* Before a key is looked at: timers are stopped, and a sequence begins.
Idle(s) == s.state = "IDLE" => s.cur = K!NoNode /\ s.cur_base = K!NoNode /\ s.seq = <<>>
Heard(s) == [s EXCEPT !.clear = FALSE, !.suggest = FALSE, !.did = None]
Begun(s) == IF s.state = "IDLE" THEN K!InitSequence(Heard(s)) ELSE Heard(s)

LEMMA HeardSound ==
  ASSUME NEW s, Sound(s)
  PROVE  LET t == Heard(s)
         IN /\ Sound(t) /\ SameMacros(s, t) /\ Untimed(t) /\ t.did = None
            /\ t.mode = s.mode /\ t.state = s.state /\ t.cur = s.cur /\ t.cur_base = s.cur_base
            /\ t.count = s.count /\ t.seq = s.seq /\ t.menu = s.menu
<1> DEFINE t == Heard(s)
<1>1. s \in LfmType
  BY DEF Sound
<1>2. /\ SameMacros(s, t) /\ Untimed(t) /\ t.did = None
      /\ t.mode = s.mode /\ t.state = s.state /\ t.cur = s.cur /\ t.cur_base = s.cur_base
      /\ t.count = s.count /\ t.seq = s.seq /\ t.menu = s.menu
  BY <1>1 DEF Heard, LfmType, SameMacros, Untimed
<1>3. t \in LfmType
  <2>1. None \in DidType
    BY DEF DidType
  <2> QED
    BY <1>1, <2>1 DEF Heard, LfmType
<1> HIDE DEF t
<1>4. K!TrieOf(t.mode) \in DOMAIN maps
  BY <1>2 DEF Sound
<1> QED
  BY <1>2, <1>3, <1>4, SoundSame DEF t

LEMMA BegunSound ==
  ASSUME KAssumptions, MapsOK, NEW s, Sound(s), NodesOK(s)
  PROVE  LET i == Begun(s)
         IN /\ Sound(i) /\ SameMacros(s, i) /\ Untimed(i) /\ NodesOK(i) /\ i.did = None
            /\ i.mode = s.mode /\ i.state = s.state /\ i.seq = s.seq /\ i.menu = s.menu
            /\ s.state # "IDLE" => i.cur = s.cur /\ i.cur_base = s.cur_base /\ i.count = s.count
            /\ s.state = "IDLE" => /\ i.cur = K!Root(K!TrieOf(s.mode)) /\ i.count = -1
                                   /\ i.cur_base = IF K!TrieOf(s.mode) = K!BaseOf(s.mode)
                                                   THEN K!NoNode ELSE K!Root(K!BaseOf(s.mode))
<1> DEFINE t == Heard(s)
           i == Begun(s)
<1>1. /\ Sound(t) /\ SameMacros(s, t) /\ Untimed(t) /\ t.did = None
      /\ t.mode = s.mode /\ t.state = s.state /\ t.cur = s.cur /\ t.cur_base = s.cur_base
      /\ t.count = s.count /\ t.seq = s.seq /\ t.menu = s.menu
  BY HeardSound
<1>2. CASE s.state # "IDLE"
  <2>1. i = t
    BY <1>2 DEF Begun
  <2> HIDE DEF i, t
  <2>2. NodesOK(t)
    BY <1>1 DEF NodesOK
  <2> QED
    BY <1>1, <1>2, <2>1, <2>2 DEF i
<1>3. CASE s.state = "IDLE"
  <2> DEFINE o == K!TrieOf(s.mode)
             b == IF o = K!BaseOf(s.mode) THEN K!NoNode ELSE K!Root(K!BaseOf(s.mode))
             t1 == [t EXCEPT !.cur = K!Root(o)]
             t2 == [t1 EXCEPT !.cur_base = b]
             t3 == [t2 EXCEPT !.count = -1]
  <2>1. o \in DOMAIN maps /\ o \in Modes
    BY DEF Sound, MapsOK
  <2>2. K!Root(o) \in Node /\ b \in Node
    BY <2>1, BaseType, RootType, NoNodeType
  <2>3. t \in LfmType /\ -1 \in Nat \cup {-1}
    BY <1>1 DEF Sound
  <2>4. i = [t EXCEPT !.cur = K!Root(o), !.cur_base = b, !.count = -1]
    BY <1>1, <1>3 DEF Begun, K!InitSequence
  <2> HIDE DEF t, o, i
  <2>5. /\ SameMacros(t, i) /\ i.clear = t.clear /\ i.suggest = t.suggest /\ i.did = t.did
        /\ i.mode = t.mode /\ i.state = t.state /\ i.seq = t.seq /\ i.menu = t.menu
        /\ i.cur = K!Root(o) /\ i.cur_base = b /\ i.count = -1
    BY <2>3, <2>4 DEF LfmType, SameMacros
  <2> HIDE DEF b
  <2>6. i \in LfmType
    <3>1. t1 \in LfmType
      BY <2>2, <2>3 DEF LfmType
    <3>2. t2 \in LfmType
      <4> HIDE DEF t1
      <4> QED
        BY <2>2, <3>1 DEF LfmType
    <3>3. t3 \in LfmType
      <4> HIDE DEF t2
      <4> QED
        BY <2>3, <3>2 DEF LfmType
    <3>4. i = t3
      BY <2>3, <2>4 DEF LfmType
    <3> QED
      BY <3>3, <3>4
  <2>7. K!TrieOf(i.mode) \in DOMAIN maps
    BY <1>1, <2>1, <2>5 DEF o
  <2>8. Sound(i)
    BY <1>1, <2>5, <2>6, <2>7, SoundSame
  <2>9. NodesOK(i)
    <3>1. K!Root(o).trie = o /\ (b # K!NoNode => b.trie \in DOMAIN maps)
      BY BaseType DEF K!Root, b
    <3> QED
      BY <2>1, <2>5, <3>1 DEF NodesOK
  <2>10. SameMacros(s, i) /\ Untimed(i)
    BY <1>1, <2>5 DEF SameMacros, Untimed
  <2> QED
    BY <1>1, <1>3, <2>5, <2>8, <2>9, <2>10 DEF i, o, b
<1> QED
  BY <1>2, <1>3

\* handle_normal_mode_key
LEMMA NormalCases ==
  ASSUME KAssumptions, MapsOK, NEW s, Sound(s), NodesOK(s), Idle(s), NEW k,
         s.mode \notin IsInput
  PROVE  LET r == K!HandleKey(s, k)
             i == Begun(s)
         IN /\ k = Esc => Done(s, r) /\ r.did \in {None, [what |-> "drop"]}
            /\ k # Esc =>
                 r = IF k \in Digits /\ (s.state = "COUNT" \/ (s.state = "IDLE" /\ k # 0))
                     THEN K!AccumulateDigit(i, k) ELSE K!SequenceKey(i, k)
<1> DEFINE t == Heard(s)
           r == K!HandleKey(s, k)
<1>1. r = K!NormalKey(t, k)
  BY DEF K!HandleKey, Heard
<1>2. /\ Sound(t) /\ SameMacros(s, t) /\ Untimed(t) /\ t.did = None
      /\ t.mode = s.mode /\ t.state = s.state /\ t.cur = s.cur /\ t.cur_base = s.cur_base
      /\ t.seq = s.seq
  BY HeardSound
<1>3. Begun(s) = IF t.state = "IDLE" THEN K!InitSequence(t) ELSE t
  BY <1>2 DEF Begun
<1> HIDE DEF t, r
<1>4. CASE k # Esc
  <2>1. r = IF k \in Digits /\ (t.state = "COUNT" \/ (t.state = "IDLE" /\ k # 0))
            THEN K!AccumulateDigit(Begun(s), k) ELSE K!SequenceKey(Begun(s), k)
    BY <1>1, <1>3, <1>4 DEF K!NormalKey
  <2> QED
    BY <1>2, <1>4, <2>1 DEF r
<1>5. CASE k = Esc /\ t.state # "IDLE"
  <2>1. r = K!Drop(t)
    BY <1>1, <1>5 DEF K!NormalKey
  <2>2. Done(t, r) /\ r.did = [what |-> "drop"]
    BY <1>2, <2>1, DropDone
  <2> QED
    BY <1>2, <1>5, <2>2, DoneFrom DEF r
<1>6. CASE k = Esc /\ t.state = "IDLE"
  <2> DEFINE u == [t EXCEPT !.menu = None]
             f == OnEsc[t.mode]
             c == K!Call(u, f)
  <2>1. r = K!EnterMode(c, Normal)
    BY <1>1, <1>6 DEF K!NormalKey, K!EscIdle
  <2>2. f \in Callbacks \cup {None}
    <3>1. t.mode \in Modes
      BY <1>2 DEF Sound, LfmType
    <3> QED
      BY <3>1 DEF KAssumptions, K!CodeAssumption
  <2> HIDE DEF f
  <2>3. t \in LfmType
    BY <1>2 DEF Sound
  <2>4. u \in LfmType /\ SameMacros(t, u) /\ u.did = t.did /\ u.mode = t.mode
        /\ u.state = t.state /\ u.cur = t.cur /\ u.cur_base = t.cur_base /\ u.seq = t.seq
        /\ u.clear = t.clear /\ u.suggest = t.suggest /\ u.menu = None
    BY <2>3 DEF LfmType, SameMacros
  <2> HIDE DEF u
  <2>5. Sound(u)
    <3>1. K!TrieOf(u.mode) \in DOMAIN maps
      BY <1>2, <2>4 DEF Sound
    <3> QED
      BY <1>2, <2>4, <3>1, SoundSame
  <2>6. Quiet(u)
    BY <1>2, <1>6, <2>4 DEF Quiet, Untimed, Idle
  <2>7. Done(u, c) /\ c.did = u.did
    BY <2>2, <2>5, <2>6, CallDone
  <2> HIDE DEF c
  <2>8. Done(u, r) /\ r.did = None
    BY <1>2, <2>1, <2>4, <2>7, EnterDone
  <2>9. SameMacros(s, u)
    BY <1>2, <2>4 DEF SameMacros
  <2> QED
    BY <1>6, <2>8, <2>9, DoneFrom DEF r
<1> QED
  BY <1>4, <1>5, <1>6 DEF r

\* handle_input_mode_key
LEMMA InputCases ==
  ASSUME KAssumptions, MapsOK, NEW s, Sound(s), NodesOK(s), Idle(s), NEW k,
         s.mode \in IsInput
  PROVE  LET r == K!HandleKey(s, k)
             i == Begun(s)
         IN /\ k = Esc \/ k = Enter => Done(s, r) /\ r.did = None
            /\ k # Esc /\ k # Enter /\ (s.state = "SEQUENCE" \/ K!Matches(i, k)) =>
                 r = K!SequenceKey(i, k)
            /\ k # Esc /\ k # Enter /\ ~(s.state = "SEQUENCE" \/ K!Matches(i, k)) =>
                 Done(s, r) /\ r.did = [what |-> IF k \in Printable THEN "insert" ELSE "drop"]
<1> DEFINE t == Heard(s)
           i == Begun(s)
           r == K!HandleKey(s, k)
<1>1. r = K!InputKey(t, k)
  BY DEF K!HandleKey, Heard
<1>2. /\ Sound(t) /\ SameMacros(s, t) /\ Untimed(t) /\ t.did = None
      /\ t.mode = s.mode /\ t.state = s.state
  BY HeardSound
<1>3. i = IF t.state = "IDLE" THEN K!InitSequence(t) ELSE t
  BY <1>2 DEF Begun
<1>4. Sound(i) /\ SameMacros(s, i) /\ Untimed(i)
  BY BegunSound
<1>5. \A m \in Modes : /\ OnEsc[m] \in Callbacks \cup {None}
                       /\ OnReturn[m] \in Callbacks \cup {None}
                       /\ OnChange[m] \in Callbacks \cup {None}
  BY DEF KAssumptions, K!CodeAssumption
<1> HIDE DEF t, r, i
<1>6. CASE k = Esc
  <2> DEFINE c == K!Call(t, OnEsc[t.mode])
             z == K!Clear(c)
  <2>1. r = K!EnterMode(z, Normal)
    BY <1>1, <1>6 DEF K!InputKey
  <2>2. t.mode \in Modes
    BY <1>2 DEF Sound, LfmType
  <2>3. Sound(c) /\ Recorded(t, c) /\ Place(t, c)
    BY <1>2, <1>5, <2>2, CallSound
  <2> HIDE DEF c
  <2>4. Untimed(c) /\ c.did = None
    BY <1>2, <2>3 DEF Place, Untimed
  <2>5. Sound(z) /\ SameMacros(c, z) /\ Quiet(z) /\ z.did = None
    BY <2>3, <2>4, ClearSound
  <2> HIDE DEF z
  <2>6. Done(t, z)
    BY <2>3, <2>5, RecordedSame DEF Done
  <2>7. Done(t, r) /\ r.did = None
    BY <2>1, <2>5, <2>6, EnterDone
  <2> QED
    BY <1>2, <1>6, <2>7, DoneFrom DEF r
<1>7. CASE k # Esc /\ k = Enter
  <2> DEFINE z == K!Clear(t)
  <2>1. r = K!Call(z, OnReturn[t.mode])
    BY <1>1, <1>7 DEF K!InputKey
  <2>2. t.mode \in Modes
    BY <1>2 DEF Sound, LfmType
  <2>3. Sound(z) /\ SameMacros(t, z) /\ Quiet(z) /\ z.did = None
    BY <1>2, ClearSound
  <2> HIDE DEF z
  <2>4. Done(z, r) /\ r.did = None
    BY <1>5, <2>1, <2>2, <2>3, CallDone
  <2>5. SameMacros(s, z)
    BY <1>2, <2>3 DEF SameMacros
  <2> QED
    BY <1>7, <2>4, <2>5, DoneFrom DEF r
<1>8. CASE k # Esc /\ k # Enter /\ (s.state = "SEQUENCE" \/ K!Matches(i, k))
  <2>1. r = K!SequenceKey(i, k)
    BY <1>1, <1>2, <1>3, <1>8 DEF K!InputKey
  <2> QED
    BY <1>8, <2>1 DEF r, i
<1>9. CASE k # Esc /\ k # Enter /\ ~(s.state = "SEQUENCE" \/ K!Matches(i, k)) /\ k \notin Printable
  <2>1. r = K!Drop(i)
    BY <1>1, <1>2, <1>3, <1>9 DEF K!InputKey
  <2>2. Done(i, r) /\ r.did = [what |-> "drop"]
    BY <1>4, <2>1, DropDone
  <2> QED
    BY <1>4, <1>9, <2>2, DoneFrom DEF r, i
<1>10. CASE k # Esc /\ k # Enter /\ ~(s.state = "SEQUENCE" \/ K!Matches(i, k)) /\ k \in Printable
  <2> DEFINE z == K!Clear(i)
             d == [what |-> "insert"]
             y == [z EXCEPT !.did = d]
             f == OnChange[z.mode]
  <2>1. r = K!Call(y, f)
    BY <1>1, <1>2, <1>3, <1>10 DEF K!InputKey, K!AddChar
  <2>2. Sound(z)
    BY <1>4, ClearSound
  <2>3. f \in Callbacks \cup {None}
    <3>1. z.mode \in Modes
      BY <2>2 DEF Sound, LfmType
    <3> QED
      BY <1>5, <3>1
  <2>4. d \in DidType
    BY DEF DidType
  <2> HIDE DEF d, f
  <2>5. Sound(y) /\ SameMacros(i, y) /\ Quiet(y) /\ y.did = d
    BY <1>4, <2>4, ClearedSound
  <2> HIDE DEF y
  <2>6. Done(y, r) /\ r.did = d
    BY <2>1, <2>3, <2>5, CallDone
  <2>7. SameMacros(s, y)
    BY <1>4, <2>5 DEF SameMacros
  <2>8. Done(s, r)
    BY <2>6, <2>7, DoneFrom
  <2> QED
    BY <1>10, <2>6, <2>8 DEF r, i, d
<1> QED
  BY <1>6, <1>7, <1>8, <1>9, <1>10 DEF r, i

-----------------------------------------------------------------------------
(* Prefixes and suffixes *)

LEMMA PrefixIs ==
  ASSUME NEW S, NEW s \in Seq(S), NEW t \in Seq(S)
  PROVE  K!IsPrefix(s, t) <=> Len(s) <= Len(t) /\ \A i \in 1..Len(s) : s[i] = t[i]
<1>1. Len(s) \in Nat /\ Len(t) \in Nat
  OBVIOUS
<1>2. ASSUME Len(s) <= Len(t)
      PROVE  SubSeq(s, 1, Len(s)) = SubSeq(t, 1, Len(s)) <=> \A i \in 1..Len(s) : s[i] = t[i]
  <2> DEFINE a == SubSeq(s, 1, Len(s))
             b == SubSeq(t, 1, Len(s))
  <2>1. a \in Seq(S) /\ Len(a) = Len(s) /\ \A i \in 1..Len(s) : a[i] = s[i]
    BY <1>1
  <2>2. b \in Seq(S) /\ Len(b) = Len(s) /\ \A i \in 1..Len(s) : b[i] = t[i]
    BY <1>1, <1>2
  <2> HIDE DEF a, b
  <2>3. a = b <=> \A i \in 1..Len(s) : a[i] = b[i]
    BY <2>1, <2>2
  <2>4. a = b <=> \A i \in 1..Len(s) : s[i] = t[i]
    BY <2>1, <2>2, <2>3
  <2> QED
    BY <2>4 DEF a, b
<1> QED
  BY <1>2 DEF K!IsPrefix

LEMMA ReverseIs ==
  ASSUME NEW S, NEW s \in Seq(S)
  PROVE  /\ K!Reverse(s) \in Seq(S) /\ Len(K!Reverse(s)) = Len(s)
         /\ \A i \in 1..Len(s) : K!Reverse(s)[i] = s[Len(s) - i + 1]
BY DEF K!Reverse

LEMMA SuffixIs ==
  ASSUME NEW S, NEW s \in Seq(S), NEW t \in Seq(S)
  PROVE  K!IsSuffix(s, t) <=>
           Len(s) <= Len(t) /\ \A i \in 1..Len(s) : s[Len(s) - i + 1] = t[Len(t) - i + 1]
<1> DEFINE a == K!Reverse(s)
           b == K!Reverse(t)
<1>1. a \in Seq(S) /\ Len(a) = Len(s) /\ \A i \in 1..Len(s) : a[i] = s[Len(s) - i + 1]
  BY ReverseIs
<1>2. b \in Seq(S) /\ Len(b) = Len(t) /\ \A i \in 1..Len(t) : b[i] = t[Len(t) - i + 1]
  BY ReverseIs
<1>3. K!IsSuffix(s, t) <=> K!IsPrefix(a, b)
  BY DEF K!IsSuffix
<1> HIDE DEF a, b
<1>4. K!IsPrefix(a, b) <=> Len(a) <= Len(b) /\ \A i \in 1..Len(a) : a[i] = b[i]
  BY <1>1, <1>2, PrefixIs
<1>5. Len(s) \in Nat /\ Len(t) \in Nat
  OBVIOUS
<1>6. ASSUME Len(s) <= Len(t), NEW i \in 1..Len(s)
      PROVE  a[i] = b[i] <=> s[Len(s) - i + 1] = t[Len(t) - i + 1]
  <2>1. i \in 1..Len(t)
    BY <1>5, <1>6
  <2> QED
    BY <1>1, <1>2, <1>6, <2>1
<1> QED
  BY <1>1, <1>2, <1>3, <1>4, <1>6

\* A key behind both
LEMMA SuffixAppend ==
  ASSUME NEW S, NEW s \in Seq(S), NEW t \in Seq(S), K!IsSuffix(s, t), NEW k \in S
  PROVE  K!IsSuffix(Append(s, k), Append(t, k))
<1> DEFINE a == Append(s, k)
           b == Append(t, k)
<1>0. Len(s) \in Nat /\ Len(t) \in Nat
  OBVIOUS
<1>1. a \in Seq(S) /\ Len(a) = Len(s) + 1 /\ a[Len(s) + 1] = k /\ \A i \in 1..Len(s) : a[i] = s[i]
  OBVIOUS
<1>2. b \in Seq(S) /\ Len(b) = Len(t) + 1 /\ b[Len(t) + 1] = k /\ \A i \in 1..Len(t) : b[i] = t[i]
  OBVIOUS
<1> HIDE DEF a, b
<1>3. Len(s) <= Len(t) /\ \A i \in 1..Len(s) : s[Len(s) - i + 1] = t[Len(t) - i + 1]
  BY SuffixIs
<1>4. ASSUME NEW i \in 1..Len(a)
      PROVE  a[Len(a) - i + 1] = b[Len(b) - i + 1]
  <2>1. CASE i = 1
    <3>1. Len(a) - i + 1 = Len(s) + 1 /\ Len(b) - i + 1 = Len(t) + 1
      BY <1>0, <1>1, <1>2, <2>1
    <3> QED
      BY <1>1, <1>2, <3>1
  <2>2. CASE i # 1
    <3>1. PICK j \in 1..Len(s) : i = j + 1
      <4>1. i - 1 \in 1..Len(s) /\ i = (i - 1) + 1
        BY <1>0, <1>1, <2>2
      <4> QED
        BY <4>1
    <3>2. /\ Len(a) - i + 1 = Len(s) - j + 1 /\ Len(b) - i + 1 = Len(t) - j + 1
          /\ Len(s) - j + 1 \in 1..Len(s) /\ Len(t) - j + 1 \in 1..Len(t)
      BY <1>0, <1>1, <1>2, <1>3, <3>1
    <3>3. s[Len(s) - j + 1] = t[Len(t) - j + 1]
      BY <1>3, <3>1
    <3> QED
      BY <1>1, <1>2, <3>2, <3>3
  <2> QED
    BY <2>1, <2>2
<1>5. K!IsSuffix(a, b)
  <2>1. Len(a) <= Len(b)
    BY <1>0, <1>1, <1>2, <1>3
  <2> QED
    BY <1>1, <1>2, <1>4, <2>1, SuffixIs
<1> QED
  BY <1>5 DEF a, b

LEMMA EmptySuffix ==
  ASSUME NEW S, NEW t \in Seq(S)
  PROVE  K!IsSuffix(<<>>, t)
<1> DEFINE e == <<>>
<1>1. e \in Seq(S) /\ Len(e) = 0 /\ Len(t) \in Nat
  OBVIOUS
<1> HIDE DEF e
<1>2. K!IsSuffix(e, t)
  <2>1. Len(e) <= Len(t) /\ \A i \in 1..Len(e) : e[Len(e) - i + 1] = t[Len(t) - i + 1]
    BY <1>1
  <2> QED
    BY <1>1, <2>1, SuffixIs
<1> QED
  BY <1>2 DEF e

\* What a longer sequence leads to, a shorter one does.
LEMMA PrefixShorter ==
  ASSUME NEW S, NEW s \in Seq(S), NEW k \in S, NEW t \in Seq(S), K!IsPrefix(Append(s, k), t)
  PROVE  K!IsPrefix(s, t)
<1> DEFINE a == Append(s, k)
<1>1. a \in Seq(S) /\ Len(a) = Len(s) + 1 /\ (\A i \in 1..Len(s) : a[i] = s[i]) /\ Len(s) \in Nat
      /\ Len(t) \in Nat
  OBVIOUS
<1>2. K!IsPrefix(a, t)
  OBVIOUS
<1> HIDE DEF a
<1>3. Len(a) <= Len(t) /\ \A i \in 1..Len(a) : a[i] = t[i]
  BY <1>1, <1>2, PrefixIs
<1>4. Len(s) <= Len(t) /\ \A i \in 1..Len(s) : s[i] = t[i]
  BY <1>1, <1>3
<1> QED
  BY <1>4, PrefixIs

LEMMA PrefixItself ==
  ASSUME NEW S, NEW s \in Seq(S)
  PROVE  K!IsPrefix(s, s)
BY DEF K!IsPrefix

-----------------------------------------------------------------------------
(* Counts *)

IsCount(m, ks, i) ==
  i > 0 => m \notin IsInput /\ ks[1] # 0 /\ \A j \in 1..i : ks[j] \in Digits

\* The first n keys are the count.
Counted(m, ks, n) ==
  n \in 0..Len(ks) /\ IsCount(m, ks, n) /\ (n < Len(ks) => ~IsCount(m, ks, n + 1))

\* The keys that are counted are all those in front that may be.
LEMMA CountedIs ==
  ASSUME NEW m, NEW ks \in Seq(Keys), NEW n, Counted(m, ks, n)
  PROVE  n = K!Max({i \in 0..Len(ks) : IsCount(m, ks, i)})
<1> DEFINE T == {i \in 0..Len(ks) : IsCount(m, ks, i)}
<1>1. Len(ks) \in Nat /\ n \in 0..Len(ks) /\ n \in T
  BY DEF Counted
<1>2. ASSUME NEW i \in T
      PROVE  i <= n
  <2> SUFFICES ASSUME ~(i <= n)
               PROVE  FALSE
    OBVIOUS
  <2>1. i \in 0..Len(ks) /\ IsCount(m, ks, i)
    OBVIOUS
  <2>2. n + 1 <= i /\ n < Len(ks) /\ i > 0
    BY <1>1, <2>1
  <2>3. IsCount(m, ks, n + 1)
    BY <1>1, <2>1, <2>2 DEF IsCount
  <2> QED
    BY <2>2, <2>3 DEF Counted
<1>3. \E x \in T : \A y \in T : x >= y
  BY <1>1, <1>2
<1>4. K!Max(T) \in T /\ \A y \in T : K!Max(T) >= y
  <2> HIDE DEF T
  <2> QED
    BY <1>3 DEF K!Max
<1> HIDE DEF T
<1>5. K!Max(T) <= n /\ K!Max(T) >= n
  BY <1>1, <1>2, <1>4
<1>6. K!Max(T) \in 0..Len(ks)
  BY <1>4 DEF T
<1>7. n = K!Max(T)
  BY <1>1, <1>5, <1>6
<1> QED
  BY <1>7 DEF T

LEMMA CountedMore ==
  ASSUME NEW m, NEW ks \in Seq(Keys), NEW k \in Keys, NEW n, Counted(m, ks, n)
  PROVE  LET more == Append(ks, k)
         IN /\ n < Len(ks) \/ ~IsCount(m, more, n + 1) => Counted(m, more, n)
            /\ n = Len(ks) /\ IsCount(m, more, n + 1) => Counted(m, more, n + 1)
<1> DEFINE more == Append(ks, k)
<1>1. /\ more \in Seq(Keys) /\ Len(more) = Len(ks) + 1 /\ Len(ks) \in Nat
      /\ \A i \in 1..Len(ks) : more[i] = ks[i]
  OBVIOUS
<1> HIDE DEF more
<1>2. ASSUME NEW i \in 0..Len(ks)
      PROVE  IsCount(m, more, i) <=> IsCount(m, ks, i)
  <2>1. CASE i = 0
    BY <2>1 DEF IsCount
  <2>2. CASE i > 0
    <3>1. 1 \in 1..Len(ks) /\ \A j \in 1..i : j \in 1..Len(ks)
      BY <1>1, <2>2
    <3>2. more[1] = ks[1] /\ \A j \in 1..i : more[j] = ks[j]
      BY <1>1, <3>1
    <3> QED
      BY <3>2 DEF IsCount
  <2> QED
    BY <1>1, <2>1, <2>2
<1>3. n \in 0..Len(ks) /\ n \in Nat
  BY <1>1 DEF Counted
<1>4. ASSUME n < Len(ks) \/ ~IsCount(m, more, n + 1)
      PROVE  Counted(m, more, n)
  <2>1. n \in 0..Len(more) /\ IsCount(m, more, n)
    BY <1>1, <1>2, <1>3 DEF Counted
  <2>2. CASE n < Len(ks)
    <3>1. n + 1 \in 0..Len(ks) /\ ~IsCount(m, ks, n + 1)
      BY <1>1, <1>3, <2>2 DEF Counted
    <3> QED
      BY <1>2, <2>1, <3>1 DEF Counted
  <2>3. CASE ~IsCount(m, more, n + 1)
    BY <2>1, <2>3 DEF Counted
  <2> QED
    BY <1>4, <2>2, <2>3
<1>5. ASSUME n = Len(ks), IsCount(m, more, n + 1)
      PROVE  Counted(m, more, n + 1)
  <2>1. n + 1 \in 0..Len(more) /\ ~(n + 1 < Len(more))
    BY <1>1, <1>3, <1>5
  <2> QED
    BY <1>5, <2>1 DEF Counted
<1> QED
  BY <1>4, <1>5 DEF more

CountOf(ks, n) == IF n = 0 THEN -1 ELSE K!Number(SubSeq(ks, 1, n))
Rest(ks, n) == SubSeq(ks, n + 1, Len(ks))

\* A key more does not change what was counted, and is the last of the rest.
LEMMA RestMore ==
  ASSUME NEW ks \in Seq(Keys), NEW k \in Keys, NEW n \in 0..Len(ks)
  PROVE  /\ SubSeq(Append(ks, k), 1, n) = SubSeq(ks, 1, n)
         /\ Rest(Append(ks, k), n) = Append(Rest(ks, n), k)
         /\ Rest(ks, n) \in Seq(Keys) /\ (Rest(ks, n) = <<>> <=> n = Len(ks))
         /\ Rest(Append(ks, k), n) # <<>>
<1> DEFINE more == Append(ks, k)
           c == SubSeq(more, 1, n)
           d == SubSeq(ks, 1, n)
           r == SubSeq(ks, n + 1, Len(ks))
           e == SubSeq(more, n + 1, Len(more))
           f == Append(r, k)
<1>1. /\ more \in Seq(Keys) /\ Len(more) = Len(ks) + 1 /\ Len(ks) \in Nat
      /\ \A i \in 1..Len(ks) : more[i] = ks[i]
  OBVIOUS
<1>2. more[Len(ks) + 1] = k /\ n \in Nat /\ n <= Len(ks)
  OBVIOUS
<1> HIDE DEF more
<1>3. d \in Seq(Keys) /\ Len(d) = n /\ \A i \in 1..n : d[i] = ks[i]
  BY <1>1, <1>2
<1>4. c \in Seq(Keys) /\ Len(c) = n /\ \A i \in 1..n : c[i] = more[i]
  BY <1>1, <1>2
<1>5. r \in Seq(Keys) /\ Len(r) = Len(ks) - n /\ \A i \in 1..(Len(ks) - n) : r[i] = ks[n + i]
  BY <1>1, <1>2
<1>6. e \in Seq(Keys) /\ Len(e) = Len(ks) - n + 1 /\ \A i \in 1..(Len(ks) - n + 1) : e[i] = more[n + i]
  BY <1>1, <1>2
<1> HIDE DEF c, d, e, r
<1>7. c = d
  <2>1. \A i \in 1..n : c[i] = d[i]
    BY <1>1, <1>2, <1>3, <1>4
  <2> QED
    BY <1>3, <1>4, <2>1
<1>8. f \in Seq(Keys) /\ Len(f) = Len(ks) - n + 1 /\ f[Len(ks) - n + 1] = k
      /\ \A i \in 1..(Len(ks) - n) : f[i] = r[i]
  BY <1>1, <1>2, <1>5
<1> HIDE DEF f
<1>9. ASSUME NEW i \in 1..(Len(ks) - n + 1)
      PROVE  e[i] = f[i]
  <2>1. CASE i = Len(ks) - n + 1
    <3>1. n + i = Len(ks) + 1
      BY <1>1, <1>2, <2>1
    <3> QED
      BY <1>2, <1>6, <1>8, <2>1, <3>1
  <2>2. CASE i # Len(ks) - n + 1
    <3>1. i \in 1..(Len(ks) - n) /\ n + i \in 1..Len(ks)
      BY <1>1, <1>2, <2>2
    <3> QED
      BY <1>1, <1>5, <1>6, <1>8, <3>1
  <2> QED
    BY <2>1, <2>2
<1>10. e = f
  BY <1>6, <1>8, <1>9
<1>11. r = <<>> <=> n = Len(ks)
  BY <1>1, <1>2, <1>5
<1>12. e # <<>>
  BY <1>1, <1>2, <1>6
<1> QED
  BY <1>5, <1>7, <1>10, <1>11, <1>12 DEF c, d, e, f, r, more, Rest

\* A digit more
LEMMA CountMore ==
  ASSUME KAssumptions, NEW m, NEW ks \in Seq(Keys), NEW k \in Digits,
         IsCount(m, ks, Len(ks))
  PROVE  /\ CountOf(Append(ks, k), Len(ks) + 1) =
              IF ks = <<>> THEN k ELSE CountOf(ks, Len(ks)) * 10 + k
         /\ ks # <<>> => CountOf(ks, Len(ks)) \in Nat
<1>1. Digits \subseteq Nat /\ k \in Keys
  BY DEF KAssumptions, K!KeysAssumption
<1>2. ks \in Seq(Nat)
  <2>1. CASE ks = <<>>
    BY <2>1
  <2>2. CASE ks # <<>>
    <3>1. Len(ks) > 0 /\ Len(ks) \in Nat /\ ks = [i \in 1..Len(ks) |-> ks[i]]
      BY <2>2
    <3>2. \A i \in 1..Len(ks) : ks[i] \in Nat
      BY <1>1, <3>1 DEF IsCount
    <3> QED
      BY <3>1, <3>2
  <2> QED
    BY <2>1, <2>2
<1>3. /\ K!Number(<<>>) = 0
      /\ \A s \in Seq(Nat), x \in Nat : K!Number(Append(s, x)) = Shifted(K!Number(s), x)
  BY NumberStep
<1>4. K!Number(Append(ks, k)) = K!Number(ks) * 10 + k
  <2>1. k \in Nat
    BY <1>1
  <2>2. K!Number(Append(ks, k)) = Shifted(K!Number(ks), k)
    BY <1>2, <1>3, <2>1
  <2> QED
    BY <2>2 DEF Shifted
<1>5. SubSeq(ks, 1, Len(ks)) = ks /\ Len(ks) \in Nat
  OBVIOUS
<1>6. SubSeq(Append(ks, k), 1, Len(ks) + 1) = Append(ks, k)
  <2> DEFINE more == Append(ks, k)
  <2>1. more \in Seq(Keys) /\ Len(more) = Len(ks) + 1
    BY <1>1
  <2> HIDE DEF more
  <2>2. SubSeq(more, 1, Len(more)) = more
    BY <2>1
  <2> QED
    BY <2>1, <2>2 DEF more
<1>7. K!Number(ks) \in Nat
  <2> DEFINE T == {s \in Seq(Nat) : K!Number(s) \in Nat}
  <2>1. <<>> \in T
    BY <1>3
  <2>2. \A s \in Seq(Nat) : s \in T => \A x \in Nat : Append(s, x) \in T
    <3> SUFFICES ASSUME NEW s \in Seq(Nat), K!Number(s) \in Nat, NEW x \in Nat
                 PROVE  Append(s, x) \in Seq(Nat) /\ K!Number(Append(s, x)) \in Nat
      OBVIOUS
    <3>1. K!Number(Append(s, x)) = Shifted(K!Number(s), x)
      BY <1>3
    <3>2. Shifted(K!Number(s), x) \in Nat
      BY DEF Shifted
    <3> QED
      BY <3>1, <3>2
  <2>3. Seq(Nat) \subseteq T
    <3> HIDE DEF T
    <3> QED
      BY <2>1, <2>2, SeqIndSet
  <2> QED
    BY <1>2, <2>3
<1>8. CASE ks = <<>>
  <2>1. CountOf(Append(ks, k), Len(ks) + 1) = K!Number(Append(ks, k))
    <3>1. Len(ks) + 1 # 0
      BY <1>5
    <3> QED
      BY <1>6, <3>1 DEF CountOf
  <2> QED
    BY <1>1, <1>3, <1>4, <1>8, <2>1
<1>9. CASE ks # <<>>
  <2>1. Len(ks) # 0
    BY <1>9
  <2>2. CountOf(Append(ks, k), Len(ks) + 1) = K!Number(Append(ks, k))
        /\ CountOf(ks, Len(ks)) = K!Number(ks)
    <3>1. Len(ks) + 1 # 0
      BY <1>5
    <3>2. CountOf(Append(ks, k), Len(ks) + 1) = K!Number(Append(ks, k))
      BY <1>6, <3>1 DEF CountOf
    <3>3. CountOf(ks, Len(ks)) = K!Number(ks)
      BY <1>5, <2>1 DEF CountOf
    <3> QED
      BY <3>2, <3>3
  <2> QED
    BY <1>4, <1>7, <1>9, <2>2
<1> QED
  BY <1>8, <1>9

-----------------------------------------------------------------------------
(* What keys ask for *)

Begins(t, path) == \E x \in DOMAIN maps[t] : K!IsPrefix(path, x)
NodeAt(t, path) == [trie |-> t, path |-> path]
NodeOf(t, path) == IF path = <<>> \/ Begins(t, path) THEN NodeAt(t, path) ELSE K!NoNode
BaseNode(m, path) ==
  IF K!TrieOf(m) = K!BaseOf(m) THEN K!NoNode ELSE NodeOf(K!BaseOf(m), path)

\* A child is the node of a key more.
LEMMA ChildNode ==
  ASSUME KAssumptions, MapsOK, NEW t \in DOMAIN maps, NEW path \in Seq(Keys), NEW k \in Keys
  PROVE  LET longer == Append(path, k)
             c == K!Child(NodeOf(t, path), k)
         IN /\ c = NodeOf(t, longer)
            /\ c # K!NoNode <=> Begins(t, longer)
            /\ K!IsLeaf(c) <=> longer \in DOMAIN maps[t]
            /\ K!IsLeaf(c) => c = NodeAt(t, longer)
<1> DEFINE longer == Append(path, k)
           c == K!Child(NodeOf(t, path), k)
<1>1. longer \in Seq(Keys) /\ longer # <<>>
  OBVIOUS
<1>2. NodeAt(t, longer) # K!NoNode /\ NodeAt(t, path) # K!NoNode
  <2>1. t # None
    BY DEF MapsOK, KAssumptions, K!NoneAssumption
  <2> QED
    BY <2>1 DEF NodeAt, K!NoNode
<1>3. Begins(t, longer) => Begins(t, path)
  <2> SUFFICES ASSUME NEW x \in DOMAIN maps[t], K!IsPrefix(longer, x)
               PROVE  K!IsPrefix(path, x)
    BY DEF Begins
  <2>1. x \in Seq(Keys)
    BY DEF MapsOK
  <2> QED
    BY <2>1, PrefixShorter
<1>4. longer \in DOMAIN maps[t] => Begins(t, longer)
  BY <1>1, PrefixItself DEF Begins
<1>5. [NodeAt(t, path) EXCEPT !.path = Append(@, k)] = NodeAt(t, longer)
  <2>1. \A p, l : [[trie |-> t, path |-> p] EXCEPT !.path = l] = [trie |-> t, path |-> l]
    OBVIOUS
  <2>2. [NodeAt(t, path) EXCEPT !.path = Append(@, k)]
          = [NodeAt(t, path) EXCEPT !.path = longer]
    <3>1. NodeAt(t, path).path = path
      BY DEF NodeAt
    <3> QED
      BY <3>1
  <2> HIDE DEF longer
  <2> QED
    BY <2>1, <2>2 DEF NodeAt
<1>6. K!IsNode(NodeAt(t, longer)) <=> Begins(t, longer)
  BY DEF K!IsNode, K!Mapped, Begins, NodeAt
<1> HIDE DEF longer
<1>7. CASE NodeOf(t, path) = K!NoNode
  <2>1. c = K!NoNode
    BY <1>7 DEF K!Child
  <2>2. ~Begins(t, path) /\ ~Begins(t, longer)
    BY <1>2, <1>3, <1>7 DEF NodeOf
  <2>3. NodeOf(t, longer) = K!NoNode /\ ~K!IsLeaf(c)
    BY <1>1, <2>1, <2>2 DEF NodeOf, K!IsLeaf
  <2> QED
    BY <1>4, <2>1, <2>2, <2>3 DEF longer
<1>8. CASE NodeOf(t, path) # K!NoNode
  <2>1. NodeOf(t, path) = NodeAt(t, path)
    BY <1>8 DEF NodeOf
  <2>2. c = IF Begins(t, longer) THEN NodeAt(t, longer) ELSE K!NoNode
    BY <1>2, <1>5, <1>6, <2>1 DEF K!Child
  <2>3. c = NodeOf(t, longer)
    BY <1>1, <2>2 DEF NodeOf
  <2>4. K!IsLeaf(c) <=> longer \in DOMAIN maps[t]
    BY <1>2, <1>4, <2>2 DEF K!IsLeaf, K!Mapped, NodeAt
  <2> QED
    BY <1>2, <1>4, <2>2, <2>3, <2>4 DEF longer, K!IsLeaf
<1> QED
  BY <1>7, <1>8

LEMMA ChildBase ==
  ASSUME KAssumptions, MapsOK, NEW m, NEW path \in Seq(Keys), NEW k \in Keys
  PROVE  LET longer == Append(path, k)
             c == K!Child(BaseNode(m, path), k)
             t == K!BaseOf(m)
         IN /\ c = BaseNode(m, longer)
            /\ K!TrieOf(m) # t =>
                 /\ c # K!NoNode <=> Begins(t, longer)
                 /\ K!IsLeaf(c) <=> longer \in DOMAIN maps[t]
            /\ K!IsLeaf(c) => c = NodeAt(t, longer)
            /\ K!TrieOf(m) = t => c = K!NoNode /\ ~K!IsLeaf(c)
<1>1. CASE K!TrieOf(m) = K!BaseOf(m)
  BY <1>1 DEF BaseNode, K!Child, K!IsLeaf
<1>2. CASE K!TrieOf(m) # K!BaseOf(m)
  <2>1. BaseNode(m, path) = NodeOf(K!BaseOf(m), path)
        /\ BaseNode(m, Append(path, k)) = NodeOf(K!BaseOf(m), Append(path, k))
    BY <1>2 DEF BaseNode
  <2>2. K!BaseOf(m) \in DOMAIN maps
    BY BaseType
  <2> QED
    BY <1>2, <2>1, <2>2, ChildNode
<1> QED
  BY <1>1, <1>2

\* The state in mode m after keys, the first n of them the count
Placed(s, m, ks, n) ==
  /\ s.mode = m /\ Counted(m, ks, n)
  /\ s.cur = NodeOf(K!TrieOf(m), Rest(ks, n)) /\ s.cur_base = BaseNode(m, Rest(ks, n))
  /\ s.count = CountOf(ks, n)
  /\ n < Len(ks) => s.cur # K!NoNode \/ s.cur_base # K!NoNode
  /\ s.state = IF n < Len(ks) THEN "SEQUENCE" ELSE IF ks = <<>> THEN "IDLE" ELSE "COUNT"

\* Asked, of keys whose count is known
AskedFrom(m, ks, n) ==
  LET path == Rest(ks, n)
      own == K!Mapped(K!TrieOf(m))
      base == K!Mapped(K!BaseOf(m))
      run(t) == [what |-> "run", function |-> maps[t][path], count |-> CountOf(ks, n)]
  IN IF K!Last(ks) = Esc \/ (K!Last(ks) = Enter /\ m \in IsInput) THEN {None, [what |-> "drop"]}
     ELSE IF path = <<>> THEN {[what |-> "count"]}
     ELSE IF path \in own THEN {run(K!TrieOf(m))}
     ELSE IF path \in base THEN {run(K!BaseOf(m))}
     ELSE IF \E s \in own \cup base : K!IsPrefix(path, s) THEN {[what |-> "wait"]}
     ELSE IF m \in IsInput /\ Len(ks) = 1 /\ ks[1] \in Printable THEN {[what |-> "insert"]}
     ELSE {[what |-> "drop"]}

LEMMA AskedIs ==
  ASSUME NEW m, NEW ks \in Seq(Keys), NEW n, Counted(m, ks, n)
  PROVE  K!Asked(m, ks) = AskedFrom(m, ks, n)
<1>1. K!Max({i \in 0..Len(ks) : IsCount(m, ks, i)}) = n
  BY CountedIs
<1>2. K!Max({i \in 0..Len(ks) : i > 0 => /\ m \notin IsInput /\ ks[1] # 0
                                        /\ \A j \in 1..i : ks[j] \in Digits}) = n
  BY <1>1 DEF IsCount
<1> QED
  BY <1>2 DEF K!Asked, AskedFrom, Rest, CountOf

LEMMA LastAppend ==
  ASSUME NEW ks \in Seq(Keys), NEW k \in Keys
  PROVE  K!Last(Append(ks, k)) = k
BY DEF K!Last

\* A key that goes on with a sequence, or begins one
LEMMA SequenceAsked ==
  ASSUME KAssumptions, MapsOK, NEW i, Sound(i), Untimed(i), NodesOK(i),
         NEW m, NEW ks \in Seq(Keys), NEW n, Placed(i, m, ks, n), NEW k \in Keys,
         k # Esc, ~(k = Enter /\ m \in IsInput),
         n < Len(ks) \/ ~IsCount(m, Append(ks, k), n + 1)
  PROVE  LET r == K!SequenceKey(i, k)
             plain == m \in IsInput /\ ks = <<>>
         IN /\ ~plain \/ K!Matches(i, k) =>
                 /\ r.did \in K!Asked(m, Append(ks, k))
                 /\ r.state # "IDLE" => Placed(r, m, Append(ks, k), n)
            /\ plain /\ ~K!Matches(i, k) =>
                 K!Asked(m, Append(ks, k)) =
                   {[what |-> IF k \in Printable THEN "insert" ELSE "drop"]}
<1> DEFINE r == K!SequenceKey(i, k)
           more == Append(ks, k)
           t == K!TrieOf(m)
           b == K!BaseOf(m)
           path == Rest(ks, n)
           longer == Append(path, k)
<1>1. n \in 0..Len(ks) /\ Counted(m, ks, n) /\ Counted(m, more, n)
  BY CountedMore DEF Placed, Counted
<1>2. /\ SubSeq(more, 1, n) = SubSeq(ks, 1, n) /\ Rest(more, n) = longer
      /\ path \in Seq(Keys) /\ longer # <<>>
  <2>1. /\ SubSeq(Append(ks, k), 1, n) = SubSeq(ks, 1, n)
        /\ Rest(Append(ks, k), n) = Append(Rest(ks, n), k)
        /\ Rest(ks, n) \in Seq(Keys)
    BY <1>1, RestMore
  <2>2. longer # <<>>
    <3> HIDE DEF path
    <3> QED
      BY <2>1 DEF path
  <2> QED
    BY <2>1, <2>2
<1>3. more \in Seq(Keys) /\ Len(more) = Len(ks) + 1 /\ Len(ks) \in Nat /\ K!Last(more) = k
      /\ longer \in Seq(Keys) /\ n < Len(more) /\ (ks # <<>> => Len(more) # 1)
  BY <1>1, <1>2, LastAppend
<1>4. CountOf(more, n) = CountOf(ks, n) /\ i.count = CountOf(ks, n)
  BY <1>2 DEF CountOf, Placed
<1>5. K!Asked(m, more) = AskedFrom(m, more, n)
  BY <1>1, <1>3, AskedIs
<1>6. t \in DOMAIN maps /\ b \in DOMAIN maps
  BY BaseType DEF Placed, Sound
<1>7. i.cur = NodeOf(t, path) /\ i.cur_base = BaseNode(m, path) /\ i.mode = m
  BY DEF Placed
<1> DEFINE own == K!Child(i.cur, k)
           base == K!Child(i.cur_base, k)
<1>8. /\ own = NodeOf(t, longer) /\ (own # K!NoNode <=> Begins(t, longer))
      /\ K!IsLeaf(own) <=> longer \in DOMAIN maps[t]
      /\ K!IsLeaf(own) => own = NodeAt(t, longer)
  <2> HIDE DEF t, path
  <2> QED
    BY <1>2, <1>6, <1>7, ChildNode
<1>9. /\ base = BaseNode(m, longer)
      /\ t # b => (base # K!NoNode <=> Begins(b, longer))
      /\ t # b => (K!IsLeaf(base) <=> longer \in DOMAIN maps[b])
      /\ K!IsLeaf(base) => base = NodeAt(b, longer)
      /\ t = b => base = K!NoNode /\ ~K!IsLeaf(base)
  <2> HIDE DEF path
  <2> QED
    BY <1>2, <1>7, ChildBase
<1>10. K!Matches(i, k) <=> Begins(t, longer) \/ Begins(b, longer)
  <2>1. K!Matches(i, k) <=> own # K!NoNode \/ base # K!NoNode
    BY DEF K!Matches
  <2> HIDE DEF own, base, t, b, longer
  <2> QED
    BY <2>1, <1>8, <1>9
<1>11. /\ K!IsLeaf(own) => Done(i, r) /\ r.did = Ran(own, i.count)
       /\ ~K!IsLeaf(own) /\ K!IsLeaf(base) => Done(i, r) /\ r.did = Ran(base, i.count)
       /\ ~K!IsLeaf(own) /\ ~K!IsLeaf(base) /\ K!Matches(i, k) => r = K!Advance(i, k)
       /\ ~K!Matches(i, k) => Done(i, r) /\ r.did = [what |-> "drop"]
  BY SequenceCases
<1>12. AskedFrom(m, more, n) =
         IF longer \in DOMAIN maps[t] THEN {Ran(NodeAt(t, longer), i.count)}
         ELSE IF longer \in DOMAIN maps[b] THEN {Ran(NodeAt(b, longer), i.count)}
         ELSE IF Begins(t, longer) \/ Begins(b, longer) THEN {[what |-> "wait"]}
         ELSE IF m \in IsInput /\ Len(more) = 1 /\ more[1] \in Printable THEN {[what |-> "insert"]}
         ELSE {[what |-> "drop"]}
  <2>1. AskedFrom(m, more, n) =
         IF longer \in DOMAIN maps[t] THEN {Ran(NodeAt(t, longer), i.count)}
         ELSE IF longer \in DOMAIN maps[b] THEN {Ran(NodeAt(b, longer), i.count)}
         ELSE IF \E s \in DOMAIN maps[t] \cup DOMAIN maps[b] : K!IsPrefix(longer, s)
         THEN {[what |-> "wait"]}
         ELSE IF m \in IsInput /\ Len(more) = 1 /\ more[1] \in Printable THEN {[what |-> "insert"]}
         ELSE {[what |-> "drop"]}
    <3> HIDE DEF more, longer, t, b
    <3> QED
      BY <1>2, <1>3, <1>4 DEF AskedFrom, K!Mapped, Ran, NodeAt, t, b
  <2>2. (\E s \in DOMAIN maps[t] \cup DOMAIN maps[b] : K!IsPrefix(longer, s))
          <=> Begins(t, longer) \/ Begins(b, longer)
    BY DEF Begins
  <2> QED
    BY <2>1, <2>2
<1> HIDE DEF own, base, r, longer, path, more, t, b
<1> DEFINE plain == m \in IsInput /\ ks = <<>>
<1>13. ASSUME ~plain \/ K!Matches(i, k)
       PROVE  r.did \in K!Asked(m, more)
  <2>1. CASE longer \in DOMAIN maps[t]
    BY <1>5, <1>8, <1>11, <1>12, <2>1
  <2>2. CASE longer \notin DOMAIN maps[t] /\ longer \in DOMAIN maps[b]
    BY <1>5, <1>8, <1>9, <1>11, <1>12, <2>2
  <2>3. CASE longer \notin DOMAIN maps[t] /\ longer \notin DOMAIN maps[b]
             /\ (Begins(t, longer) \/ Begins(b, longer))
    <3>1. r = K!Advance(i, k)
      BY <1>8, <1>9, <1>10, <1>11, <2>3
    <3>2. r.did = [what |-> "wait"]
      BY <3>1 DEF K!Advance, Sound, LfmType
    <3> QED
      BY <1>5, <1>12, <2>3, <3>2
  <2>4. CASE longer \notin DOMAIN maps[t] /\ longer \notin DOMAIN maps[b]
             /\ ~(Begins(t, longer) \/ Begins(b, longer))
    <3>1. r.did = [what |-> "drop"]
      BY <1>10, <1>11, <2>4
    <3>2. ~(m \in IsInput /\ Len(more) = 1)
      BY <1>3, <1>10, <1>13, <2>4
    <3> QED
      BY <1>5, <1>12, <2>4, <3>1, <3>2
  <2> QED
    BY <2>1, <2>2, <2>3, <2>4
<1>14. ASSUME r.state # "IDLE"
       PROVE  Placed(r, m, more, n)
  <2>1. r = K!Advance(i, k)
    BY <1>11, <1>14 DEF Done, Quiet
  <2>2. /\ r.mode = i.mode /\ r.count = i.count /\ r.state = "SEQUENCE"
        /\ r.cur = own /\ r.cur_base = base
    BY <2>1 DEF K!Advance, Sound, LfmType, own, base
  <2>3. own # K!NoNode \/ base # K!NoNode
    <3>1. K!Matches(i, k)
      BY <1>11, <1>14 DEF Done, Quiet
    <3> QED
      BY <3>1 DEF K!Matches, own, base
  <2> QED
    BY <1>1, <1>2, <1>3, <1>4, <1>7, <1>8, <1>9, <2>2, <2>3 DEF Placed, t
<1>15. ASSUME plain, ~K!Matches(i, k)
       PROVE  K!Asked(m, more) = {[what |-> IF k \in Printable THEN "insert" ELSE "drop"]}
  <2>1. Len(more) = 1 /\ more[1] = k
    BY <1>15 DEF more
  <2>2. ~Begins(t, longer) /\ ~Begins(b, longer)
    BY <1>10, <1>15
  <2>3. longer \notin DOMAIN maps[t] /\ longer \notin DOMAIN maps[b]
    BY <1>3, <2>2, PrefixItself DEF Begins
  <2>4. K!Asked(m, more) = IF k \in Printable THEN {[what |-> "insert"]} ELSE {[what |-> "drop"]}
    BY <1>5, <1>12, <1>15, <2>1, <2>2, <2>3
  <2> QED
    BY <2>4
<1> QED
  BY <1>13, <1>14, <1>15 DEF r, more


\* Where a key finds the input
LEMMA BegunPlaced ==
  ASSUME KAssumptions, MapsOK, NEW s, Sound(s), NodesOK(s),
         NEW m, NEW ks \in Seq(Keys), s.state = "IDLE" => ks = <<>> /\ m = s.mode,
         NEW n, s.state # "IDLE" => Placed(s, m, ks, n), s.state = "IDLE" => n = 0
  PROVE  Placed(Begun(s), m, ks, n)
<1> DEFINE i == Begun(s)
<1>1. /\ i.mode = s.mode /\ i.state = s.state
      /\ s.state # "IDLE" => i.cur = s.cur /\ i.cur_base = s.cur_base /\ i.count = s.count
      /\ s.state = "IDLE" => /\ i.cur = K!Root(K!TrieOf(s.mode)) /\ i.count = -1
                             /\ i.cur_base = IF K!TrieOf(s.mode) = K!BaseOf(s.mode)
                                             THEN K!NoNode ELSE K!Root(K!BaseOf(s.mode))
  BY BegunSound
<1> HIDE DEF i
<1>2. CASE s.state # "IDLE"
  BY <1>1, <1>2 DEF Placed, i
<1>3. CASE s.state = "IDLE"
  <2>1. ks = <<>> /\ n = 0 /\ m = s.mode /\ Len(ks) = 0
    BY <1>3
  <2>2. Rest(ks, n) = <<>>
    BY <2>1 DEF Rest
  <2>3. CountOf(ks, n) = -1
    BY <2>1 DEF CountOf
  <2>4. \A t : NodeOf(t, <<>>) = K!Root(t)
    BY DEF NodeOf, NodeAt, K!Root
  <2>5. Counted(m, ks, n)
    <3>1. \A j : j \in 0..0 => j = 0
      OBVIOUS
    <3> QED
      BY <2>1, <3>1 DEF Counted, IsCount
  <2>6. i.cur_base = BaseNode(m, Rest(ks, n)) /\ i.cur = NodeOf(K!TrieOf(m), Rest(ks, n))
    BY <1>1, <1>3, <2>1, <2>2, <2>4 DEF BaseNode
  <2> QED
    BY <1>1, <1>3, <2>1, <2>3, <2>5, <2>6 DEF Placed, i
<1> QED
  BY <1>2, <1>3

\* A digit of the count
LEMMA DigitAsked ==
  ASSUME KAssumptions, MapsOK, NEW i, Sound(i), NEW m, NEW ks \in Seq(Keys), NEW n,
         Placed(i, m, ks, n), i.state = "COUNT" \/ i.state = "IDLE",
         NEW k \in Digits, k # Esc, i.state = "IDLE" => k # 0, m \notin IsInput
  PROVE  LET r == K!AccumulateDigit(i, k)
         IN r.did \in K!Asked(m, Append(ks, k)) /\ Placed(r, m, Append(ks, k), n + 1)
<1> DEFINE r == K!AccumulateDigit(i, k)
           more == Append(ks, k)
<1>1. /\ k \in Keys /\ Len(ks) \in Nat /\ more \in Seq(Keys) /\ Len(more) = Len(ks) + 1
      /\ more[Len(ks) + 1] = k /\ \A j \in 1..Len(ks) : more[j] = ks[j]
  BY DEF KAssumptions, K!KeysAssumption
<1>2. /\ n = Len(ks) /\ Counted(m, ks, n) /\ IsCount(m, ks, n)
      /\ (ks = <<>> <=> i.state = "IDLE") /\ i.count = CountOf(ks, n)
  BY <1>1 DEF Placed, Counted
<1>3. ks # <<>> => Len(ks) > 0
  BY <1>1
<1> HIDE DEF more
<1>4. IsCount(m, more, n + 1)
  <2>1. ASSUME NEW j \in 1..(n + 1)
        PROVE  more[j] \in Digits
    <3>1. CASE j = n + 1
      BY <1>1, <1>2, <3>1
    <3>2. CASE j # n + 1
      BY <1>1, <1>2, <1>3, <3>2 DEF IsCount
    <3> QED
      BY <3>1, <3>2
  <2>2. more[1] # 0
    <3>1. CASE ks = <<>>
      BY <1>1, <1>2, <3>1
    <3>2. CASE ks # <<>>
      BY <1>1, <1>2, <1>3, <3>2 DEF IsCount
    <3> QED
      BY <3>1, <3>2
  <2> QED
    BY <2>1, <2>2 DEF IsCount
<1>5. Counted(m, more, n + 1)
  BY <1>1, <1>2, <1>4, CountedMore DEF more
<1>6. /\ CountOf(more, n + 1) = IF ks = <<>> THEN k ELSE i.count * 10 + k
      /\ ks # <<>> => i.count \in Nat
      /\ ks = <<>> => i.count = -1
  <2>1. ks = <<>> => i.count = -1
    BY <1>2 DEF CountOf
  <2> QED
    BY <1>2, <2>1, CountMore DEF more
<1>7. i \in LfmType
  BY DEF Sound
<1>8. /\ r.mode = i.mode /\ r.cur = i.cur /\ r.cur_base = i.cur_base /\ r.state = "COUNT"
      /\ r.did = [what |-> "count"] /\ r.count = IF i.count < 0 THEN k ELSE i.count * 10 + k
  BY <1>7 DEF K!AccumulateDigit, LfmType
<1> HIDE DEF r
<1>9. r.count = CountOf(more, n + 1)
  BY <1>6, <1>8
<1>10. Rest(more, n + 1) = <<>> /\ Rest(ks, n) = <<>>
  <2>1. \A q \in Seq(Keys), j \in Nat : j > Len(q) => SubSeq(q, j, Len(q)) = <<>>
    OBVIOUS
  <2>2. n + 1 \in Nat /\ n + 2 \in Nat /\ (n + 1) + 1 = n + 2 /\ n + 2 > Len(more) /\ n + 1 > Len(ks)
    BY <1>1, <1>2
  <2> QED
    BY <1>1, <2>1, <2>2 DEF Rest
<1>11. Placed(r, m, more, n + 1)
  <2>1. more # <<>> /\ ~(n + 1 < Len(more))
    BY <1>1, <1>2
  <2> QED
    BY <1>5, <1>8, <1>9, <1>10, <2>1 DEF Placed
<1>12. r.did \in K!Asked(m, more)
  <2>1. K!Last(more) = k
    BY <1>1, LastAppend DEF more
  <2>2. K!Asked(m, more) = AskedFrom(m, more, n + 1)
    BY <1>1, <1>5, AskedIs
  <2> QED
    BY <1>8, <1>10, <2>1, <2>2 DEF AskedFrom
<1> QED
  BY <1>11, <1>12 DEF r, more

\* A key does what it asks for.
LEMMA KeyAsked ==
  ASSUME KAssumptions, MapsOK, NEW s, Sound(s), NodesOK(s), Idle(s), NEW k \in Keys,
         NEW m, NEW ks \in Seq(Keys), s.state = "IDLE" => ks = <<>> /\ m = s.mode,
         s.state # "IDLE" => \E n : Placed(s, m, ks, n)
  PROVE  LET r == K!HandleKey(s, k)
         IN /\ r.did \in K!Asked(m, Append(ks, k))
            /\ r.state # "IDLE" => \E n : Placed(r, m, Append(ks, k), n)
<1> DEFINE r == K!HandleKey(s, k)
           i == Begun(s)
           more == Append(ks, k)
<1>1. PICK n : (s.state # "IDLE" => Placed(s, m, ks, n)) /\ (s.state = "IDLE" => n = 0)
  OBVIOUS
<1>2. Placed(i, m, ks, n)
  BY <1>1, BegunPlaced
<1>3. Sound(i) /\ Untimed(i) /\ NodesOK(i) /\ i.state = s.state /\ i.mode = s.mode
  BY BegunSound
<1>4. m = s.mode
  BY <1>2, <1>3 DEF Placed
<1>5. K!Last(more) = k /\ Len(ks) \in Nat /\ more \in Seq(Keys)
  BY LastAppend
<1>6. n \in 0..Len(ks) /\ IsCount(m, ks, n)
      /\ (n < Len(ks) <=> s.state = "SEQUENCE") /\ (s.state = "IDLE" <=> ks = <<>>)
  BY <1>2, <1>3, <1>5 DEF Placed, Counted
<1> HIDE DEF i, r
<1>7. CASE k = Esc \/ (k = Enter /\ m \in IsInput)
  <2>1. r.state = "IDLE" /\ r.did \in {None, [what |-> "drop"]}
    <3>1. CASE m \in IsInput
      BY <1>4, <1>7, <3>1, InputCases DEF Done, Quiet, r
    <3>2. CASE m \notin IsInput
      BY <1>4, <1>7, <3>2, NormalCases DEF Done, Quiet, r
    <3> QED
      BY <3>1, <3>2
  <2>2. K!Asked(m, more) = {None, [what |-> "drop"]}
    <3> HIDE DEF more
    <3> QED
      BY <1>5, <1>7 DEF K!Asked
  <2> QED
    BY <2>1, <2>2 DEF r
<1>8. CASE k # Esc /\ ~(k = Enter /\ m \in IsInput)
  <2> DEFINE q == K!SequenceKey(i, k)
             plain == m \in IsInput /\ ks = <<>>
  <2>1. ASSUME n < Len(ks) \/ ~IsCount(m, more, n + 1)
        PROVE  /\ ~plain \/ K!Matches(i, k) =>
                    /\ q.did \in K!Asked(m, more)
                    /\ q.state # "IDLE" => Placed(q, m, more, n)
               /\ plain /\ ~K!Matches(i, k) =>
                    K!Asked(m, more) = {[what |-> IF k \in Printable THEN "insert" ELSE "drop"]}
    BY <1>2, <1>3, <1>8, <2>1, SequenceAsked
  <2> HIDE DEF q, more
  <2>2. CASE m \in IsInput
    <3>1. ~IsCount(m, more, n + 1)
      BY <1>6, <2>2 DEF IsCount
    <3>2. s.state = "SEQUENCE" <=> ks # <<>>
      BY <1>5, <1>6, <2>2 DEF IsCount
    <3>3. CASE s.state = "SEQUENCE" \/ K!Matches(i, k)
      <4>1. r = q
        BY <1>4, <1>8, <2>2, <3>3, InputCases DEF r, i, q
      <4> QED
        BY <2>1, <3>1, <3>2, <3>3, <4>1 DEF r, more
    <3>4. CASE ~(s.state = "SEQUENCE" \/ K!Matches(i, k))
      <4>1. Done(s, r) /\ r.did = [what |-> IF k \in Printable THEN "insert" ELSE "drop"]
        BY <1>4, <1>8, <2>2, <3>4, InputCases DEF r, i
      <4> QED
        BY <2>1, <2>2, <3>1, <3>2, <3>4, <4>1 DEF r, more, Done, Quiet
    <3> QED
      BY <3>3, <3>4
  <2>3. CASE m \notin IsInput
    <3> DEFINE digit == k \in Digits /\ (s.state = "COUNT" \/ (s.state = "IDLE" /\ k # 0))
    <3>1. r = IF digit THEN K!AccumulateDigit(i, k) ELSE q
      BY <1>4, <1>8, <2>3, NormalCases DEF r, i, q
    <3>2. CASE digit
      <4>1. r.did \in K!Asked(m, more) /\ Placed(r, m, more, n + 1)
        BY <1>2, <1>3, <1>8, <2>3, <3>1, <3>2, DigitAsked DEF more
      <4> QED
        BY <4>1 DEF r, more
    <3>3. CASE ~digit
      <4>1. n < Len(ks) \/ ~IsCount(m, more, n + 1)
        <5> SUFFICES ASSUME n = Len(ks), IsCount(m, more, n + 1)
                     PROVE  FALSE
          BY <1>5, <1>6
        <5>1. n + 1 \in 1..(n + 1) /\ n + 1 > 0 /\ 1 \in 1..(n + 1)
          BY <1>5
        <5>2. more[n + 1] \in Digits /\ more[1] # 0
          BY <5>1 DEF IsCount
        <5>3. more[n + 1] = k
          BY DEF more
        <5>4. s.state = "IDLE" \/ s.state = "COUNT"
          BY <1>2, <1>3 DEF Placed
        <5>5. s.state = "IDLE" => n + 1 = 1
          BY <1>6
        <5> QED
          BY <3>3, <5>2, <5>3, <5>4, <5>5
      <4> QED
        BY <2>1, <2>3, <3>1, <3>3, <4>1 DEF r, more
    <3> QED
      BY <3>2, <3>3
  <2> QED
    BY <2>2, <2>3
<1> QED
  BY <1>7, <1>8

-----------------------------------------------------------------------------
(* Where a key leaves the input *)

At(n, m, ks) ==
  n # K!NoNode => /\ n.trie \in DOMAIN maps /\ n.trie \in {K!TrieOf(m), K!BaseOf(m)}
                  /\ K!IsSuffix(n.path, ks) /\ (n.path # <<>> => K!IsNode(n))

\* The state after keys, that began in mode m
Where(s, m, ks) ==
  /\ ks \in Seq(Keys) /\ K!TrieOf(m) \in DOMAIN maps
  /\ s.seq = ks /\ At(s.cur, m, ks) /\ At(s.cur_base, m, ks)
  /\ s.state = "IDLE" <=> ks = <<>>
  /\ s.state = "IDLE" => s.cur = K!NoNode /\ s.cur_base = K!NoNode
  /\ s.state = "COUNT" => s.count > 0 /\ s.cur.path = <<>> /\ s.cur_base.path = <<>>
  /\ s.clear => s.state = "SEQUENCE" /\ ClearDelay > 0
  /\ s.suggest => SuggestionDelay > 0 /\ (K!SuggestionsComeFirst => s.state = "SEQUENCE")
  /\ K!SuggestionsComeFirst /\ s.menu # None => s.state = "SEQUENCE"

LEMMA WhereNodes ==
  ASSUME NEW s, NEW m, NEW ks, Where(s, m, ks)
  PROVE  NodesOK(s) /\ Idle(s)
<1>1. s.state = "IDLE" => s.cur = K!NoNode /\ s.cur_base = K!NoNode /\ s.seq = <<>>
  BY DEF Where
<1>2. \A n \in {s.cur, s.cur_base} : n # K!NoNode => n.trie \in DOMAIN maps
  BY DEF Where, At
<1> QED
  BY <1>1, <1>2 DEF NodesOK, Idle

LEMMA WherePlace ==
  ASSUME NEW s, NEW m, NEW ks, Where(s, m, ks), NEW r, Place(s, r)
  PROVE  Where(r, m, ks)
<1>1. At(r.cur, m, ks) /\ At(r.cur_base, m, ks)
  BY DEF Where, Place, At
<1>2. r.state = "COUNT" => r.cur.path = <<>> /\ r.cur_base.path = <<>>
  BY DEF Where, Place, K!NoNode
<1>3. /\ r.state = s.state /\ r.seq = s.seq /\ r.count = s.count /\ r.menu = s.menu
      /\ r.clear => s.clear
      /\ r.suggest => s.suggest
  BY DEF Place
<1>4. s.state = "IDLE" => r.cur = K!NoNode /\ r.cur_base = K!NoNode
  BY DEF Where, Place
<1> QED
  BY <1>1, <1>2, <1>3, <1>4 DEF Where

LEMMA WhereQuiet ==
  ASSUME NEW r, Quiet(r), NEW m, K!TrieOf(m) \in DOMAIN maps, r.menu = None
  PROVE  Where(r, m, <<>>)
<1> DEFINE e == <<>>
<1>1. e \in Seq(Keys)
  OBVIOUS
<1>2. r.seq = e
  BY DEF Quiet
<1> HIDE DEF e
<1>3. Where(r, m, e) <=> Where(r, m, <<>>)
  BY DEF e
<1>4. /\ At(r.cur, m, e) /\ At(r.cur_base, m, e) /\ r.state = "IDLE" /\ ~r.clear /\ ~r.suggest
      /\ r.cur = K!NoNode /\ r.cur_base = K!NoNode
  BY DEF At, Quiet, Untimed
<1>5. e = <<>>
  BY DEF e
<1> QED
  BY <1>1, <1>2, <1>3, <1>4, <1>5 DEF Where

\* What becomes of a node when the sequence goes on
LEMMA ChildAt ==
  ASSUME MapsOK, NEW n \in Node, NEW m, NEW ks \in Seq(Keys), At(n, m, ks), NEW k \in Keys
  PROVE  At(K!Child(n, k), m, Append(ks, k)) /\ K!Child(n, k) \in Node
<1> DEFINE c == K!Child(n, k)
           d == [n EXCEPT !.path = Append(n.path, k)]
<1>1. n.path \in Seq(Keys)
  BY DEF Node
<1> DEFINE p == Append(n.path, k)
<1>2. p \in Seq(Keys)
  BY <1>1
<1>3. d.trie = n.trie /\ d.path = p /\ d \in Node
  <2> HIDE DEF p
  <2> QED
    BY <1>2 DEF Node, p
<1>4. c = IF n # K!NoNode /\ K!IsNode(d) THEN d ELSE K!NoNode
  <2>1. d = [n EXCEPT !.path = Append(@, k)]
    OBVIOUS
  <2> HIDE DEF d
  <2> QED
    BY <2>1 DEF K!Child
<1>5. n # K!NoNode => K!IsSuffix(p, Append(ks, k))
  BY <1>1, SuffixAppend DEF At
<1> HIDE DEF c, d, p
<1> QED
  BY <1>3, <1>4, <1>5, NoNodeType DEF At, c

\* The input when its first key is looked at
LEMMA BegunAt ==
  ASSUME KAssumptions, MapsOK, NEW s, Sound(s), NEW m, NEW ks, Where(s, m, ks),
         s.state = "IDLE" => m = s.mode
  PROVE  LET i == Begun(s)
         IN /\ At(i.cur, m, ks) /\ At(i.cur_base, m, ks)
            /\ i.state \in {"IDLE", "COUNT"} => i.cur.path = <<>> /\ i.cur_base.path = <<>>
            /\ s.state = "COUNT" => i.count > 0
            /\ s.state = "IDLE" => i.count = -1
<1> DEFINE i == Begun(s)
<1>1. NodesOK(s)
  BY WhereNodes
<1>2. /\ i.mode = s.mode /\ i.state = s.state
      /\ s.state # "IDLE" => i.cur = s.cur /\ i.cur_base = s.cur_base /\ i.count = s.count
      /\ s.state = "IDLE" => /\ i.cur = K!Root(K!TrieOf(s.mode)) /\ i.count = -1
                             /\ i.cur_base = IF K!TrieOf(s.mode) = K!BaseOf(s.mode)
                                             THEN K!NoNode ELSE K!Root(K!BaseOf(s.mode))
  BY <1>1, BegunSound
<1> HIDE DEF i
<1>3. CASE s.state # "IDLE"
  BY <1>2, <1>3 DEF Where, Sound, LfmType, i
<1>4. CASE s.state = "IDLE"
  <2>1. ks = <<>> /\ m = s.mode /\ K!TrieOf(m) \in DOMAIN maps /\ ks \in Seq(Keys)
    BY <1>4 DEF Where
  <2>2. K!BaseOf(m) \in DOMAIN maps
    BY BaseType
  <2>3. K!IsSuffix(<<>>, ks)
    BY <2>1, EmptySuffix
  <2>4. \A t : K!Root(t).trie = t /\ K!Root(t).path = <<>>
    BY DEF K!Root
  <2>5. K!NoNode.path = <<>>
    BY DEF K!NoNode
  <2>6. \A t \in {K!TrieOf(m), K!BaseOf(m)} : At(K!Root(t), m, ks)
    BY <2>1, <2>2, <2>3, <2>4 DEF At
  <2>7. At(K!NoNode, m, ks)
    BY DEF At
  <2> QED
    BY <1>2, <1>4, <2>1, <2>4, <2>5, <2>6, <2>7 DEF i
<1> QED
  BY <1>3, <1>4

\* accumulate_digit
LEMMA DigitKept ==
  ASSUME KAssumptions, NEW i, Sound(i), Untimed(i), NEW m, NEW ks \in Seq(Keys),
         At(i.cur, m, ks), At(i.cur_base, m, ks), K!TrieOf(m) \in DOMAIN maps,
         i.cur.path = <<>>, i.cur_base.path = <<>>, i.seq = ks,
         i.state \in {"IDLE", "COUNT"}, i.menu = None \/ ~K!SuggestionsComeFirst,
         i.count > 0 \/ i.count = -1, NEW k \in Digits, i.count = -1 => k # 0
  PROVE  LET r == K!AccumulateDigit(i, k)
         IN /\ Sound(r) /\ SameMacros(i, r) /\ Where(r, m, Append(ks, k))
            /\ r.menu = i.menu
<1> DEFINE c == IF i.count < 0 THEN k ELSE i.count * 10 + k
           more == Append(ks, k)
           d == [what |-> "count"]
           r == K!AccumulateDigit(i, k)
           r1 == [i EXCEPT !.state = "COUNT"]
           r2 == [r1 EXCEPT !.count = c]
           r3 == [r2 EXCEPT !.did = d]
           r4 == [r3 EXCEPT !.seq = more]
<1>1. k \in Nat /\ k \in Keys /\ i.count \in Nat \cup {-1}
  <2>1. k \in Keys \cap (0..9)
    BY DEF KAssumptions, K!KeysAssumption
  <2>2. i.count \in Nat \cup {-1}
    BY DEF Sound, LfmType
  <2> QED
    BY <2>1, <2>2
<1>2. c \in Nat /\ c > 0
  BY <1>1
<1>3. more \in Seq(Keys) /\ more # <<>>
  BY <1>1
<1>4. i \in LfmType /\ d \in DidType
  BY DEF Sound, DidType
<1>5. r = [i EXCEPT !.state = "COUNT", !.count = c, !.did = d, !.seq = more]
  <2>1. r = [i EXCEPT !.state = "COUNT", !.count = c, !.did = d,
                      !.seq = IF c > 0 THEN Append(@, k) ELSE @]
    BY DEF K!AccumulateDigit
  <2> HIDE DEF c, r, d
  <2> QED
    BY <1>2, <2>1
<1> HIDE DEF c, d, more, r
<1>6. r1 \in LfmType
  BY <1>4 DEF LfmType
<1>7. r2 \in LfmType
  <2> HIDE DEF r1
  <2> QED
    BY <1>2, <1>6 DEF LfmType
<1>8. r3 \in LfmType
  <2> HIDE DEF r2
  <2> QED
    BY <1>4, <1>7 DEF LfmType
<1>9. r4 \in LfmType
  <2> HIDE DEF r3
  <2> QED
    BY <1>3, <1>8 DEF LfmType
<1>10. r = r4
  BY <1>4, <1>5 DEF LfmType
<1>11. /\ SameMacros(i, r) /\ r.clear = i.clear /\ r.suggest = i.suggest /\ r.mode = i.mode
       /\ r.state = "COUNT" /\ r.count = c /\ r.seq = more /\ r.menu = i.menu
       /\ r.cur = i.cur /\ r.cur_base = i.cur_base
  BY <1>4, <1>5 DEF LfmType, SameMacros
<1>12. Sound(r)
  <2>1. K!TrieOf(r.mode) \in DOMAIN maps
    BY <1>11 DEF Sound
  <2> HIDE DEF r4
  <2> QED
    BY <1>9, <1>10, <1>11, <2>1, SoundSame
<1>13. \A n : At(n, m, ks) /\ n.path = <<>> => At(n, m, more)
  <2>1. K!IsSuffix(<<>>, more)
    BY <1>3, EmptySuffix
  <2> QED
    BY <2>1 DEF At
<1>14. Where(r, m, more)
  BY <1>2, <1>3, <1>11, <1>13 DEF Where, Untimed
<1> QED
  BY <1>11, <1>12, <1>14 DEF r, more

\* process_sequence_key where the sequence goes on
LEMMA AdvanceKept ==
  ASSUME KAssumptions, MapsOK, NEW i, Sound(i), NEW m, NEW ks \in Seq(Keys),
         At(i.cur, m, ks), At(i.cur_base, m, ks), K!TrieOf(m) \in DOMAIN maps,
         i.seq = ks, NEW k \in Keys
  PROVE  LET r == K!Advance(i, k)
         IN /\ Sound(r) /\ SameMacros(i, r) /\ Where(r, m, Append(ks, k))
            /\ r.menu = i.menu
<1> DEFINE more == Append(ks, k)
           d == [what |-> "wait"]
           own == K!Child(i.cur, k)
           base == K!Child(i.cur_base, k)
           c == ClearDelay > 0
           g == SuggestionDelay > 0
           r == K!Advance(i, k)
           r1 == [i EXCEPT !.cur = own]
           r2 == [r1 EXCEPT !.cur_base = base]
           r3 == [r2 EXCEPT !.state = "SEQUENCE"]
           r4 == [r3 EXCEPT !.seq = more]
           r5 == [r4 EXCEPT !.did = d]
           r6 == [r5 EXCEPT !.clear = c]
           r7 == [r6 EXCEPT !.suggest = g]
<1>1. more \in Seq(Keys) /\ more # <<>>
  OBVIOUS
<1>2. i \in LfmType /\ d \in DidType /\ c \in BOOLEAN /\ g \in BOOLEAN
  BY DEF Sound, DidType
<1>3. /\ own \in Node /\ At(own, m, more) /\ base \in Node /\ At(base, m, more)
  <2>1. i.cur \in Node /\ i.cur_base \in Node
    BY <1>2 DEF LfmType
  <2> QED
    BY <2>1, ChildAt
<1>4. r = [i EXCEPT !.cur = own, !.cur_base = base, !.state = "SEQUENCE", !.seq = more,
                    !.did = d, !.clear = c, !.suggest = g]
  BY DEF K!Advance
<1> HIDE DEF own, base, c, g, d, more, r
<1>5. r1 \in LfmType
  BY <1>2, <1>3 DEF LfmType
<1>6. r2 \in LfmType
  <2> HIDE DEF r1
  <2> QED
    BY <1>3, <1>5 DEF LfmType
<1>7. r3 \in LfmType
  <2> HIDE DEF r2
  <2> QED
    BY <1>6 DEF LfmType
<1>8. r4 \in LfmType
  <2> HIDE DEF r3
  <2> QED
    BY <1>1, <1>7 DEF LfmType
<1>9. r5 \in LfmType
  <2> HIDE DEF r4
  <2> QED
    BY <1>2, <1>8 DEF LfmType
<1>10. r6 \in LfmType
  <2> HIDE DEF r5
  <2> QED
    BY <1>2, <1>9 DEF LfmType
<1>11. r7 \in LfmType
  <2> HIDE DEF r6
  <2> QED
    BY <1>2, <1>10 DEF LfmType
<1>12. r = r7
  BY <1>2, <1>4 DEF LfmType
<1>13. /\ SameMacros(i, r) /\ r.clear = c /\ r.suggest = g /\ r.mode = i.mode
       /\ r.state = "SEQUENCE" /\ r.seq = more /\ r.cur = own /\ r.cur_base = base
       /\ r.menu = i.menu
  BY <1>2, <1>4 DEF LfmType, SameMacros
<1>14. Sound(r)
  <2>1. K!TrieOf(r.mode) \in DOMAIN maps
    BY <1>13 DEF Sound
  <2> HIDE DEF r7
  <2> QED
    BY <1>11, <1>12, <1>13, <2>1, SoundSame
<1>15. Where(r, m, more)
  BY <1>1, <1>3, <1>13 DEF Where, c, g
<1> QED
  BY <1>13, <1>14, <1>15 DEF r, more

\* process_sequence_key
LEMMA SequenceKept ==
  ASSUME KAssumptions, MapsOK, NEW i, Sound(i), Untimed(i), NodesOK(i),
         NEW m, NEW ks \in Seq(Keys),
         At(i.cur, m, ks), At(i.cur_base, m, ks), K!TrieOf(m) \in DOMAIN maps,
         i.seq = ks, NEW k \in Keys
  PROVE  LET r == K!SequenceKey(i, k)
         IN /\ Sound(r) /\ Recorded(i, r)
            /\ Quiet(r) \/ Where(r, m, Append(ks, k))
            /\ r.menu \in {None, i.menu}
<1> DEFINE r == K!SequenceKey(i, k)
<1>1. Done(i, r) \/ r = K!Advance(i, k)
  BY SequenceCases
<1> HIDE DEF r
<1>2. CASE Done(i, r)
  BY <1>2 DEF Done, Quiet, r
<1>3. CASE r = K!Advance(i, k)
  <2>1. Sound(r) /\ SameMacros(i, r) /\ Where(r, m, Append(ks, k)) /\ r.menu = i.menu
    BY <1>3, AdvanceKept
  <2>2. Recorded(i, r)
    BY <2>1, PlaceItself, RecordedSame
  <2> QED
    BY <2>1, <2>2 DEF r
<1> QED
  BY <1>1, <1>2, <1>3

\* input_handle_key
LEMMA KeyKept ==
  ASSUME KAssumptions, MapsOK, NEW s, Sound(s), NEW m, NEW ks, Where(s, m, ks),
         s.state = "IDLE" => m = s.mode, NEW k \in Keys
  PROVE  LET r == K!HandleKey(s, k)
         IN /\ Sound(r) /\ Recorded(s, r)
            /\ Where(r, m, IF r.state = "IDLE" THEN <<>> ELSE Append(ks, k))
            /\ r.menu \in {None, s.menu}
<1> DEFINE r == K!HandleKey(s, k)
           i == Begun(s)
<1>1. NodesOK(s) /\ Idle(s) /\ ks \in Seq(Keys) /\ K!TrieOf(m) \in DOMAIN maps /\ s.seq = ks
  BY WhereNodes DEF Where
<1>2. /\ Sound(i) /\ SameMacros(s, i) /\ Untimed(i) /\ NodesOK(i)
      /\ i.mode = s.mode /\ i.state = s.state /\ i.seq = ks /\ i.menu = s.menu
  BY <1>1, BegunSound
<1>3. /\ At(i.cur, m, ks) /\ At(i.cur_base, m, ks)
      /\ i.state \in {"IDLE", "COUNT"} => i.cur.path = <<>> /\ i.cur_base.path = <<>>
      /\ s.state = "COUNT" => i.count > 0
      /\ s.state = "IDLE" => i.count = -1
  BY BegunAt
<1> HIDE DEF r, i
<1>4. Done(s, r) \/ r = K!SequenceKey(i, k)
      \/ (k \in Digits /\ (s.state = "COUNT" \/ (s.state = "IDLE" /\ k # 0))
          /\ r = K!AccumulateDigit(i, k))
  <2>1. CASE s.mode \in IsInput
    BY <1>1, <2>1, InputCases DEF r, i
  <2>2. CASE s.mode \notin IsInput
    BY <1>1, <2>2, NormalCases DEF r, i
  <2> QED
    BY <2>1, <2>2
<1>5. /\ Sound(r) /\ Recorded(s, r) /\ (Quiet(r) \/ Where(r, m, Append(ks, k)))
      /\ r.menu \in {None, s.menu}
  <2>1. CASE Done(s, r)
    BY <2>1 DEF Done, Quiet
  <2>2. CASE r = K!SequenceKey(i, k)
    <3>1. /\ Sound(r) /\ Recorded(i, r) /\ (Quiet(r) \/ Where(r, m, Append(ks, k)))
          /\ r.menu \in {None, i.menu}
      BY <1>1, <1>2, <1>3, <2>2, SequenceKept
    <3> QED
      BY <1>2, <3>1, RecordedFrom
  <2>3. CASE k \in Digits /\ (s.state = "COUNT" \/ (s.state = "IDLE" /\ k # 0))
             /\ r = K!AccumulateDigit(i, k)
    <3>1. i.menu = None \/ ~K!SuggestionsComeFirst
      BY <1>2, <2>3 DEF Where
    <3>2. i.count > 0 \/ i.count = -1
      BY <1>3, <2>3
    <3>3. i.count = -1 => k # 0
      BY <1>3, <2>3
    <3>4. i.state \in {"IDLE", "COUNT"}
      BY <1>2, <2>3
    <3>5. Sound(r) /\ SameMacros(i, r) /\ Where(r, m, Append(ks, k)) /\ r.menu = i.menu
      BY <1>1, <1>2, <1>3, <2>3, <3>1, <3>2, <3>3, <3>4, DigitKept
    <3>6. Recorded(i, r)
      BY <3>5, PlaceItself, RecordedSame
    <3> QED
      BY <1>2, <3>5, <3>6, RecordedFrom
  <2> QED
    BY <1>4, <2>1, <2>2, <2>3
<1>6. CASE r.state = "IDLE"
  <2>1. Append(ks, k) # <<>>
    BY <1>1
  <2>2. Quiet(r)
    BY <1>5, <1>6, <2>1 DEF Where
  <2>3. Where(r, m, <<>>)
    BY <1>1, <2>2, WhereQuiet DEF Quiet
  <2> QED
    BY <1>5, <1>6, <2>3 DEF r
<1>7. CASE r.state # "IDLE"
  BY <1>5, <1>7 DEF Quiet, r
<1> QED
  BY <1>6, <1>7

-----------------------------------------------------------------------------
(* The inductive invariant, of a state s about to be handled or reached *)

Underway(s) ==
  s.state # "IDLE" /\ ~disturbed => \E n : Placed(s, start, typed, n)
KInvOf(s) ==
  /\ MapsOK /\ Sound(s) /\ Where(s, start, typed) /\ Underway(s)
  /\ start \in Modes /\ disturbed \in BOOLEAN
KInv == KInvOf(lfm)

\* Where the input is, apart from macros and keys still to come
SameInput(s, r) ==
  /\ r.state = s.state /\ r.cur = s.cur /\ r.cur_base = s.cur_base
  /\ r.count = s.count /\ r.seq = s.seq /\ r.menu = s.menu
  /\ r.clear = s.clear /\ r.suggest = s.suggest /\ r.mode = s.mode

LEMMA SameKept ==
  ASSUME NEW s, NEW r, KInvOf(s), SameInput(s, r), Sound(r)
  PROVE  KInvOf(r)
<1>1. Where(r, start, typed)
  BY DEF KInvOf, Where, SameInput
<1>2. \A n : Placed(s, start, typed, n) => Placed(r, start, typed, n)
  BY DEF SameInput, Placed
<1>3. Underway(r)
  BY <1>2 DEF KInvOf, Underway, SameInput
<1> QED
  BY <1>1, <1>3 DEF KInvOf

\* A sequence begins in the mode of its first key.
LEMMA WhereIdle ==
  ASSUME NEW s, NEW m, NEW ks, Where(s, m, ks), Sound(s), s.state = "IDLE"
  PROVE  Where(s, s.mode, ks)
BY DEF Where, Sound, At

\* A key from anywhere
LEMMA KeyInv ==
  ASSUME KAssumptions, NEW s, KInvOf(s), NEW k \in Keys, K!Key(s, k), UNCHANGED maps
  PROVE  /\ KInv' /\ Recorded(s, lfm') /\ lfm'.menu \in {None, s.menu}
         /\ last' # None => lfm'.did \in K!Asked(last'.mode, last'.keys)
<1> DEFINE r == K!HandleKey(s, k)
           m == IF s.state = "IDLE" THEN s.mode ELSE start
           ks == Append(typed, k)
           behind == IF r.state = "IDLE" THEN <<>> ELSE ks
<1>1. /\ MapsOK /\ Sound(s) /\ Where(s, start, typed) /\ Underway(s)
      /\ start \in Modes /\ disturbed \in BOOLEAN
  BY DEF KInvOf
<1>2. typed \in Seq(Keys) /\ (s.state = "IDLE" <=> typed = <<>>)
  BY <1>1 DEF Where
<1>3. ks \in Seq(Keys) /\ ks = IF s.state = "IDLE" THEN <<k>> ELSE Append(typed, k)
  <2>1. CASE typed = <<>>
    <3>1. Append(typed, k) = <<k>>
      BY <2>1
    <3> QED
      BY <1>2, <3>1
  <2>2. CASE typed # <<>>
    BY <1>2, <2>2
  <2> QED
    BY <2>1, <2>2
<1> HIDE DEF r, ks
<1>4. /\ lfm' = r /\ start' = m /\ typed' = behind
      /\ last' = IF s.state # "IDLE" /\ disturbed THEN None ELSE [keys |-> ks, mode |-> m]
      /\ disturbed' = (r.state # "IDLE" /\ s.state # "IDLE" /\ disturbed)
  BY <1>3 DEF K!Key, r
<1>5. Where(s, m, typed) /\ m \in Modes
  BY <1>1, WhereIdle DEF Sound, LfmType
<1>6. /\ Sound(r) /\ Recorded(s, r) /\ r.menu \in {None, s.menu} /\ Where(r, m, behind)
  BY <1>1, <1>5, KeyKept DEF r, ks
<1>7. ASSUME ~(s.state # "IDLE" /\ disturbed)
      PROVE  /\ r.did \in K!Asked(m, ks)
             /\ r.state # "IDLE" => \E n : Placed(r, m, ks, n)
  <2>1. NodesOK(s) /\ Idle(s)
    BY <1>1, WhereNodes
  <2>2. s.state # "IDLE" => \E n : Placed(s, m, typed, n)
    BY <1>1, <1>7 DEF Underway
  <2>3. s.state = "IDLE" => typed = <<>> /\ m = s.mode
    BY <1>2
  <2> HIDE DEF m
  <2> QED
    BY <1>1, <1>2, <2>1, <2>2, <2>3, KeyAsked DEF r, ks
<1> HIDE DEF m
<1>8. last' # None => lfm'.did \in K!Asked(last'.mode, last'.keys)
  BY <1>4, <1>7
<1>9. MapsOK' /\ Sound(lfm)'
  BY <1>1, <1>4, <1>6 DEF MapsOK, Sound
<1>10. Where(lfm, start, typed)'
  <2> HIDE DEF behind
  <2>1. At(r.cur, m, behind) /\ At(r.cur_base, m, behind)
    BY <1>6 DEF Where
  <2>2. At(lfm.cur, start, typed)'
    BY <1>4, <2>1 DEF At, K!IsNode, K!Mapped
  <2>3. At(lfm.cur_base, start, typed)'
    BY <1>4, <2>1 DEF At, K!IsNode, K!Mapped
  <2> QED
    BY <1>4, <1>6, <2>2, <2>3 DEF Where
<1>11. Underway(lfm)'
  <2> SUFFICES ASSUME r.state # "IDLE", ~(s.state # "IDLE" /\ disturbed)
               PROVE  (\E n : Placed(lfm, start, typed, n))'
    BY <1>1, <1>4 DEF Underway
  <2>1. PICK n : Placed(r, m, ks, n)
    BY <1>7
  <2>2. typed' = ks
    BY <1>4
  <2>3. Placed(lfm, start, typed, n)'
    BY <1>4, <2>1, <2>2 DEF Placed, NodeOf, Begins, BaseNode
  <2> QED
    BY <2>3
<1>12. start' \in Modes /\ disturbed' \in BOOLEAN
  BY <1>1, <1>4, <1>5
<1> QED
  BY <1>4, <1>6, <1>8, <1>9, <1>10, <1>11, <1>12 DEF KInv, KInvOf

-----------------------------------------------------------------------------
(* What every step keeps *)

\* A recording in the step of an action, as RecordsWhatIsTyped has it
RecordsStep ==
  /\ lfm'.recording # None =>
       lfm'.macros = [lfm'.before EXCEPT ![lfm'.recording] = @ \o lfm'.recorded]
  /\ lfm.recording # None /\ lfm'.recording = None /\ lfm'.recorded # <<>> =>
       lfm'.macros = [lfm'.before EXCEPT ![lfm.recording] = @ \o K!Front(lfm'.recorded)]

\* The menu in the step of an action, as MenuIsComplete has it
MenuStep ==
  /\ lfm'.menu # lfm.menu /\ lfm'.menu # None
  /\ lfm.state = "SEQUENCE" /\ ~disturbed
  => LET path == IF lfm.cur # K!NoNode THEN lfm.cur.path ELSE lfm.cur_base.path
         all == UNION {K!Mapped(t) : t \in {K!TrieOf(start), K!BaseOf(start)}}
     IN {s \in all : /\ K!IsPrefix(path, s)
                     /\ \A p \in all \ {s} : ~(/\ K!IsPrefix(path, p)
                                                /\ K!IsPrefix(K!Folded(p), K!Folded(s)))}
          \subseteq lfm'.menu

Kept == KInv' /\ RecordsStep /\ MenuStep /\ K!KeysDoWhatTheyAsk'

LEMMA RecordsStepFrom ==
  ASSUME NEW s, s.recording = lfm.recording, Recording(lfm)', Recorded(s, lfm')
  PROVE  RecordsStep
BY DEF Recording, Recorded, RecordsStep

LEMMA MenuStepFrom ==
  ASSUME lfm'.menu \in {None, lfm.menu}
  PROVE  MenuStep
BY DEF MenuStep

LEMMA AskedSame ==
  ASSUME UNCHANGED maps, last' # None => lfm'.did \in K!Asked(last'.mode, last'.keys)
  PROVE  K!KeysDoWhatTheyAsk'
<1>1. CASE last' = None
  BY <1>1 DEF K!KeysDoWhatTheyAsk
<1>2. CASE last' # None
  BY <1>2 DEF K!KeysDoWhatTheyAsk, K!Asked, K!Mapped
<1> QED
  BY <1>1, <1>2

LEMMA AskedNothing ==
  ASSUME last' = None
  PROVE  K!KeysDoWhatTheyAsk'
BY DEF K!KeysDoWhatTheyAsk

\* A key of a state that macros and the keys still to come make up with lfm
LEMMA KeyStep ==
  ASSUME KAssumptions, KInv, NEW s, Sound(s), SameInput(lfm, s), s.recording = lfm.recording,
         NEW k \in Keys, K!Key(s, k), UNCHANGED maps
  PROVE  Kept
<1>1. KInvOf(s)
  BY SameKept DEF KInv
<1>2. /\ KInv' /\ Recorded(s, lfm') /\ lfm'.menu \in {None, s.menu}
      /\ last' # None => lfm'.did \in K!Asked(last'.mode, last'.keys)
  BY <1>1, KeyInv
<1>3. RecordsStep
  <2>1. Recording(lfm)'
    BY <1>2 DEF KInv, KInvOf, Sound
  <2> QED
    BY <1>2, <2>1, RecordsStepFrom
<1>4. MenuStep
  BY <1>2, MenuStepFrom DEF SameInput
<1>5. K!KeysDoWhatTheyAsk'
  BY <1>2, AskedSame
<1> QED
  BY <1>2, <1>3, <1>4, <1>5 DEF Kept

\* An element behind the second of two parts
Joined(s, t) == s \o t

LEMMA AppendJoin ==
  ASSUME NEW S, NEW s \in Seq(S), NEW t \in Seq(S), NEW x \in S
  PROVE  Append(Joined(s, t), x) = Joined(s, Append(t, x))
<1>1. Append(s \o t, x) = s \o Append(t, x)
  OBVIOUS
<1> QED
  BY <1>1 DEF Joined

LEMMA PressKept ==
  ASSUME KAssumptions, KInv, NEW k \in Keys, K!Press(k)
  PROVE  Kept
<1> DEFINE n == K!Noted(lfm, k)
           s == K!AddKey(n, k)
           i == lfm.recording
           e == Append(lfm.recorded, k)
           g == [lfm.macros EXCEPT ![i] = Append(lfm.macros[i], k)]
           s1 == [lfm EXCEPT !.recorded = e]
           s2 == [s1 EXCEPT !.macros = g]
<1>1. Sound(lfm) /\ lfm \in LfmType
  BY DEF KInv, KInvOf, Sound
<1>2. K!Key(s, k) /\ UNCHANGED maps
  BY DEF K!Press
<1>3. CASE lfm.recording = None
  <2>1. s = lfm
    BY <1>3 DEF K!Noted, K!AddKey
  <2>2. SameInput(lfm, lfm)
    BY DEF SameInput
  <2> QED
    BY <1>1, <1>2, <2>1, <2>2, KeyStep
<1>4. CASE lfm.recording # None
  <2>1. /\ i \in Macros /\ lfm.recorded \in Seq(Keys) /\ lfm.macros \in [Macros -> Seq(Keys)]
        /\ lfm.before \in [Macros -> Seq(Keys)]
    BY <1>1, <1>4 DEF LfmType
  <2>2. e \in Seq(Keys) /\ lfm.macros[i] \in Seq(Keys) /\ lfm.before[i] \in Seq(Keys)
    BY <2>1
  <2>3. g \in [Macros -> Seq(Keys)]
    <3>1. Append(lfm.macros[i], k) \in Seq(Keys)
      BY <2>2
    <3> QED
      BY <2>1, <3>1
  <2>4. n = s1
    BY <1>4 DEF K!Noted
  <2>5. s1.recording = i /\ s1.macros = lfm.macros
    BY <1>1 DEF LfmType
  <2>6. s = [s1 EXCEPT !.macros[i] = Append(@, k)]
    BY <1>4, <2>4, <2>5 DEF K!AddKey
  <2> HIDE DEF e, n, s
  <2>7. s = s2
    <3> HIDE DEF s1
    <3> QED
      BY <2>5, <2>6
  <2> HIDE DEF i, g
  <2>8. s1 \in LfmType
    BY <1>1, <2>2 DEF LfmType
  <2>9. s \in LfmType
    <3> HIDE DEF s1
    <3> QED
      BY <2>3, <2>7, <2>8 DEF LfmType
  <2>10. /\ SameInput(lfm, s) /\ s.recorded = e /\ s.macros = g /\ s.recording = lfm.recording
         /\ s.before = lfm.before /\ s.playing = lfm.playing /\ s.stack = lfm.stack
    BY <1>1, <2>7 DEF LfmType, SameInput
  <2>11. Recording(s)
    <3>1. lfm.macros = [lfm.before EXCEPT ![i] = lfm.before[i] \o lfm.recorded]
      BY <1>1, <1>4 DEF Sound, Recording, i
    <3>2. g[i] = Append(lfm.before[i] \o lfm.recorded, k)
      BY <2>1, <3>1 DEF g
    <3>3. g[i] = lfm.before[i] \o e
      <4>1. Append(Joined(lfm.before[i], lfm.recorded), k) = Joined(lfm.before[i], e)
        <5> DEFINE a == lfm.before[i]
                   b == lfm.recorded
        <5>1. a \in Seq(Keys) /\ b \in Seq(Keys)
          BY <2>1, <2>2
        <5> HIDE DEF a, b
        <5>2. Append(Joined(a, b), k) = Joined(a, Append(b, k))
          BY <5>1, AppendJoin
        <5> QED
          BY <5>2, Zenon DEF a, b, e
      <4>2. g[i] = Append(Joined(lfm.before[i], lfm.recorded), k)
        BY <3>2 DEF Joined
      <4>3. g[i] = Joined(lfm.before[i], e)
        BY <4>1, <4>2
      <4> QED
        BY <4>3 DEF Joined
    <3>4. \A j \in Macros \ {i} : g[j] = lfm.before[j]
      BY <2>1, <3>1 DEF g
    <3> DEFINE x == lfm.before[i] \o e
    <3> HIDE DEF x
    <3>5. g = [lfm.before EXCEPT ![i] = x]
      <4> DEFINE h == [lfm.before EXCEPT ![i] = x]
      <4>1. \A j \in Macros : g[j] = h[j]
        BY <2>1, <3>3, <3>4 DEF x
      <4>2. DOMAIN h = Macros /\ h = [j \in Macros |-> h[j]]
        BY <2>1
      <4>3. g = [j \in Macros |-> g[j]]
        BY <2>3
      <4> QED
        BY <4>1, <4>2, <4>3
    <3>6. g = [lfm.before EXCEPT ![i] = lfm.before[i] \o e]
      BY <3>5 DEF x
    <3> QED
      BY <2>10, <3>6 DEF Recording, i
  <2>12. Sound(s)
    BY <1>1, <2>9, <2>10, <2>11 DEF Sound, SameInput, Playing
  <2> QED
    BY <1>2, <2>10, <2>12, KeyStep DEF s, n
<1> QED
  BY <1>3, <1>4

\* A key fed or played
LEMMA FeedKept ==
  ASSUME KAssumptions, KInv, K!FeedKey
  PROVE  Kept
<1> DEFINE st == lfm.stack
           f == Head(st)
           g == [f EXCEPT !.keys = Tail(f.keys)]
           u == [st EXCEPT ![1] = g]
           s == [lfm EXCEPT !.stack = u]
<1>1. Sound(lfm) /\ lfm \in LfmType
  BY DEF KInv, KInvOf, Sound
<1>2. st # <<>> /\ f.keys # <<>> /\ UNCHANGED maps
  BY DEF K!FeedKey, K!Waiting
<1>3. st \in Seq(FrameType)
  BY <1>1 DEF LfmType
<1>4. f \in FrameType /\ f = st[1] /\ 1 \in DOMAIN st /\ DOMAIN st = 1..Len(st)
  BY <1>2, <1>3
<1>5. f.keys \in Seq(Keys)
  BY <1>4 DEF FrameType
<1>6. Head(f.keys) \in Keys /\ Tail(f.keys) \in Seq(Keys)
  BY <1>2, <1>5
<1>7. [lfm EXCEPT !.stack[1].keys = Tail(@)] = s
  <2>1. \A l : [l EXCEPT !.stack[1].keys = Tail(@)] =
                 [l EXCEPT !.stack = [l.stack EXCEPT ![1] =
                                        [l.stack[1] EXCEPT !.keys = Tail(l.stack[1].keys)]]]
    OBVIOUS
  <2>2. u = [lfm.stack EXCEPT ![1] = [lfm.stack[1] EXCEPT !.keys = Tail(lfm.stack[1].keys)]]
    BY <1>4
  <2> QED
    BY <2>1, <2>2
<1>8. K!Key(s, Head(f.keys))
  <2>1. K!Key([lfm EXCEPT !.stack[1].keys = Tail(@)], Head(f.keys))
    BY DEF K!FeedKey
  <2> HIDE DEF s, f
  <2> QED
    BY <1>7, <2>1
<1>9. g \in FrameType /\ g.from = f.from
  <2>1. f \in [from : {"feed", "macro", "buffer"}, keys : Seq(Keys)]
    BY <1>4 DEF FrameType
  <2> DEFINE t == Tail(f.keys)
  <2>2. t \in Seq(Keys)
    BY <1>6
  <2> HIDE DEF f, t
  <2> QED
    BY <2>1, <2>2 DEF FrameType, t
<1> HIDE DEF g, f
<1>10. u \in Seq(FrameType) /\ DOMAIN u = DOMAIN st /\ \A i \in DOMAIN st : u[i].from = st[i].from
  <2>1. u \in Seq(FrameType)
    BY <1>3, <1>4, <1>9
  <2>2. DOMAIN u = DOMAIN st /\ u[1] = g /\ \A i \in DOMAIN st \ {1} : u[i] = st[i]
    BY <1>4
  <2> QED
    BY <1>4, <1>9, <2>1, <2>2
<1>11. MacroFrames(u) = MacroFrames(st)
  BY <1>10 DEF MacroFrames
<1> HIDE DEF u
<1>12. s \in LfmType
  BY <1>1, <1>10 DEF LfmType
<1>13. /\ SameInput(lfm, s) /\ s.stack = u /\ s.recording = lfm.recording /\ s.playing = lfm.playing
       /\ s.macros = lfm.macros /\ s.before = lfm.before /\ s.recorded = lfm.recorded
  BY <1>1 DEF LfmType, SameInput
<1> HIDE DEF s
<1>14. Sound(s)
  BY <1>1, <1>11, <1>12, <1>13 DEF Sound, Playing, Recording, SameInput
<1> QED
  BY <1>2, <1>6, <1>8, <1>13, <1>14, KeyStep

\* A key of the buffer
LEMMA BufferKept ==
  ASSUME KAssumptions, KInv, K!BufferKey
  PROVE  Kept
<1> DEFINE f == K!Frame("buffer", <<>>)
           rest == IF K!Waiting THEN <<f>> ELSE lfm.stack
           b == Tail(lfm.buffer)
           k == Head(lfm.buffer)
           s1 == [lfm EXCEPT !.buffer = b]
           s == [s1 EXCEPT !.stack = rest]
<1>1. Sound(lfm) /\ lfm \in LfmType
  BY DEF KInv, KInvOf, Sound
<1>2. lfm.buffer # <<>> /\ UNCHANGED maps
  BY DEF K!BufferKey
<1>3. lfm.buffer \in Seq(Keys) /\ lfm.stack \in Seq(FrameType)
  BY <1>1 DEF LfmType
<1>4. k \in Keys /\ b \in Seq(Keys)
  BY <1>2, <1>3
<1>5. f \in FrameType /\ f.from = "buffer"
  <2>1. <<>> \in Seq(Keys)
    OBVIOUS
  <2> QED
    BY <2>1 DEF K!Frame, FrameType
<1>6. K!Key(s, k)
  <2>1. K!Key([lfm EXCEPT !.buffer = Tail(@), !.stack = rest], k)
    BY DEF K!BufferKey
  <2> HIDE DEF rest, k
  <2>2. [lfm EXCEPT !.buffer = Tail(@), !.stack = rest] = s
    OBVIOUS
  <2> HIDE DEF s
  <2> QED
    BY <2>1, <2>2
<1> HIDE DEF f
<1>7. rest \in Seq(FrameType) /\ MacroFrames(rest) = MacroFrames(lfm.stack)
  <2>1. CASE K!Waiting
    <3>1. lfm.stack = <<>>
      BY <2>1 DEF K!Waiting
    <3>2. <<f>> \in Seq(FrameType) /\ DOMAIN <<f>> = {1} /\ <<f>>[1] = f
      BY <1>5
    <3>3. MacroFrames(lfm.stack) = {}
      BY <3>1 DEF MacroFrames
    <3>4. MacroFrames(<<f>>) = {}
      BY <1>5, <3>2 DEF MacroFrames
    <3> QED
      BY <2>1, <3>2, <3>3, <3>4
  <2>2. CASE ~K!Waiting
    BY <1>3, <2>2
  <2> QED
    BY <2>1, <2>2
<1> HIDE DEF rest, b, k
<1>8. s \in LfmType
  <2>1. s1 \in LfmType
    BY <1>1, <1>4 DEF LfmType
  <2> HIDE DEF s1
  <2> QED
    BY <1>7, <2>1 DEF LfmType
<1>9. /\ SameInput(lfm, s) /\ s.stack = rest /\ s.recording = lfm.recording /\ s.playing = lfm.playing
      /\ s.macros = lfm.macros /\ s.before = lfm.before /\ s.recorded = lfm.recorded
  BY <1>1 DEF LfmType, SameInput
<1> HIDE DEF s
<1>10. Sound(s)
  BY <1>1, <1>7, <1>8, <1>9 DEF Sound, Playing, Recording, SameInput
<1> QED
  BY <1>2, <1>4, <1>6, <1>9, <1>10, KeyStep

\* A step that handles no key: what becomes of the rest
LEMMA OtherStep ==
  ASSUME KInvOf(lfm'), UNCHANGED <<maps, start, typed, disturbed>>, last' = None,
         Recorded(lfm, lfm'), MenuStep
  PROVE  Kept
<1>1. MapsOK' /\ Sound(lfm)'
  BY DEF KInvOf, MapsOK, Sound
<1>2. Where(lfm, start, typed)'
  <2>1. At(lfm'.cur, start, typed) /\ At(lfm'.cur_base, start, typed)
    BY DEF KInvOf, Where
  <2>2. At(lfm.cur, start, typed)'
    BY <2>1 DEF At, K!IsNode, K!Mapped
  <2>3. At(lfm.cur_base, start, typed)'
    BY <2>1 DEF At, K!IsNode, K!Mapped
  <2> QED
    BY <2>2, <2>3 DEF KInvOf, Where
<1>3. Underway(lfm)'
  <2>1. ASSUME NEW n, Placed(lfm', start, typed, n)
        PROVE  Placed(lfm, start, typed, n)'
    BY <2>1 DEF Placed, NodeOf, Begins, BaseNode
  <2> QED
    BY <2>1 DEF KInvOf, Underway
<1>4. KInv'
  BY <1>1, <1>2, <1>3 DEF KInvOf, KInv
<1>5. RecordsStep
  <2>1. Recording(lfm)'
    BY <1>1 DEF Sound
  <2> QED
    BY <2>1, RecordsStepFrom
<1> QED
  BY <1>4, <1>5, AskedNothing DEF Kept

\* The end of a loop over keys
LEMMA EndKept ==
  ASSUME KAssumptions, KInv, K!EndFeed
  PROVE  Kept
<1> DEFINE st == lfm.stack
           f == Head(st)
           u == Tail(st)
           p == lfm.playing /\ f.from # "macro"
           s1 == [lfm EXCEPT !.stack = u]
           s2 == [s1 EXCEPT !.did = None]
           s3 == [s2 EXCEPT !.playing = p]
<1>1. Sound(lfm) /\ lfm \in LfmType
  BY DEF KInv, KInvOf, Sound
<1>2. /\ st # <<>> /\ UNCHANGED <<maps, start, typed, disturbed>> /\ last' = None
      /\ lfm' = [lfm EXCEPT !.stack = Tail(@), !.did = None, !.playing = @ /\ f.from # "macro"]
  BY DEF K!EndFeed, K!Waiting
<1>3. st \in Seq(FrameType)
  BY <1>1 DEF LfmType
<1>4. f \in FrameType /\ u \in Seq(FrameType) /\ st = <<f>> \o u
  BY <1>2, <1>3
<1>5. lfm' = [lfm EXCEPT !.stack = u, !.did = None, !.playing = p]
  BY <1>2
<1>6. MacroFrames(st) = (IF f.from = "macro" THEN {1} ELSE {}) \cup {i + 1 : i \in MacroFrames(u)}
  BY <1>4, Pushed
<1>7. MacroFrames(u) \subseteq 1..Len(u) /\ Len(u) \in Nat
  BY <1>4 DEF MacroFrames
<1>8. Playing(lfm)
  BY <1>1 DEF Sound
<1>9. p \in BOOLEAN
  OBVIOUS
<1>10. /\ p => \E i : MacroFrames(u) = {i}
       /\ ~p => MacroFrames(u) = {}
  <2> HIDE DEF u
  <2>1. CASE f.from = "macro"
    <3>1. PICK i : MacroFrames(st) = {i}
      BY <1>6, <1>8, <2>1 DEF Playing
    <3>2. 1 \in MacroFrames(st) /\ i = 1
      BY <1>6, <2>1, <3>1
    <3>3. \A j \in MacroFrames(u) : j + 1 = 1 /\ j \in Nat
      <4>1. \A j \in MacroFrames(u) : j + 1 \in MacroFrames(st)
        BY <1>6
      <4> QED
        BY <1>7, <3>1, <3>2, <4>1
    <3>4. MacroFrames(u) = {}
      BY <1>7, <3>3
    <3> QED
      BY <2>1, <3>4
  <2>2. CASE f.from # "macro"
    <3>1. MacroFrames(st) = {i + 1 : i \in MacroFrames(u)}
      BY <1>6, <2>2
    <3>2. CASE lfm.playing
      <4>1. PICK i : MacroFrames(st) = {i}
        BY <1>8, <3>2 DEF Playing
      <4>2. PICK j \in MacroFrames(u) : i = j + 1
        BY <3>1, <4>1
      <4>3. \A l \in MacroFrames(u) : l + 1 = i
        BY <3>1, <4>1
      <4>4. \A l \in MacroFrames(u) : l = j
        BY <1>7, <4>2, <4>3
      <4>5. MacroFrames(u) = {j}
        BY <4>2, <4>4
      <4> QED
        BY <2>2, <3>2, <4>5
    <3>3. CASE ~lfm.playing
      <4>1. MacroFrames(st) = {}
        BY <1>8, <3>3 DEF Playing
      <4>2. MacroFrames(u) = {}
        BY <3>1, <4>1
      <4> QED
        BY <3>3, <4>2
    <3> QED
      BY <3>2, <3>3
  <2> QED
    BY <2>1, <2>2
<1>11. p => lfm.playing
  OBVIOUS
<1> HIDE DEF p, u, f
<1>12. lfm' \in LfmType
  <2>1. s1 \in LfmType
    BY <1>1, <1>4 DEF LfmType
  <2>2. s2 \in LfmType
    <3> HIDE DEF s1
    <3>1. None \in DidType
      BY DEF DidType
    <3> QED
      BY <2>1, <3>1 DEF LfmType
  <2>3. s3 \in LfmType
    <3> HIDE DEF s2
    <3> QED
      BY <1>9, <2>2 DEF LfmType
  <2>4. lfm' = s3
    BY <1>1, <1>5 DEF LfmType
  <2> QED
    BY <2>3, <2>4
<1>13. /\ SameInput(lfm, lfm') /\ lfm'.stack = u /\ lfm'.playing = p
       /\ lfm'.recording = lfm.recording /\ lfm'.macros = lfm.macros
       /\ lfm'.before = lfm.before /\ lfm'.recorded = lfm.recorded
  BY <1>1, <1>5 DEF LfmType, SameInput
<1>14. Sound(lfm')
  BY <1>1, <1>8, <1>10, <1>11, <1>12, <1>13 DEF Sound, Playing, Recording, SameInput
<1>15. KInvOf(lfm')
  BY <1>13, <1>14, SameKept DEF KInv
<1>16. Recorded(lfm, lfm')
  BY <1>13 DEF Recorded
<1>17. MenuStep
  BY <1>13, MenuStepFrom DEF SameInput
<1> QED
  BY <1>2, <1>15, <1>16, <1>17, OtherStep

\* What was noted of the last key is forgotten.
LEMMA Forgotten ==
  ASSUME Sound(lfm)
  PROVE  LET r == [lfm EXCEPT !.did = None]
         IN Sound(r) /\ SameMacros(lfm, r) /\ SameInput(lfm, r)
<1> DEFINE r == [lfm EXCEPT !.did = None]
<1>1. None \in DidType
  BY DEF DidType
<1>2. Sound(r) /\ SameMacros(lfm, r)
  BY <1>1, DidSound
<1>3. SameInput(lfm, r)
  BY DEF SameInput, Sound, LfmType
<1> QED
  BY <1>2, <1>3

\* map_clear_timer_cb
LEMMA ClearKept ==
  ASSUME KAssumptions, KInv, K!ClearTimer
  PROVE  Kept
<1> DEFINE z == K!Clear(lfm)
           s1 == [z EXCEPT !.clear = FALSE]
           r == [s1 EXCEPT !.did = None]
<1>1. Sound(lfm) /\ Where(lfm, start, typed) /\ MapsOK /\ start \in Modes
  BY DEF KInv, KInvOf
<1>2. /\ lfm.clear /\ (lfm.suggest => ClearDelay <= SuggestionDelay)
      /\ lfm' = [z EXCEPT !.clear = FALSE, !.did = None]
      /\ typed' = <<>> /\ disturbed' = FALSE /\ last' = None /\ UNCHANGED <<maps, start>>
  BY DEF K!ClearTimer
<1>3. /\ Sound(z) /\ SameMacros(lfm, z) /\ z.mode = lfm.mode /\ z.suggest = lfm.suggest
  BY <1>1, ClearSound
<1>4. z.state = "IDLE" /\ z.cur = K!NoNode /\ z.cur_base = K!NoNode /\ z.seq = <<>> /\ z.menu = None
  BY <1>1 DEF K!Clear, Sound, LfmType
<1> HIDE DEF z
<1>5. z \in LfmType
  BY <1>3 DEF Sound
<1>6. r \in LfmType
  <2>1. s1 \in LfmType
    BY <1>5 DEF LfmType
  <2>2. None \in DidType
    BY DEF DidType
  <2> HIDE DEF s1
  <2> QED
    BY <2>1, <2>2 DEF LfmType
<1>7. /\ SameMacros(z, r) /\ r.mode = z.mode /\ r.state = "IDLE" /\ r.cur = K!NoNode
      /\ r.cur_base = K!NoNode /\ r.seq = <<>> /\ r.menu = None /\ ~r.clear
      /\ r.suggest = lfm.suggest /\ lfm' = r
  BY <1>2, <1>3, <1>4, <1>5 DEF LfmType, SameMacros
<1> HIDE DEF r
<1>8. Sound(r)
  <2>1. K!TrieOf(r.mode) \in DOMAIN maps
    BY <1>3, <1>7 DEF Sound
  <2> QED
    BY <1>3, <1>6, <1>7, <2>1, SoundSame
<1>9. r.suggest => SuggestionDelay > 0 /\ ~K!SuggestionsComeFirst
  BY <1>1, <1>2, <1>7 DEF Where, K!SuggestionsComeFirst, KAssumptions, K!DelaysAssumption
<1>10. MapsOK' /\ Sound(lfm)'
  BY <1>1, <1>2, <1>7, <1>8 DEF MapsOK, Sound
<1>11. Where(lfm, start, typed)'
  <2>0. PICK e \in Seq(Keys) : e = <<>>
    <3>1. <<>> \in Seq(Keys)
      OBVIOUS
    <3> QED
      BY <3>1
  <2>1. At(lfm.cur, start, typed)' /\ At(lfm.cur_base, start, typed)'
    BY <1>7 DEF At
  <2>2. typed' = e /\ typed' \in Seq(Keys) /\ K!TrieOf(start') \in DOMAIN maps'
    BY <1>1, <1>2, <2>0 DEF Where
  <2> QED
    BY <1>2, <1>7, <1>9, <2>1, <2>2 DEF Where
<1>12. KInv'
  <2>1. Underway(lfm)'
    BY <1>7 DEF Underway
  <2> QED
    BY <1>1, <1>2, <1>10, <1>11, <2>1 DEF KInv, KInvOf
<1>13. RecordsStep
  <2>1. Recorded(lfm, lfm')
    BY <1>3, <1>7 DEF Recorded, SameMacros
  <2>2. Recording(lfm)'
    BY <1>10 DEF Sound
  <2> QED
    BY <2>1, <2>2, RecordsStepFrom
<1>14. MenuStep
  BY <1>7, MenuStepFrom
<1> QED
  BY <1>2, <1>12, <1>13, <1>14, AskedNothing DEF Kept

\* A prefix stays one when case is ignored.
LEMMA FoldedPrefix ==
  ASSUME NEW s \in Seq(Keys), NEW t \in Seq(Keys), K!IsPrefix(s, t)
  PROVE  K!IsPrefix(K!Folded(s), K!Folded(t))
<1> DEFINE S == {Fold[x] : x \in Keys}
           a == K!Folded(s)
           b == K!Folded(t)
<1>1. \A q \in Seq(Keys) : DOMAIN q = 1..Len(q) /\ Len(q) \in Nat /\ \A i \in 1..Len(q) : q[i] \in Keys
  OBVIOUS
<1>2. /\ a = [i \in 1..Len(s) |-> Fold[s[i]]] /\ b = [i \in 1..Len(t) |-> Fold[t[i]]]
  BY <1>1 DEF K!Folded
<1>3. a \in [1..Len(s) -> S] /\ b \in [1..Len(t) -> S]
  BY <1>1, <1>2
<1>4. \A n \in Nat : \A f \in [1..n -> S] : f \in Seq(S) /\ Len(f) = n
  OBVIOUS
<1>5. a \in Seq(S) /\ Len(a) = Len(s) /\ b \in Seq(S) /\ Len(b) = Len(t)
  <2> HIDE DEF S, a, b
  <2> QED
    BY <1>1, <1>3, <1>4
<1>6. Len(s) <= Len(t) /\ \A i \in 1..Len(s) : s[i] = t[i]
  BY PrefixIs
<1>7. \A i \in 1..Len(a) : a[i] = b[i]
  <2> HIDE DEF S, a, b
  <2> QED
    BY <1>1, <1>2, <1>5, <1>6
<1> HIDE DEF S, a, b
<1>8. K!IsPrefix(a, b)
  BY <1>5, <1>6, <1>7, PrefixIs
<1> QED
  BY <1>8 DEF a, b

\* Where a sequence that is undisturbed has led
LEMMA SequencePlace ==
  ASSUME KAssumptions, MapsOK, NEW s, NEW m, NEW ks \in Seq(Keys), NEW n, Placed(s, m, ks, n),
         s.state = "SEQUENCE"
  PROVE  LET path == IF s.cur # K!NoNode THEN s.cur.path ELSE s.cur_base.path
             t == K!TrieOf(m)
             b == K!BaseOf(m)
         IN /\ path \in Seq(Keys)
            /\ \A x \in DOMAIN maps[t] : K!IsPrefix(path, x) => s.cur = NodeAt(t, path)
            /\ s.cur # K!NoNode => s.cur = NodeAt(t, path)
            /\ t # b => \A x \in DOMAIN maps[b] : K!IsPrefix(path, x) => s.cur_base = NodeAt(b, path)
<1> DEFINE path == IF s.cur # K!NoNode THEN s.cur.path ELSE s.cur_base.path
           t == K!TrieOf(m)
           b == K!BaseOf(m)
           p == Rest(ks, n)
<1>1. n < Len(ks) /\ n \in 0..Len(ks) /\ (s.cur # K!NoNode \/ s.cur_base # K!NoNode)
      /\ s.cur = NodeOf(t, p) /\ s.cur_base = BaseNode(m, p)
  BY DEF Placed, Counted
<1>2. p \in Seq(Keys) /\ p # <<>>
  <2>1. Len(ks) \in Nat
    OBVIOUS
  <2>2. p \in Seq(Keys) /\ Len(p) = Len(ks) - n
    BY <1>1, <2>1 DEF Rest
  <2> QED
    BY <1>1, <2>1, <2>2
<1> HIDE DEF p, t, b
<1>3. \A u : NodeAt(u, p).path = p
  BY DEF NodeAt
<1>4. s.cur # K!NoNode => s.cur = NodeAt(t, p)
  BY <1>1 DEF NodeOf
<1>5. s.cur_base # K!NoNode => s.cur_base = NodeAt(b, p)
  BY <1>1 DEF NodeOf, BaseNode, b
<1>6. path = p
  BY <1>1, <1>3, <1>4, <1>5
<1>7. \A x \in DOMAIN maps[t] : K!IsPrefix(p, x) => s.cur = NodeAt(t, p)
  BY <1>1 DEF NodeOf, Begins
<1>8. t # b => \A x \in DOMAIN maps[b] : K!IsPrefix(p, x) => s.cur_base = NodeAt(b, p)
  BY <1>1 DEF NodeOf, Begins, BaseNode, t, b
<1> HIDE DEF path
<1> QED
  BY <1>2, <1>4, <1>6, <1>7, <1>8 DEF path, t, b

\* map_suggestion_timer_cb
LEMMA SuggestionKept ==
  ASSUME KAssumptions, KInv, K!SuggestionTimer
  PROVE  Kept
<1> DEFINE g == K!Suggestions
           own == K!Leaves(lfm.cur)
           s1 == [lfm EXCEPT !.suggest = FALSE]
           s2 == [s1 EXCEPT !.menu = g]
           r == [s2 EXCEPT !.did = None]
<1>1. Sound(lfm) /\ Where(lfm, start, typed) /\ MapsOK /\ start \in Modes /\ Underway(lfm)
      /\ lfm \in LfmType /\ disturbed \in BOOLEAN
  BY DEF KInv, KInvOf, Sound
<1>2. /\ lfm.suggest /\ lfm' = [lfm EXCEPT !.suggest = FALSE, !.menu = g, !.did = None]
      /\ last' = None /\ UNCHANGED <<maps, start, typed, disturbed>>
  BY DEF K!SuggestionTimer
<1>3. \A n \in {lfm.cur, lfm.cur_base} : K!Leaves(n) \subseteq Seq(Keys)
  <2>1. \A n \in {lfm.cur, lfm.cur_base} : n # K!NoNode => n.trie \in DOMAIN maps
    BY <1>1, WhereNodes DEF NodesOK
  <2>2. \A t \in DOMAIN maps : DOMAIN maps[t] \subseteq Seq(Keys)
    BY <1>1 DEF MapsOK
  <2>3. \A n : K!Leaves(n) \subseteq IF n = K!NoNode THEN {} ELSE DOMAIN maps[n.trie]
    BY DEF K!Leaves, K!Mapped
  <2> QED
    BY <2>1, <2>2, <2>3
<1>4. g \in SUBSET Seq(Keys)
  BY <1>3 DEF K!Suggestions
<1> HIDE DEF g
<1>5. r \in LfmType
  <2>1. s1 \in LfmType
    BY <1>1 DEF LfmType
  <2>2. s2 \in LfmType
    <3> HIDE DEF s1
    <3> QED
      BY <1>4, <2>1 DEF LfmType
  <2>3. None \in DidType
    BY DEF DidType
  <2> HIDE DEF s2
  <2> QED
    BY <2>2, <2>3 DEF LfmType
<1>6. /\ r.state = lfm.state /\ r.cur = lfm.cur /\ r.cur_base = lfm.cur_base
      /\ r.count = lfm.count /\ r.seq = lfm.seq /\ r.menu = g
      /\ r.clear = lfm.clear /\ ~r.suggest /\ r.mode = lfm.mode
      /\ SameMacros(lfm, r) /\ lfm' = r
  BY <1>1, <1>2 DEF LfmType, SameMacros
<1> HIDE DEF r
<1>7. Sound(r)
  <2>1. K!TrieOf(r.mode) \in DOMAIN maps
    BY <1>1, <1>6 DEF Sound
  <2> QED
    BY <1>1, <1>5, <1>6, <2>1, SoundSame
<1>8. Where(r, start, typed)
  BY <1>1, <1>2, <1>6 DEF Where
<1>9. KInvOf(lfm')
  <2>1. \A n : Placed(lfm, start, typed, n) => Placed(r, start, typed, n)
    BY <1>6 DEF Placed
  <2>2. Underway(r)
    BY <1>1, <1>6, <2>1 DEF Underway
  <2> QED
    BY <1>1, <1>6, <1>7, <1>8, <2>2 DEF KInvOf
<1>10. Recorded(lfm, lfm')
  BY <1>6 DEF SameMacros, Recorded
<1>11. MenuStep
  <2> DEFINE t == K!TrieOf(start)
             b == K!BaseOf(start)
             all == UNION {K!Mapped(x) : x \in {t, b}}
             path == IF lfm.cur # K!NoNode THEN lfm.cur.path ELSE lfm.cur_base.path
  <2> SUFFICES ASSUME lfm.state = "SEQUENCE", ~disturbed, NEW s \in all, K!IsPrefix(path, s),
                      \A p \in all \ {s} : ~(/\ K!IsPrefix(path, p)
                                             /\ K!IsPrefix(K!Folded(p), K!Folded(s)))
               PROVE  s \in g
    BY <1>6 DEF MenuStep
  <2>1. typed \in Seq(Keys) /\ t \in DOMAIN maps /\ b \in DOMAIN maps
    BY <1>1, BaseType DEF Where
  <2>2. PICK n : Placed(lfm, start, typed, n)
    BY <1>1 DEF Underway
  <2>3. /\ path \in Seq(Keys)
        /\ \A x \in DOMAIN maps[t] : K!IsPrefix(path, x) => lfm.cur = NodeAt(t, path)
        /\ lfm.cur # K!NoNode => lfm.cur = NodeAt(t, path)
        /\ t # b => \A x \in DOMAIN maps[b] : K!IsPrefix(path, x) => lfm.cur_base = NodeAt(b, path)
    BY <1>1, <2>1, <2>2, SequencePlace
  <2> HIDE DEF path, t, b
  <2>4. all = DOMAIN maps[t] \cup DOMAIN maps[b]
    BY DEF K!Mapped
  <2> HIDE DEF all
  <2>5. all \subseteq Seq(Keys)
    BY <1>1, <2>1, <2>4 DEF MapsOK
  <2>6. \A u \in DOMAIN maps : NodeAt(u, path) # K!NoNode
                               /\ NodeAt(u, path).trie = u /\ NodeAt(u, path).path = path
    <3>1. None \notin DOMAIN maps
      BY <1>1 DEF MapsOK, KAssumptions, K!NoneAssumption
    <3> QED
      BY <3>1 DEF NodeAt, K!NoNode
  <2>7. \A u \in DOMAIN maps : \A x :
          x \in K!Leaves(NodeAt(u, path)) <=>
            /\ x \in DOMAIN maps[u] /\ K!IsPrefix(path, x)
            /\ \A p \in DOMAIN maps[u] \ {x} : ~(K!IsPrefix(path, p) /\ K!IsPrefix(p, x))
    BY <2>6 DEF K!Leaves, K!Mapped
  <2>8. \A p \in all \ {s} : ~(K!IsPrefix(path, p) /\ K!IsPrefix(p, s))
    BY <2>5, FoldedPrefix
  <2>9. CASE s \in DOMAIN maps[t]
    <3>1. lfm.cur = NodeAt(t, path)
      BY <2>3, <2>9
    <3>2. s \in K!Leaves(lfm.cur)
      BY <2>1, <2>4, <2>7, <2>8, <2>9, <3>1
    <3> QED
      BY <3>2 DEF g, K!Suggestions, K!Shadowed
  <2>10. CASE s \notin DOMAIN maps[t]
    <3>1. s \in DOMAIN maps[b] /\ t # b
      BY <2>4, <2>10
    <3>2. lfm.cur_base = NodeAt(b, path)
      BY <2>3, <3>1
    <3>3. s \in K!Leaves(lfm.cur_base)
      BY <2>1, <2>4, <2>7, <2>8, <3>1, <3>2
    <3>4. ASSUME NEW l \in K!Leaves(lfm.cur)
          PROVE  ~K!IsPrefix(K!Folded(l), K!Folded(s))
      <4>1. lfm.cur # K!NoNode
        BY DEF K!Leaves
      <4>2. l \in DOMAIN maps[t] /\ K!IsPrefix(path, l)
        BY <2>1, <2>3, <2>7, <4>1
      <4>3. l \in all \ {s}
        BY <2>4, <2>10, <4>2
      <4> QED
        BY <4>2, <4>3
    <3> QED
      BY <3>3, <3>4 DEF g, K!Suggestions, K!Shadowed
  <2> QED
    BY <2>9, <2>10
<1> QED
  BY <1>2, <1>9, <1>10, <1>11, OtherStep

\* Lua from a timer or when a process ends
LEMMA ScriptKept ==
  ASSUME KAssumptions, KInv, NEW c \in Scripts, K!RunScript(c)
  PROVE  Kept
<1> DEFINE s == [lfm EXCEPT !.did = None]
<1>1. Sound(lfm) /\ Where(lfm, start, typed) /\ MapsOK /\ start \in Modes /\ Underway(lfm)
      /\ disturbed \in BOOLEAN
  BY DEF KInv, KInvOf
<1>2. /\ lfm' = K!Run(s, c) /\ last' = None /\ UNCHANGED <<maps, start, typed>>
      /\ disturbed' = (lfm.state # "IDLE" /\ (disturbed \/ lfm'.mode # lfm.mode
                                               \/ lfm'.cur_base # lfm.cur_base))
  BY DEF K!RunScript, K!LuaCall
<1>3. Sound(s) /\ SameMacros(lfm, s) /\ SameInput(lfm, s)
  BY <1>1, Forgotten
<1> HIDE DEF s
<1>4. c \in Seq(K!Commands)
  BY DEF KAssumptions, K!CodeAssumption
<1>5. Sound(lfm') /\ Recorded(s, lfm') /\ Place(s, lfm')
  BY <1>2, <1>3, <1>4, RunSound
<1>6. Where(s, start, typed)
  BY <1>1, <1>3, SameKept DEF KInv, KInvOf
<1>7. Where(lfm', start, typed)
  BY <1>5, <1>6, WherePlace
<1>8. MapsOK' /\ Sound(lfm)'
  BY <1>1, <1>2, <1>5 DEF MapsOK, Sound
<1>9. Where(lfm, start, typed)'
  <2>1. At(lfm'.cur, start, typed) /\ At(lfm'.cur_base, start, typed)
    BY <1>7 DEF Where
  <2>2. At(lfm.cur, start, typed)'
    BY <1>2, <2>1 DEF At, K!IsNode, K!Mapped
  <2>3. At(lfm.cur_base, start, typed)'
    BY <1>2, <2>1 DEF At, K!IsNode, K!Mapped
  <2> QED
    BY <1>2, <1>7, <2>2, <2>3 DEF Where
<1>10. Underway(lfm)'
  <2> SUFFICES ASSUME lfm'.state # "IDLE", ~disturbed'
               PROVE  (\E n : Placed(lfm, start, typed, n))'
    BY DEF Underway
  <2>1. /\ lfm'.state = lfm.state /\ lfm'.cur = lfm.cur /\ lfm'.count = lfm.count
    BY <1>3, <1>5 DEF Place, SameInput
  <2>2. lfm.state # "IDLE" /\ ~disturbed /\ lfm'.mode = lfm.mode /\ lfm'.cur_base = lfm.cur_base
    BY <1>1, <1>2, <2>1
  <2>3. PICK n : Placed(lfm, start, typed, n)
    BY <1>1, <2>2 DEF Underway
  <2>4. Placed(lfm, start, typed, n)'
    BY <1>2, <2>1, <2>2, <2>3 DEF Placed, NodeOf, Begins, BaseNode
  <2> QED
    BY <2>4
<1>11. KInv'
  BY <1>1, <1>2, <1>8, <1>9, <1>10 DEF KInv, KInvOf
<1>12. RecordsStep
  <2>1. Recording(lfm)'
    BY <1>8 DEF Sound
  <2>2. s.recording = lfm.recording
    BY <1>3 DEF SameMacros
  <2> QED
    BY <1>5, <2>1, <2>2, RecordsStepFrom
<1>13. MenuStep
  <2>1. lfm'.menu = lfm.menu
    BY <1>3, <1>5 DEF Place, SameInput
  <2> QED
    BY <2>1, MenuStepFrom
<1> QED
  BY <1>2, <1>11, <1>12, <1>13, AskedNothing DEF Kept

\* A change of the mappings that leaves alone the nodes where the input is
LEMMA MapsStep ==
  ASSUME KAssumptions, KInv, lfm' = [lfm EXCEPT !.did = None], UNCHANGED <<start, typed>>,
         last' = None, disturbed' \in BOOLEAN, MapsOK', DOMAIN maps \subseteq DOMAIN maps',
         \A n \in {lfm.cur, lfm.cur_base} :
           n.trie \in DOMAIN maps /\ n.path # <<>> /\ K!IsNode(n) =>
             \E x \in DOMAIN maps'[n.trie] : K!IsPrefix(n.path, x),
         ~disturbed' /\ lfm.state # "IDLE" =>
           ~disturbed /\ \A t \in DOMAIN maps : maps'[t] = maps[t]
  PROVE  Kept
<1>1. Sound(lfm) /\ Where(lfm, start, typed) /\ MapsOK /\ start \in Modes /\ Underway(lfm)
  BY DEF KInv, KInvOf
<1>2. Sound(lfm') /\ SameMacros(lfm, lfm') /\ SameInput(lfm, lfm')
  BY <1>1, Forgotten
<1>3. Sound(lfm)'
  BY <1>2 DEF Sound
<1>4. ASSUME NEW n \in {lfm.cur, lfm.cur_base}, n # K!NoNode
      PROVE  /\ n.trie \in DOMAIN maps' /\ n.trie \in {K!TrieOf(start), K!BaseOf(start)}
             /\ K!IsSuffix(n.path, typed)
             /\ n.path # <<>> => \E x \in DOMAIN maps'[n.trie] : K!IsPrefix(n.path, x)
  <2>1. At(n, start, typed)
    BY <1>1 DEF Where
  <2> QED
    BY <1>4, <2>1 DEF At
<1>5. Where(lfm, start, typed)'
  <2>1. lfm'.cur = lfm.cur /\ lfm'.cur_base = lfm.cur_base
    BY <1>2 DEF SameInput
  <2>2. At(lfm.cur, start, typed)'
    BY <1>4, <2>1 DEF At, K!IsNode, K!Mapped
  <2>3. At(lfm.cur_base, start, typed)'
    BY <1>4, <2>1 DEF At, K!IsNode, K!Mapped
  <2> QED
    BY <1>1, <1>2, <2>2, <2>3 DEF Where, SameInput
<1>6. Underway(lfm)'
  <2> SUFFICES ASSUME lfm'.state # "IDLE", ~disturbed'
               PROVE  (\E n : Placed(lfm, start, typed, n))'
    BY DEF Underway
  <2>1. lfm.state # "IDLE" /\ ~disturbed /\ \A t \in DOMAIN maps : maps'[t] = maps[t]
    BY <1>2 DEF SameInput
  <2>2. PICK n : Placed(lfm, start, typed, n)
    BY <1>1, <2>1 DEF Underway
  <2> DEFINE t == K!TrieOf(start)
             b == K!BaseOf(start)
             p == Rest(typed, n)
  <2>3. t \in DOMAIN maps /\ b \in DOMAIN maps
    BY <1>1, BaseType DEF Where
  <2>4. maps'[t] = maps[t] /\ maps'[b] = maps[b]
    BY <2>1, <2>3
  <2> HIDE DEF t, b, p
  <2>5. lfm.cur = NodeOf(t, p)'
    BY <2>2, <2>4 DEF Placed, NodeOf, Begins, t, p
  <2>6. lfm.cur_base = BaseNode(start, p)'
    BY <2>2, <2>4 DEF Placed, BaseNode, NodeOf, Begins, b, p
  <2>7. Placed(lfm, start, typed, n)'
    BY <1>2, <2>2, <2>5, <2>6 DEF Placed, SameInput, t, b, p, BaseNode, NodeOf, Begins
  <2> QED
    BY <2>7
<1>7. KInv'
  BY <1>1, <1>3, <1>5, <1>6 DEF KInv, KInvOf
<1>8. RecordsStep
  <2>1. Recording(lfm)'
    BY <1>3 DEF Sound
  <2>2. Recorded(lfm, lfm')
    BY <1>2 DEF SameMacros, Recorded
  <2> QED
    BY <2>1, <2>2, RecordsStepFrom
<1>9. MenuStep
  BY <1>2, MenuStepFrom DEF SameInput
<1> QED
  BY <1>7, <1>8, <1>9, AskedNothing DEF Kept

LEMMA SetKept ==
  ASSUME KAssumptions, KInv, NEW w \in NewMaps, K!SetKeymap(w[1], w[2], w[3])
  PROVE  Kept
<1> DEFINE t == w[1]
           s == w[2]
           f == w[3]
           m == [x \in DOMAIN maps[t] \cup {s} |-> IF x = s THEN f ELSE maps[t][x]]
<1>1. t \in Modes /\ s \in Seq(Keys) /\ f \in Callbacks
  BY DEF KAssumptions, K!MapsAssumption
<1>2. /\ t \in DOMAIN maps /\ maps' = [maps EXCEPT ![t] = m] /\ last' = None
      /\ lfm' = [lfm EXCEPT !.did = None] /\ disturbed' = (lfm.state # "IDLE")
      /\ UNCHANGED <<start, typed>>
  BY DEF K!SetKeymap, K!LuaCall, K!Insert, K!Tries
<1>3. MapsOK
  BY DEF KInv, KInvOf
<1>4. DOMAIN maps' = DOMAIN maps /\ maps'[t] = m /\ \A u \in DOMAIN maps \ {t} : maps'[u] = maps[u]
  BY <1>2
<1>5. DOMAIN m = DOMAIN maps[t] \cup {s} /\ \A x \in DOMAIN m : m[x] \in Callbacks
  BY <1>1, <1>2, <1>3 DEF MapsOK
<1> HIDE DEF m, t, s, f
<1>6. MapsOK'
  BY <1>1, <1>3, <1>4, <1>5 DEF MapsOK
<1>7. \A n : n.trie \in DOMAIN maps /\ n.path # <<>> /\ K!IsNode(n) =>
               \E x \in DOMAIN maps'[n.trie] : K!IsPrefix(n.path, x)
  <2>1. \A u \in DOMAIN maps : DOMAIN maps[u] \subseteq DOMAIN maps'[u]
    BY <1>4, <1>5
  <2> QED
    BY <2>1 DEF K!IsNode, K!Mapped
<1>8. disturbed' \in BOOLEAN /\ (lfm.state # "IDLE" => disturbed')
  BY <1>2
<1> QED
  BY <1>2, <1>4, <1>6, <1>7, <1>8, MapsStep

LEMMA CreateKept ==
  ASSUME KAssumptions, KInv, NEW m \in NewModes, K!CreateMode(m)
  PROVE  Kept
<1>1. m \in Modes /\ m # Visual
  BY DEF KAssumptions, K!ModesAssumption
<1>2. /\ m \notin DOMAIN maps /\ last' = None
      /\ maps' = [t \in DOMAIN maps \cup {m} |-> IF t = m THEN <<>> ELSE maps[t]]
      /\ lfm' = [lfm EXCEPT !.did = None] /\ UNCHANGED <<start, typed, disturbed>>
  BY DEF K!CreateMode, K!LuaCall, K!Register, K!Tries
<1>3. MapsOK /\ disturbed \in BOOLEAN
  BY DEF KInv, KInvOf
<1>4. /\ DOMAIN maps' = DOMAIN maps \cup {m} /\ maps'[m] = <<>>
      /\ \A u \in DOMAIN maps : maps'[u] = maps[u]
  BY <1>2
<1>5. DOMAIN maps'[m] = {}
  BY <1>4
<1>6. MapsOK'
  BY <1>1, <1>3, <1>4, <1>5 DEF MapsOK
<1>7. \A n : n.trie \in DOMAIN maps /\ n.path # <<>> /\ K!IsNode(n) =>
               \E x \in DOMAIN maps'[n.trie] : K!IsPrefix(n.path, x)
  BY <1>4 DEF K!IsNode, K!Mapped
<1>8. DOMAIN maps \subseteq DOMAIN maps'
  BY <1>4
<1> QED
  BY <1>2, <1>3, <1>4, <1>6, <1>7, <1>8, MapsStep

LEMMA DelKept ==
  ASSUME KAssumptions, KInv, NEW t \in DOMAIN maps, NEW s \in DOMAIN maps[t], K!DelKeymap(t, s)
  PROVE  Kept
<1> DEFINE m == [x \in DOMAIN maps[t] \ {s} |-> maps[t][x]]
<1>1. /\ maps' = [maps EXCEPT ![t] = m] /\ last' = None
      /\ lfm' = [lfm EXCEPT !.did = None] /\ disturbed' = (lfm.state # "IDLE")
      /\ \A n \in {lfm.cur, lfm.cur_base} :
           n.trie = t /\ n.path # <<>> => \E x \in DOMAIN maps'[t] : K!IsPrefix(n.path, x)
      /\ UNCHANGED <<start, typed>>
  BY DEF K!DelKeymap, K!LuaCall, K!Unlink
<1>2. MapsOK
  BY DEF KInv, KInvOf
<1>3. DOMAIN maps' = DOMAIN maps /\ maps'[t] = m /\ \A u \in DOMAIN maps \ {t} : maps'[u] = maps[u]
  BY <1>1
<1>4. DOMAIN m \subseteq DOMAIN maps[t] /\ \A x \in DOMAIN m : m[x] \in Callbacks
  BY <1>2 DEF MapsOK
<1> HIDE DEF m
<1>5. MapsOK'
  BY <1>2, <1>3, <1>4 DEF MapsOK
<1>6. \A n \in {lfm.cur, lfm.cur_base} :
        n.trie \in DOMAIN maps /\ n.path # <<>> /\ K!IsNode(n) =>
          \E x \in DOMAIN maps'[n.trie] : K!IsPrefix(n.path, x)
  <2> SUFFICES ASSUME NEW n \in {lfm.cur, lfm.cur_base}, n.trie \in DOMAIN maps,
                      n.path # <<>>, K!IsNode(n)
               PROVE  \E x \in DOMAIN maps'[n.trie] : K!IsPrefix(n.path, x)
    OBVIOUS
  <2>1. CASE n.trie = t
    BY <1>1, <2>1
  <2>2. CASE n.trie # t
    BY <1>3, <2>2 DEF K!IsNode, K!Mapped
  <2> QED
    BY <2>1, <2>2
<1>7. disturbed' \in BOOLEAN /\ (lfm.state # "IDLE" => disturbed') /\ DOMAIN maps \subseteq DOMAIN maps'
  BY <1>1, <1>3
<1> QED
  BY <1>1, <1>5, <1>6, <1>7, MapsStep

\* The input when lfm starts
LEMMA KeyInit ==
  ASSUME KAssumptions, K!Init
  PROVE  KInv
<1>1. /\ maps = InitialMaps /\ typed = <<>> /\ start = Normal /\ disturbed = FALSE
      /\ lfm = [mode |-> Normal, state |-> "IDLE", cur |-> K!NoNode, cur_base |-> K!NoNode,
                count |-> -1, seq |-> <<>>, clear |-> FALSE, suggest |-> FALSE,
                menu |-> None, macros |-> [i \in Macros |-> <<>>], recording |-> None,
                playing |-> FALSE, stack |-> <<>>, buffer |-> <<>>, did |-> None,
                recorded |-> <<>>, before |-> [i \in Macros |-> <<>>]]
  BY DEF K!Init
<1>2. Normal \in Modes /\ Normal # Visual
  BY DEF KAssumptions, K!ModesAssumption
<1>3. MapsOK
  <2>1. DOMAIN maps = Modes \ (NewModes \cup {Visual})
        /\ \A t \in DOMAIN maps : /\ DOMAIN maps[t] \subseteq Seq(Keys)
                                  /\ \A s \in DOMAIN maps[t] : maps[t][s] \in Callbacks
    BY <1>1 DEF KAssumptions, K!MapsAssumption
  <2>2. {Normal, Input} \subseteq Modes \ (NewModes \cup {Visual})
    BY DEF KAssumptions, K!ModesAssumption
  <2> QED
    BY <2>1, <2>2 DEF MapsOK
<1>4. lfm \in LfmType
  <2>1. /\ K!NoNode \in Node /\ None \in DidType /\ -1 \in Nat \cup {-1}
        /\ <<>> \in Seq(Keys) /\ <<>> \in Seq(FrameType)
    BY NoNodeType DEF DidType
  <2>2. PICK e \in Seq(Keys) : e = <<>>
    BY <2>1
  <2>3. PICK g \in Seq(FrameType) : g = <<>>
    BY <2>1
  <2>4. PICK m \in [Macros -> Seq(Keys)] : m = [i \in Macros |-> <<>>]
    <3>1. [i \in Macros |-> <<>>] \in [Macros -> Seq(Keys)]
      BY <2>1
    <3> QED
      BY <3>1
  <2>5. lfm = [mode |-> Normal, state |-> "IDLE", cur |-> K!NoNode, cur_base |-> K!NoNode,
                count |-> -1, seq |-> e, clear |-> FALSE, suggest |-> FALSE,
                menu |-> None, macros |-> m, recording |-> None,
                playing |-> FALSE, stack |-> g, buffer |-> e, did |-> None,
                recorded |-> e, before |-> m]
    BY <1>1, <2>2, <2>3, <2>4
  <2> QED
    BY <1>2, <2>1, <2>5 DEF LfmType
<1>5. Sound(lfm)
  <2>1. MacroFrames(lfm.stack) = {}
    BY <1>1 DEF MacroFrames
  <2>2. K!TrieOf(lfm.mode) \in DOMAIN maps
    BY <1>1, <1>2, <1>3 DEF MapsOK, K!TrieOf
  <2>3. lfm.recording = None /\ lfm.playing = FALSE
    BY <1>1
  <2> QED
    BY <1>4, <2>1, <2>2, <2>3 DEF Sound, Playing, Recording
<1>6. Where(lfm, start, typed)
  <2>1. Quiet(lfm) /\ lfm.menu = None /\ lfm.mode = start
    BY <1>1 DEF Quiet, Untimed
  <2>2. Where(lfm, start, <<>>)
    BY <1>5, <2>1, WhereQuiet DEF Sound
  <2> QED
    BY <1>1, <2>2
<1>7. Underway(lfm)
  BY <1>1 DEF Underway
<1> QED
  BY <1>1, <1>2, <1>3, <1>5, <1>6, <1>7 DEF KInv, KInvOf

LEMMA NextKept ==
  ASSUME KAssumptions, KInv, K!Next
  PROVE  Kept
<1>1. ASSUME NEW k \in Keys, K!Press(k) PROVE Kept
  BY <1>1, PressKept
<1>2. CASE K!FeedKey
  BY <1>2, FeedKept
<1>3. CASE K!BufferKey
  BY <1>3, BufferKept
<1>4. CASE K!EndFeed
  BY <1>4, EndKept
<1>5. CASE K!ClearTimer
  BY <1>5, ClearKept
<1>6. CASE K!SuggestionTimer
  BY <1>6, SuggestionKept
<1>7. ASSUME NEW c \in Scripts, K!RunScript(c) PROVE Kept
  BY <1>7, ScriptKept
<1>8. ASSUME NEW m \in NewMaps, K!SetKeymap(m[1], m[2], m[3]) PROVE Kept
  BY <1>8, SetKept
<1>9. ASSUME NEW m \in NewModes, K!CreateMode(m) PROVE Kept
  BY <1>9, CreateKept
<1>10. ASSUME NEW t \in DOMAIN maps, NEW s \in DOMAIN maps[t], K!DelKeymap(t, s) PROVE Kept
  BY <1>10, DelKept
<1> QED
  BY <1>1, <1>2, <1>3, <1>4, <1>5, <1>6, <1>7, <1>8, <1>9, <1>10 DEF K!Next, K!Tries, K!Mapped

\* What is said of keys follows.
LEMMA KeysConsistent ==
  ASSUME KAssumptions, KInv
  PROVE  K!TypeOK /\ K!ShownIsTyped /\ K!MenuOfSequence /\ K!PlayingIsUnderway
<1>1. /\ MapsOK /\ Sound(lfm) /\ Where(lfm, start, typed) /\ lfm \in LfmType
      /\ Playing(lfm)
  BY DEF KInv, KInvOf, Sound
<1>2. K!TypeOK
  <2>1. ASSUME NEW n \in {lfm.cur, lfm.cur_base}
        PROVE  n \in K!NodeType
    <3>1. n \in Node
      BY <1>1 DEF LfmType
    <3>2. n # K!NoNode => n.trie \in DOMAIN maps
      BY <1>1 DEF Where, At
    <3>3. n # K!NoNode => n \in [trie : DOMAIN maps, path : Seq(Keys)]
      BY <3>1, <3>2 DEF Node
    <3> QED
      BY <3>3 DEF K!NodeType, K!Tries
  <2>2. lfm.state = "IDLE" => lfm.cur = K!NoNode /\ lfm.cur_base = K!NoNode
    BY <1>1 DEF Where
  <2>3. /\ lfm.mode \in Modes /\ lfm.state \in {"IDLE", "COUNT", "SEQUENCE"}
        /\ lfm.count \in Nat \cup {-1} /\ lfm.seq \in Seq(Keys)
        /\ lfm.clear \in BOOLEAN /\ lfm.suggest \in BOOLEAN /\ lfm.playing \in BOOLEAN
        /\ lfm.recording \in Macros \cup {None}
        /\ lfm.macros \in [Macros -> Seq(Keys)] /\ lfm.buffer \in Seq(Keys)
    BY <1>1 DEF LfmType
  <2> QED
    BY <2>1, <2>2, <2>3 DEF K!TypeOK
<1>3. K!ShownIsTyped
  <2>1. lfm.seq = typed
    BY <1>1 DEF Where
  <2>2. \A n \in {lfm.cur, lfm.cur_base} \ {K!NoNode} :
          /\ n.trie \in {K!TrieOf(start), K!BaseOf(start)}
          /\ K!IsSuffix(n.path, typed) /\ (n.path # <<>> => K!IsNode(n))
    BY <1>1 DEF Where, At
  <2> QED
    BY <2>1, <2>2 DEF K!ShownIsTyped
<1>4. K!MenuOfSequence
  BY <1>1 DEF Where, K!MenuOfSequence
<1>5. K!PlayingIsUnderway
  <2>1. \A S : K!Cardinality(S) = Cardinality(S)
    BY DEF K!Cardinality, Cardinality
  <2>2. Cardinality(MacroFrames(lfm.stack)) = IF lfm.playing THEN 1 ELSE 0
    <3>1. CASE lfm.playing
      BY <1>1, <3>1, FS_Singleton DEF Playing
    <3>2. CASE ~lfm.playing
      BY <1>1, <3>2, FS_EmptySet DEF Playing
    <3> QED
      BY <3>1, <3>2
  <2>3. lfm.playing => lfm.recording = None
    BY <1>1 DEF Playing
  <2>4. MacroFrames(lfm.stack) = {i \in DOMAIN lfm.stack : lfm.stack[i].from = "macro"}
    BY DEF MacroFrames
  <2> QED
    BY <2>1, <2>2, <2>3, <2>4 DEF K!PlayingIsUnderway
<1> QED
  BY <1>2, <1>3, <1>4, <1>5

-----------------------------------------------------------------------------
(* The command line *)

LAssumptions ==
  C!CharsAssumption /\ C!SettableAssumption /\ C!LengthsAssumption /\ C!WidthsAssumption

Halves(l, r) == l \in Seq(Chars) /\ r \in Seq(Chars) /\ Len(l) + Len(r) <= MaxLen
LineInv ==
  /\ Halves(left, right)
  /\ prefix \in Prompts \cup {<<>>} /\ overwrite \in BOOLEAN

\* A line in two pieces, cut behind n characters
LEMMA Pieces ==
  ASSUME NEW S, NEW s \in Seq(S), NEW n \in 0..Len(s)
  PROVE  LET a == SubSeq(s, 1, n)
             b == SubSeq(s, n + 1, Len(s))
         IN /\ a \in Seq(S) /\ Len(a) = n /\ \A i \in 1..n : a[i] = s[i]
            /\ b \in Seq(S) /\ Len(b) = Len(s) - n /\ \A i \in 1..(Len(s) - n) : b[i] = s[n + i]
            /\ a \o b = s
<1> DEFINE a == SubSeq(s, 1, n)
           b == SubSeq(s, n + 1, Len(s))
<1>1. Len(s) \in Nat /\ n \in Nat
  OBVIOUS
<1>2. a \in Seq(S) /\ Len(a) = n /\ \A i \in 1..n : a[i] = s[i]
  BY <1>1
<1>3. b \in Seq(S) /\ Len(b) = Len(s) - n
  BY <1>1
<1>4. \A i \in 1..(Len(s) - n) : b[i] = s[n + i]
  BY <1>1
<1> HIDE DEF a, b
<1>5. a \o b = s
  <2> DEFINE c == a \o b
  <2>1. c \in Seq(S) /\ Len(c) = Len(s)
    BY <1>1, <1>2, <1>3
  <2>2. ASSUME NEW i \in 1..Len(s)
        PROVE  c[i] = s[i]
    <3>1. CASE i <= n
      BY <1>1, <1>2, <1>3, <3>1
    <3>2. CASE i > n
      <4>1. i - n \in 1..(Len(s) - n) /\ n + (i - n) = i
        BY <1>1, <3>2
      <4>2. c[i] = b[i - n]
        BY <1>1, <1>2, <1>3, <3>2
      <4> QED
        BY <1>4, <4>1, <4>2
    <3> HIDE DEF c
    <3> QED
      BY <1>1, <3>1, <3>2
  <2> HIDE DEF c
  <2>3. c = s
    BY <2>1, <2>2
  <2> QED
    BY <2>3 DEF c
<1> QED
  BY <1>2, <1>3, <1>4, <1>5 DEF a, b

LEMMA JoinSize ==
  ASSUME NEW S, NEW a \in Seq(S), NEW b \in Seq(S)
  PROVE  a \o b \in Seq(S) /\ Len(a \o b) = Len(a) + Len(b)
OBVIOUS

LEMMA JoinJoin ==
  ASSUME NEW S, NEW a \in Seq(S), NEW b \in Seq(S), NEW c \in Seq(S)
  PROVE  Joined(Joined(a, b), c) = Joined(a, Joined(b, c))
<1>1. (a \o b) \o c = a \o (b \o c)
  OBVIOUS
<1> QED
  BY <1>1 DEF Joined

\* The last word of a line: what it is made of, and that it is whole
LEMMA WordIs ==
  ASSUME LAssumptions, NEW s \in Seq(Chars), s # <<>>
  PROVE  /\ C!LastWord(s) \in 1..Len(s)
         /\ C!LastWord(s) < Len(s) =>
              ~(C!Word(s[Len(s) - C!LastWord(s)]) /\ C!Word(s[Len(s) - C!LastWord(s) + 1]))
<1> DEFINE p == IF C!Last(s) \in Puncts THEN 1 ELSE 0
           i == Len(s) - p
           same(c) == IF s[i] \in Spaces THEN c \in Spaces ELSE C!Word(c)
           run(n) == \A j \in (i - n + 1)..i : same(s[j])
           whole(n) == run(n) /\ (n < i => ~run(n + 1))
           N == {n \in 0..i : n < i => ~run(n + 1)}
           n == CHOOSE n \in 0..i : whole(n)
<1>1. Len(s) \in Nat /\ Len(s) >= 1 /\ i \in Nat /\ p \in {0, 1} /\ C!Last(s) = s[Len(s)]
  BY DEF C!Last
<1>2. C!LastWord(s) = p + n
  BY DEF C!LastWord
<1> HIDE DEF p, same
<1>3. \E m \in 0..i : whole(m)
  <2>1. i \in N
    BY <1>1
  <2>2. PICK m \in N : \A l \in N : ~(l < m)
    <3> HIDE DEF N
    <3>1. N \subseteq Nat
      BY <1>1 DEF N
    <3> QED
      BY <2>1, <3>1, NatMin
  <2>3. m \in 0..i /\ (m < i => ~run(m + 1))
    OBVIOUS
  <2>4. run(m)
    <3>1. CASE m = 0
      BY <1>1, <3>1
    <3>2. CASE m # 0
      <4>1. m - 1 \in 0..i /\ m - 1 < i /\ m - 1 < m /\ (m - 1) + 1 = m
        BY <1>1, <2>3, <3>2
      <4>2. m - 1 \notin N
        BY <2>2, <4>1
      <4> HIDE DEF run
      <4> QED
        BY <4>1, <4>2
    <3> QED
      BY <3>1, <3>2
  <2> QED
    BY <2>3, <2>4
<1>4. n \in 0..i /\ whole(n)
  <2> HIDE DEF whole
  <2> QED
    BY <1>3
<1> HIDE DEF n, N
<1>5. p = 0 => n >= 1
  <2> SUFFICES ASSUME p = 0, n = 0
               PROVE  FALSE
    BY <1>1, <1>4
  <2>1. i = Len(s) /\ s[i] \notin Puncts /\ i >= 1
    BY <1>1 DEF p
  <2>2. same(s[i])
    BY <2>1 DEF same, C!Word
  <2>3. ~run(1)
    BY <1>4, <2>1
  <2>4. PICK j \in (i - 1 + 1)..i : ~same(s[j])
    BY <2>3
  <2>5. j = i
    BY <1>1
  <2> QED
    BY <2>2, <2>4, <2>5
<1>6. p + n \in 1..Len(s)
  BY <1>1, <1>4, <1>5
<1>7. ASSUME p + n < Len(s)
      PROVE  ~(C!Word(s[Len(s) - (p + n)]) /\ C!Word(s[Len(s) - (p + n) + 1]))
  <2>1. n < i /\ Len(s) - (p + n) = i - n /\ n \in Nat
    BY <1>1, <1>4, <1>7
  <2>2. ~same(s[i - n])
    <3>1. run(n) /\ ~run(n + 1)
      BY <1>4, <2>1
    <3>2. PICK j \in (i - (n + 1) + 1)..i : ~same(s[j])
      BY <3>1
    <3>3. j \notin (i - n + 1)..i
      BY <3>1, <3>2
    <3>4. j = i - n
      <4>1. j \in (i - (n + 1) + 1)..i
        OBVIOUS
      <4> HIDE DEF i
      <4> QED
        BY <1>1, <2>1, <3>3, <4>1
    <3> QED
      BY <3>2, <3>4
  <2>3. CASE n = 0
    <3>1. p = 1 /\ s[Len(s)] \in Puncts /\ i - n + 1 = Len(s)
      BY <1>1, <1>5, <2>3 DEF p
    <3> QED
      BY <2>1, <3>1 DEF C!Word
  <2>4. CASE n # 0
    <3>1. i - n + 1 \in (i - n + 1)..i
      BY <1>1, <2>1, <2>4
    <3>2. same(s[i - n + 1])
      BY <1>4, <3>1
    <3>3. ~(C!Word(s[i - n]) /\ C!Word(s[i - n + 1]))
      <4>1. CASE s[i] \in Spaces
        BY <3>2, <4>1 DEF same, C!Word
      <4>2. CASE s[i] \notin Spaces
        BY <2>2, <4>2 DEF same
      <4> QED
        BY <4>1, <4>2
    <3> QED
      BY <2>1, <3>3
  <2> QED
    BY <2>3, <2>4
<1> HIDE DEF i
<1> QED
  BY <1>2, <1>6, <1>7

\* The first word of a line is the last one backwards.
LEMMA AheadIs ==
  ASSUME LAssumptions, NEW s \in Seq(Chars), s # <<>>
  PROVE  /\ C!WordAhead(s) \in 1..Len(s)
         /\ C!WordAhead(s) < Len(s) =>
              ~(C!Word(s[C!WordAhead(s)]) /\ C!Word(s[C!WordAhead(s) + 1]))
<1> DEFINE r == C!Reverse(s)
           n == C!LastWord(r)
<1>1. C!WordAhead(s) = n
  BY DEF C!WordAhead, C!WordLength
<1>2. r \in Seq(Chars) /\ Len(r) = Len(s) /\ Len(s) \in Nat /\ Len(s) >= 1
      /\ \A i \in 1..Len(s) : r[i] = s[Len(s) - i + 1]
  BY DEF C!Reverse
<1> HIDE DEF r
<1>3. r # <<>>
  BY <1>2
<1>4. n \in 1..Len(r)
      /\ (n < Len(r) => ~(C!Word(r[Len(r) - n]) /\ C!Word(r[Len(r) - n + 1])))
  BY <1>2, <1>3, WordIs
<1> HIDE DEF n
<1>5. ASSUME n < Len(s)
      PROVE  r[Len(s) - n] = s[n + 1] /\ r[Len(s) - n + 1] = s[n]
  <2>1. Len(s) - n \in 1..Len(s) /\ Len(s) - n + 1 \in 1..Len(s)
        /\ Len(s) - (Len(s) - n) + 1 = n + 1 /\ Len(s) - (Len(s) - n + 1) + 1 = n
    BY <1>2, <1>4, <1>5
  <2>2. r[Len(s) - n] = s[Len(s) - (Len(s) - n) + 1]
    BY <1>2, <2>1
  <2>3. r[Len(s) - n + 1] = s[Len(s) - (Len(s) - n + 1) + 1]
    BY <1>2, <2>1
  <2> QED
    BY <2>1, <2>2, <2>3
<1> QED
  BY <1>1, <1>2, <1>4, <1>5

LEMMA LineInit ==
  ASSUME LAssumptions, C!Init
  PROVE  LineInv
<1>1. <<>> \in Seq(Chars) /\ Len(<<>>) = 0
  OBVIOUS
<1>2. Halves(<<>>, <<>>)
  BY <1>1 DEF Halves, LAssumptions, C!LengthsAssumption
<1> QED
  BY <1>2 DEF C!Init, LineInv

\* What moves of the cursor do: n characters change sides.
LEMMA LeftIs ==
  ASSUME LineInv, NEW n \in 1..Len(left), C!MoveLeft(n)
  PROVE  /\ left' = SubSeq(left, 1, Len(left) - n)
         /\ left' \in Seq(Chars) /\ right' \in Seq(Chars) /\ Len(left') = Len(left) - n
         /\ Len(right') = Len(right) + n /\ left' \o right' = left \o right
         /\ UNCHANGED <<prefix, overwrite>>
<1> DEFINE m == Len(left) - n
           a == SubSeq(left, 1, m)
           b == SubSeq(left, m + 1, Len(left))
<1>1. left \in Seq(Chars) /\ right \in Seq(Chars) /\ Len(left) \in Nat /\ m \in 0..Len(left)
      /\ Len(left) - m = n
  BY DEF LineInv, Halves
<1> HIDE DEF m
<1>0. a \o b = left
  BY <1>1, Pieces
<1>2. a \in Seq(Chars) /\ Len(a) = m /\ b \in Seq(Chars) /\ Len(b) = n
  BY <1>1, Pieces
<1>3. left' = a /\ right' = b \o right /\ UNCHANGED <<prefix, overwrite>>
  BY DEF C!MoveLeft, C!Edit, m
<1> HIDE DEF a, b
<1>4. b \o right \in Seq(Chars) /\ Len(b \o right) = n + Len(right) /\ Len(right) \in Nat
  <2>1. b \o right \in Seq(Chars) /\ Len(b \o right) = Len(b) + Len(right)
    BY <1>1, <1>2, JoinSize, Zenon
  <2>2. Len(right) \in Nat
    BY <1>1
  <2> QED
    BY <1>2, <2>1, <2>2
<1>5. a \o (b \o right) = left \o right
  <2>1. Joined(Joined(a, b), right) = Joined(a, Joined(b, right))
    BY <1>1, <1>2, JoinJoin
  <2>2. Joined(a, b) = left
    BY <1>0 DEF Joined
  <2>3. Joined(a, Joined(b, right)) = Joined(left, right)
    BY <2>1, <2>2
  <2> QED
    BY <2>3, Zenon DEF Joined
<1>6. left' \o right' = left \o right
  BY <1>3, <1>5, Zenon
<1>7. left' \in Seq(Chars) /\ right' \in Seq(Chars) /\ Len(left') = m
      /\ Len(right') = n + Len(right)
  BY <1>2, <1>3, <1>4
<1>8. left' = SubSeq(left, 1, Len(left) - n) /\ UNCHANGED <<prefix, overwrite>>
  BY <1>3 DEF a, m
<1>9. Len(left') = Len(left) - n /\ Len(right') = Len(right) + n
  BY <1>1, <1>4, <1>7 DEF m
<1> QED
  BY <1>6, <1>7, <1>8, <1>9

LEMMA RightIs ==
  ASSUME LineInv, NEW n \in 1..Len(right), C!MoveRight(n)
  PROVE  /\ left' = left \o SubSeq(right, 1, n) /\ right' = SubSeq(right, n + 1, Len(right))
         /\ left' \in Seq(Chars) /\ right' \in Seq(Chars) /\ Len(left') = Len(left) + n
         /\ Len(right') = Len(right) - n /\ left' \o right' = left \o right
         /\ UNCHANGED <<prefix, overwrite>>
<1> DEFINE a == SubSeq(right, 1, n)
           b == SubSeq(right, n + 1, Len(right))
<1>1. left \in Seq(Chars) /\ right \in Seq(Chars) /\ Len(right) \in Nat /\ n \in 0..Len(right)
      /\ Len(left) \in Nat
  BY DEF LineInv, Halves
<1>0. a \o b = right
  BY <1>1, Pieces
<1>2. a \in Seq(Chars) /\ Len(a) = n /\ b \in Seq(Chars) /\ Len(b) = Len(right) - n
  BY <1>1, Pieces
<1>3. left' = left \o a /\ right' = b /\ UNCHANGED <<prefix, overwrite>>
  BY DEF C!MoveRight, C!Edit
<1> HIDE DEF a, b
<1>4. left \o a \in Seq(Chars) /\ Len(left \o a) = Len(left) + n
  BY <1>1, <1>2, JoinSize
<1>5. (left \o a) \o b = left \o right
  <2>1. Joined(Joined(left, a), b) = Joined(left, Joined(a, b))
    BY <1>1, <1>2, JoinJoin
  <2>2. Joined(a, b) = right
    BY <1>0 DEF Joined
  <2>3. Joined(Joined(left, a), b) = Joined(left, right)
    BY <2>1, <2>2
  <2> QED
    BY <2>3, Zenon DEF Joined
<1>6. left' \o right' = left \o right
  BY <1>3, <1>5, Zenon
<1>7. left' \in Seq(Chars) /\ right' \in Seq(Chars) /\ Len(left') = Len(left) + n
      /\ Len(right') = Len(right) - n
  BY <1>2, <1>3, <1>4
<1>8. left' = left \o a /\ right' = b /\ UNCHANGED <<prefix, overwrite>>
  BY <1>3
<1> QED
  BY <1>6, <1>7, <1>8 DEF a, b

\* Every move is one of these, or a jump to an end.
LEMMA MovesAre ==
  ASSUME LAssumptions, LineInv, C!Moves
  PROVE  /\ left' \in Seq(Chars) /\ right' \in Seq(Chars)
         /\ Len(left') + Len(right') = Len(left) + Len(right) /\ Len(left') # Len(left)
         /\ left' \o right' = left \o right
         /\ UNCHANGED <<prefix, overwrite>>
<1>1. left \in Seq(Chars) /\ right \in Seq(Chars) /\ Len(left) \in Nat /\ Len(right) \in Nat
      /\ (left # <<>> => Len(left) > 0) /\ (right # <<>> => Len(right) > 0)
  BY DEF LineInv, Halves
<1>2. ASSUME NEW n \in 1..Len(left), C!MoveLeft(n)
      PROVE  /\ left' \in Seq(Chars) /\ right' \in Seq(Chars)
             /\ Len(left') + Len(right') = Len(left) + Len(right) /\ Len(left') # Len(left)
             /\ left' \o right' = left \o right
             /\ UNCHANGED <<prefix, overwrite>>
  <2>1. /\ left' \in Seq(Chars) /\ right' \in Seq(Chars) /\ Len(left') = Len(left) - n
        /\ Len(right') = Len(right) + n /\ UNCHANGED <<prefix, overwrite>>
    BY <1>2, LeftIs
  <2>2. left' \o right' = left \o right
    BY <1>2, LeftIs
  <2>3. Len(left') + Len(right') = Len(left) + Len(right) /\ Len(left') # Len(left)
    BY <1>1, <2>1
  <2> QED
    BY <2>1, <2>2, <2>3, Zenon
<1>3. ASSUME NEW n \in 1..Len(right), C!MoveRight(n)
      PROVE  /\ left' \in Seq(Chars) /\ right' \in Seq(Chars)
             /\ Len(left') + Len(right') = Len(left) + Len(right) /\ Len(left') # Len(left)
             /\ left' \o right' = left \o right
             /\ UNCHANGED <<prefix, overwrite>>
  <2>1. /\ left' \in Seq(Chars) /\ right' \in Seq(Chars) /\ Len(left') = Len(left) + n
        /\ Len(right') = Len(right) - n /\ UNCHANGED <<prefix, overwrite>>
    BY <1>3, RightIs
  <2>2. left' \o right' = left \o right
    BY <1>3, RightIs
  <2>3. Len(left') + Len(right') = Len(left) + Len(right) /\ Len(left') # Len(left)
    BY <1>1, <2>1
  <2> QED
    BY <2>1, <2>2, <2>3, Zenon
<1>4. CASE C!Left
  <2>1. 1 \in 1..Len(left) /\ C!MoveLeft(1)
    BY <1>1, <1>4 DEF C!Left
  <2> QED
    BY <1>2, <2>1
<1>5. CASE C!Right
  <2>1. 1 \in 1..Len(right) /\ C!MoveRight(1)
    BY <1>1, <1>5 DEF C!Right
  <2> QED
    BY <1>3, <2>1
<1>6. CASE C!WordLeft
  <2>1. left # <<>> /\ C!MoveLeft(C!WordLength(left))
    BY <1>6 DEF C!WordLeft
  <2>2. C!WordLength(left) \in 1..Len(left)
    BY <1>1, <2>1, WordIs DEF C!WordLength
  <2> QED
    BY <1>2, <2>1, <2>2
<1>7. CASE C!WordRight
  <2>1. right # <<>> /\ C!MoveRight(C!WordAhead(right))
    BY <1>7 DEF C!WordRight
  <2>2. C!WordAhead(right) \in 1..Len(right)
    BY <1>1, <2>1, AheadIs
  <2> QED
    BY <1>3, <2>1, <2>2
<1>8. left \o right \in Seq(Chars) /\ Len(left \o right) = Len(left) + Len(right)
      /\ <<>> \in Seq(Chars) /\ Len(<<>>) = 0
  BY <1>1
<1>9. CASE C!Home
  <2>1. left # <<>> /\ left' = <<>> /\ right' = left \o right /\ UNCHANGED <<prefix, overwrite>>
    BY <1>9 DEF C!Home, C!Joined, C!Edit
  <2>2. <<>> \o (left \o right) = left \o right
    BY <1>8
  <2> QED
    BY <1>1, <1>8, <2>1, <2>2
<1>10. CASE C!End
  <2>1. right # <<>> /\ left' = left \o right /\ right' = <<>> /\ UNCHANGED <<prefix, overwrite>>
    BY <1>10 DEF C!End, C!Edit
  <2>2. (left \o right) \o <<>> = left \o right
    BY <1>8
  <2> QED
    BY <1>1, <1>8, <2>1, <2>2
<1> QED
  BY <1>4, <1>5, <1>6, <1>7, <1>9, <1>10 DEF C!Moves

\* What a deletion takes away
LEMMA DeletesAre ==
  ASSUME LAssumptions, LineInv, C!Deletes
  PROVE  /\ \/ right' = right /\ \E n \in 0..Len(left) : left' = SubSeq(left, 1, n)
            \/ left' = left /\ \E n \in 0..Len(right) : right' = SubSeq(right, n + 1, Len(right))
         /\ prefix' \in {prefix, <<>>} /\ overwrite' \in {overwrite, FALSE}
<1>1. left \in Seq(Chars) /\ right \in Seq(Chars) /\ Len(left) \in Nat /\ Len(right) \in Nat
      /\ (left # <<>> => Len(left) > 0) /\ (right # <<>> => Len(right) > 0)
  BY DEF LineInv, Halves
<1>2. SubSeq(left, 1, Len(left)) = left /\ SubSeq(left, 1, 0) = <<>>
  BY <1>1
<1>3. CASE C!Delete
  <2>1. CASE left \o right = <<>>
    <3>1. left = <<>> /\ right = <<>>
      <4>1. Len(left \o right) = Len(left) + Len(right) /\ Len(<<>>) = 0
        BY <1>1
      <4>2. Len(left) = 0 /\ Len(right) = 0
        BY <1>1, <2>1, <4>1
      <4> QED
        BY <1>1, <4>2
    <3>2. left' = left /\ right' = right
          /\ prefix' \in {prefix, <<>>} /\ overwrite' \in {overwrite, FALSE}
      BY <1>3, <2>1, <3>1 DEF C!Delete, C!Clear, C!text, C!vars
    <3>3. Len(left) \in 0..Len(left)
      BY <1>1
    <3> QED
      BY <1>2, <3>2, <3>3
  <2>2. CASE left \o right # <<>>
    <3>1. /\ left' = IF C!Prompted /\ left # <<>> THEN C!Front(left) ELSE left
          /\ right' = right /\ UNCHANGED <<prefix, overwrite>>
      BY <1>3, <2>2 DEF C!Delete, C!text, C!Edit
    <3>2. CASE C!Prompted /\ left # <<>>
      <4>1. left' = SubSeq(left, 1, Len(left) - 1) /\ Len(left) - 1 \in 0..Len(left)
        BY <1>1, <3>1, <3>2 DEF C!Front
      <4> QED
        BY <3>1, <4>1
    <3>3. CASE ~(C!Prompted /\ left # <<>>)
      <4>1. left' = left /\ Len(left) \in 0..Len(left)
        BY <1>1, <3>1, <3>3
      <4> QED
        BY <1>2, <3>1, <4>1
    <3> QED
      BY <3>2, <3>3
  <2> QED
    BY <2>1, <2>2
<1>4. CASE C!DeleteRight
  <2>1. right # <<>> /\ left' = left /\ right' = Tail(right) /\ UNCHANGED <<prefix, overwrite>>
    BY <1>4 DEF C!DeleteRight, C!Edit
  <2>2. Tail(right) = SubSeq(right, 1 + 1, Len(right)) /\ 1 \in 0..Len(right)
    BY <1>1, <2>1
  <2> QED
    BY <2>1, <2>2
<1>5. CASE C!DeleteLineLeft
  <2>1. left' = <<>> /\ right' = right /\ UNCHANGED <<prefix, overwrite>>
    BY <1>5 DEF C!DeleteLineLeft, C!Edit
  <2>2. 0 \in 0..Len(left)
    BY <1>1
  <2> QED
    BY <1>2, <2>1, <2>2
<1>6. CASE C!DeleteWord
  <2>1. left # <<>> /\ left' = SubSeq(left, 1, Len(left) - C!WordLength(left)) /\ right' = right
        /\ UNCHANGED <<prefix, overwrite>>
    BY <1>6 DEF C!DeleteWord, C!Edit
  <2>2. C!WordLength(left) \in 1..Len(left)
    BY <1>1, <2>1, WordIs DEF C!WordLength
  <2>3. Len(left) - C!WordLength(left) \in 0..Len(left)
    BY <1>1, <2>2
  <2> QED
    BY <2>1, <2>3
<1> QED
  BY <1>3, <1>4, <1>5, <1>6 DEF C!Deletes

LEMMA LineNext ==
  ASSUME LAssumptions, LineInv, C!Next
  PROVE  LineInv'
<1>1. /\ left \in Seq(Chars) /\ right \in Seq(Chars) /\ Len(left) \in Nat /\ Len(right) \in Nat
      /\ Len(left) + Len(right) <= MaxLen /\ MaxLen \in Nat
      /\ prefix \in Prompts \cup {<<>>} /\ overwrite \in BOOLEAN
  BY DEF LineInv, Halves, LAssumptions, C!LengthsAssumption
<1>2. ASSUME NEW c \in Chars, C!Insert(c)
      PROVE  LineInv'
  <2>1. /\ Len(left \o right) < MaxLen /\ left' = Append(left, c)
        /\ right' = IF overwrite /\ right # <<>> THEN Tail(right) ELSE right
        /\ UNCHANGED <<prefix, overwrite>>
    BY <1>2 DEF C!Insert, C!Inserted, C!Edit, C!text
  <2>2. Len(left \o right) = Len(left) + Len(right)
    BY <1>1
  <2>3. Append(left, c) \in Seq(Chars) /\ Len(Append(left, c)) = Len(left) + 1
    BY <1>1
  <2>4. right' \in Seq(Chars) /\ Len(right') <= Len(right) /\ Len(right') \in Nat
    BY <1>1, <2>1
  <2>5. Halves(left', right')
    <3>1. Len(left) + Len(right) < MaxLen
      BY <2>1, <2>2
    <3>2. left' \in Seq(Chars) /\ Len(left') = Len(left) + 1
      BY <2>1, <2>3
    <3>3. Len(left') + Len(right') <= MaxLen
      BY <1>1, <2>4, <3>1, <3>2
    <3> QED
      BY <2>4, <3>2, <3>3 DEF Halves
  <2> QED
    BY <1>1, <2>1, <2>5 DEF LineInv
<1>3. CASE C!Moves
  <2>1. Halves(left', right') /\ UNCHANGED <<prefix, overwrite>>
    BY <1>1, <1>3, MovesAre DEF Halves
  <2> QED
    BY <1>1, <2>1 DEF LineInv
<1>4. CASE C!Deletes
  <2>1. prefix' \in {prefix, <<>>} /\ overwrite' \in {overwrite, FALSE}
    BY <1>4, DeletesAre
  <2>2. left' \in Seq(Chars) /\ right' \in Seq(Chars)
        /\ Len(left') <= Len(left) /\ Len(right') <= Len(right)
    <3>1. CASE right' = right /\ \E n \in 0..Len(left) : left' = SubSeq(left, 1, n)
      <4>1. PICK n \in 0..Len(left) : left' = SubSeq(left, 1, n)
        BY <3>1
      <4>2. left' \in Seq(Chars) /\ Len(left') = n
        BY <1>1, <4>1, Pieces
      <4> QED
        BY <1>1, <3>1, <4>2
    <3>2. CASE left' = left /\ \E n \in 0..Len(right) : right' = SubSeq(right, n + 1, Len(right))
      <4>1. PICK n \in 0..Len(right) : right' = SubSeq(right, n + 1, Len(right))
        BY <3>2
      <4>2. right' \in Seq(Chars) /\ Len(right') = Len(right) - n
        BY <1>1, <4>1, Pieces
      <4> QED
        BY <1>1, <3>2, <4>2
    <3> QED
      BY <1>4, <3>1, <3>2, DeletesAre
  <2>3. Len(left') \in Nat /\ Len(right') \in Nat
    BY <2>2
  <2>4. Halves(left', right')
    BY <1>1, <2>2, <2>3 DEF Halves
  <2> QED
    BY <1>1, <2>1, <2>4, Zenon DEF LineInv
<1>5. CASE C!ToggleOverwrite
  BY <1>1, <1>5 DEF C!ToggleOverwrite, LineInv
<1>6. ASSUME NEW h \in Settable, C!LineSet(h[1], h[2])
      PROVE  LineInv'
  <2>1. left' = h[1] /\ right' = h[2] /\ UNCHANGED <<prefix, overwrite>>
    BY <1>6 DEF C!LineSet, C!Edit
  <2>2. h[1] \in Seq(Chars) /\ h[2] \in Seq(Chars) /\ Len(h[1]) + Len(h[2]) <= MaxLen
    BY DEF LAssumptions, C!SettableAssumption
  <2>3. Halves(left', right')
    BY <2>1, <2>2 DEF Halves
  <2> QED
    BY <1>1, <2>1, <2>3 DEF LineInv
<1>7. ASSUME NEW q \in Prompts, C!SetPrefix(q)
      PROVE  LineInv'
  BY <1>1, <1>7 DEF C!SetPrefix, LineInv
<1>8. CASE C!Clear
  <2>1. <<>> \in Seq(Chars) /\ Len(<<>>) = 0
    OBVIOUS
  <2>2. Halves(<<>>, <<>>)
    BY <1>1, <2>1 DEF Halves
  <2>3. left' = <<>> /\ right' = <<>> /\ prefix' = <<>> /\ overwrite' = FALSE
    BY <1>8 DEF C!Clear
  <2> QED
    BY <2>2, <2>3 DEF LineInv
<1> QED
  BY <1>2, <1>3, <1>4, <1>5, <1>6, <1>7, <1>8 DEF C!Next

\* The operators of the two instances are the same.
LEMMA SamePrefix ==
  /\ \A s, t : C!IsPrefix(s, t) <=> K!IsPrefix(s, t)
  /\ \A s, t : C!IsSuffix(s, t) <=> K!IsSuffix(s, t)
<1>1. \A s, t : C!IsPrefix(s, t) <=> K!IsPrefix(s, t)
  BY DEF C!IsPrefix, K!IsPrefix
<1>2. \A s : C!Reverse(s) = K!Reverse(s)
  BY DEF C!Reverse, K!Reverse
<1>3. \A s, t : C!IsSuffix(s, t) <=> K!IsSuffix(s, t)
  BY <1>1, <1>2 DEF C!IsSuffix, K!IsSuffix
<1> QED
  BY <1>1, <1>3

\* A piece from the beginning or from the end
LEMMA PieceIs ==
  ASSUME NEW S, NEW s \in Seq(S), NEW n \in 0..Len(s)
  PROVE  C!IsPrefix(SubSeq(s, 1, n), s) /\ C!IsSuffix(SubSeq(s, n + 1, Len(s)), s)
<1> DEFINE a == SubSeq(s, 1, n)
           b == SubSeq(s, n + 1, Len(s))
           m == Len(s) - n
<1>1. a \in Seq(S) /\ Len(a) = n /\ (\A i \in 1..n : a[i] = s[i])
      /\ b \in Seq(S) /\ Len(b) = m /\ \A i \in 1..m : b[i] = s[n + i]
  BY Pieces
<1>2. Len(s) \in Nat /\ n \in Nat /\ n <= Len(s) /\ m \in Nat
  OBVIOUS
<1> HIDE DEF a, b
<1>3. K!IsPrefix(a, s)
  BY <1>1, <1>2, PrefixIs
<1>4. \A i \in 1..m : b[m - i + 1] = s[Len(s) - i + 1]
  <2> SUFFICES ASSUME NEW i \in 1..m
               PROVE  b[m - i + 1] = s[Len(s) - i + 1]
    OBVIOUS
  <2>1. m - i + 1 \in 1..m /\ n + (m - i + 1) = Len(s) - i + 1
    BY <1>2
  <2> HIDE DEF m
  <2> QED
    BY <1>1, <2>1
<1>5. K!IsSuffix(b, s)
  <2>1. Len(b) <= Len(s)
    BY <1>1, <1>2
  <2> HIDE DEF m
  <2> QED
    BY <1>1, <1>4, <2>1, SuffixIs
<1> QED
  BY <1>3, <1>5, SamePrefix DEF a, b

LEMMA WholeIs ==
  ASSUME NEW S, NEW s \in Seq(S)
  PROVE  C!IsPrefix(s, s) /\ C!IsSuffix(s, s)
<1>1. Len(s) \in Nat
  OBVIOUS
<1>2. K!IsPrefix(s, s) /\ K!IsSuffix(s, s)
  BY <1>1, PrefixIs, SuffixIs
<1> QED
  BY <1>2, SamePrefix

\* What each kind of key does to a line, as LineKeepsText has it
LEMMA LineKept ==
  ASSUME LAssumptions, LineInv
  PROVE  /\ C!Moves => left' \o right' = C!text /\ left' # left
         /\ C!Deletes => /\ left' = left \/ right' = right
                         /\ C!IsPrefix(left', left) /\ C!IsSuffix(right', right)
         /\ \A c \in Chars : C!Insert(c) =>
              /\ left' = Append(left, c)
              /\ Len(right) - Len(right') = (IF overwrite /\ right # <<>> THEN 1 ELSE 0)
         /\ (C!WordLeft \/ C!DeleteWord) /\ left' # <<>> =>
              ~(C!Word(C!Last(left')) /\ C!Word(left[Len(left') + 1]))
         /\ (C!WordRight /\ right' # <<>>) => ~(C!Word(C!Last(left')) /\ C!Word(right'[1]))
<1>1. left \in Seq(Chars) /\ right \in Seq(Chars) /\ Len(left) \in Nat /\ Len(right) \in Nat
  BY DEF LineInv, Halves
<1>2. ASSUME C!Moves
      PROVE  left' \o right' = C!text /\ left' # left
  <2>1. left' \o right' = left \o right
    BY <1>2, MovesAre
  <2>2. left' # left
    BY <1>2, MovesAre
  <2> QED
    BY <2>1, <2>2, Zenon DEF C!text
<1>3. ASSUME C!Deletes
      PROVE  /\ left' = left \/ right' = right
             /\ C!IsPrefix(left', left) /\ C!IsSuffix(right', right)
  BY <1>1, <1>3, DeletesAre, PieceIs, WholeIs
<1>4. ASSUME NEW c \in Chars, C!Insert(c)
      PROVE  /\ left' = Append(left, c)
             /\ Len(right) - Len(right') = (IF overwrite /\ right # <<>> THEN 1 ELSE 0)
  <2>1. left' = Append(left, c)
        /\ right' = IF overwrite /\ right # <<>> THEN Tail(right) ELSE right
    BY <1>4 DEF C!Insert, C!Inserted, C!Edit
  <2>2. right # <<>> => Len(Tail(right)) = Len(right) - 1
    BY <1>1
  <2> QED
    BY <1>1, <2>1, <2>2
<1>5. ASSUME C!WordLeft \/ C!DeleteWord, left' # <<>>
      PROVE  ~(C!Word(C!Last(left')) /\ C!Word(left[Len(left') + 1]))
  <2> DEFINE n == C!LastWord(left)
             m == Len(left) - n
  <2>1. left # <<>> /\ left' = SubSeq(left, 1, m)
    BY <1>5 DEF C!WordLeft, C!DeleteWord, C!MoveLeft, C!Edit, C!WordLength
  <2>2. n \in 1..Len(left) /\ (n < Len(left) => ~(C!Word(left[m]) /\ C!Word(left[m + 1])))
    BY <1>1, <2>1, WordIs
  <2> HIDE DEF n
  <2>3. m \in 0..Len(left)
    BY <1>1, <2>2
  <2>4. Len(left') = m /\ left' \in Seq(Chars) /\ \A i \in 1..m : left'[i] = left[i]
    <3> HIDE DEF m
    <3> QED
      BY <1>1, <2>1, <2>3, Pieces
  <2>5. m # 0
    BY <1>5, <2>4
  <2>6. C!Last(left') = left[m] /\ n < Len(left)
    BY <1>1, <2>2, <2>3, <2>4, <2>5 DEF C!Last
  <2> QED
    BY <2>2, <2>4, <2>6
<1>6. ASSUME C!WordRight, right' # <<>>
      PROVE  ~(C!Word(C!Last(left')) /\ C!Word(right'[1]))
  <2> DEFINE n == C!WordAhead(right)
             a == SubSeq(right, 1, n)
             b == SubSeq(right, n + 1, Len(right))
  <2>1. right # <<>> /\ left' = left \o a /\ right' = b
    BY <1>6 DEF C!WordRight, C!MoveRight, C!Edit
  <2>2. n \in 1..Len(right) /\ (n < Len(right) => ~(C!Word(right[n]) /\ C!Word(right[n + 1])))
    BY <1>1, <2>1, AheadIs
  <2> HIDE DEF n
  <2>3. /\ a \in Seq(Chars) /\ Len(a) = n /\ (\A i \in 1..n : a[i] = right[i])
        /\ b \in Seq(Chars) /\ Len(b) = Len(right) - n
        /\ \A i \in 1..(Len(right) - n) : b[i] = right[n + i]
    <3>1. n \in 0..Len(right)
      BY <1>1, <2>2
    <3> QED
      BY <1>1, <3>1, Pieces
  <2> HIDE DEF a, b
  <2>4. n < Len(right) /\ 1 \in 1..(Len(right) - n)
    <3>1. Len(b) # 0
      BY <1>6, <2>1, <2>3
    <3> QED
      BY <1>1, <2>2, <2>3, <3>1
  <2>5. right'[1] = right[n + 1]
    BY <2>1, <2>3, <2>4
  <2>6. C!Last(left') = right[n]
    <3>0. Len(left \o a) = Len(left) + Len(a)
      BY <1>1, <2>3, JoinSize, Zenon
    <3>1. Len(left \o a) = Len(left) + n
      BY <2>3, <3>0
    <3>2. (left \o a)[Len(left) + n] = a[n]
      BY <1>1, <2>2, <2>3
    <3> QED
      BY <2>1, <2>2, <2>3, <3>1, <3>2 DEF C!Last
  <2> QED
    BY <2>2, <2>4, <2>5, <2>6
<1> QED
  BY <1>2, <1>3, <1>4, <1>5, <1>6

\* cmdline_draw
LEMMA CursorShown ==
  ASSUME LAssumptions, LineInv
  PROVE  C!CursorVisible
<1> SUFFICES ASSUME NEW w \in Widths, w >= Len(prefix) + 3
             PROVE  LET d == C!Drawn(w)
                    IN /\ Len(prefix) <= d.cursor /\ d.cursor < w
                       /\ d.shown >= 0
                       /\ d.mark = 0 => d.cursor = Len(prefix) + Len(left)
  BY DEF C!CursorVisible
<1>1. w \in Nat /\ Len(left) \in Nat /\ Len(right) \in Nat
  BY DEF LAssumptions, C!WidthsAssumption, LineInv, Halves
<1>2. Len(prefix) \in Nat
  <2>1. CASE prefix \in Prompts
    BY <2>1 DEF LAssumptions, C!LengthsAssumption
  <2>2. CASE prefix = <<>>
    BY <2>2
  <2> QED
    BY <2>1, <2>2 DEF LineInv
<1> DEFINE p == Len(prefix)
           l == Len(left)
           r == Len(right)
           room == w - p
           h == C!Half(room)
           o == C!Offset(room)
           shown == IF o < 0 THEN l ELSE l - (o + 1)
           mark == IF o < 0 THEN 0 ELSE 1
<1>3. C!Drawn(w) = [cursor |-> p + mark + shown, shown |-> shown, mark |-> mark]
  BY DEF C!Drawn
<1>4. o = IF r = 0 THEN l - room + 1
          ELSE IF r > h THEN l - room + h + 1
          ELSE l - room + r
  BY DEF C!Offset
<1>5. h \in Nat /\ 2 * h <= room /\ room < 2 * h + 2 /\ room \in Nat /\ room >= 3
  BY <1>1, <1>2 DEF C!Half
<1> HIDE DEF h, o
<1>6. p \in Nat /\ l \in Nat /\ r \in Nat /\ w = room + p
  BY <1>1, <1>2
<1> HIDE DEF p, l, r, room
<1>7. o \in Int
  BY <1>4, <1>5, <1>6
<1>8. p <= p + mark + shown /\ p + mark + shown < w /\ shown >= 0
      /\ (mark = 0 => p + mark + shown = p + l)
  BY <1>4, <1>5, <1>6, <1>7
<1> QED
  BY <1>3, <1>8 DEF p, l

LEMMA LineConsistent ==
  ASSUME LAssumptions, LineInv
  PROVE  C!TypeOK /\ C!CursorVisible
<1>1. left \in Seq(Chars) /\ right \in Seq(Chars) /\ Len(left) + Len(right) <= MaxLen
      /\ Len(left) \in Nat /\ Len(right) \in Nat /\ MaxLen \in Nat
  BY DEF LineInv, Halves, LAssumptions, C!LengthsAssumption
<1>2. \A s \in Seq(Chars) : Len(s) <= MaxLen => s \in C!Line
  <2> SUFFICES ASSUME NEW s \in Seq(Chars), Len(s) <= MaxLen
               PROVE  s \in C!Line
    OBVIOUS
  <2>1. s \in [1..Len(s) -> Chars] /\ Len(s) \in 0..MaxLen
    BY <1>1
  <2> QED
    BY <2>1 DEF C!Line
<1>3. Len(left) <= MaxLen /\ Len(right) <= MaxLen
  BY <1>1
<1>4. Len(left \o right) = Len(left) + Len(right)
  BY <1>1
<1>5. C!TypeOK
  BY <1>1, <1>2, <1>3, <1>4 DEF C!TypeOK, C!text, LineInv
<1> QED
  BY <1>5, CursorShown

-----------------------------------------------------------------------------
(* Both side by side *)

TInv == KInv /\ LineInv /\ K!KeysDoWhatTheyAsk

LEMMA KeysSame ==
  ASSUME KInv, K!KeysDoWhatTheyAsk, UNCHANGED keyVars
  PROVE  KInv' /\ K!KeysDoWhatTheyAsk' /\ RecordsStep /\ MenuStep
<1>1. UNCHANGED <<maps, lfm, typed, start, disturbed, last>>
  BY DEF keyVars
<1>2. MapsOK' /\ Sound(lfm)'
  BY <1>1 DEF KInv, KInvOf, MapsOK, Sound
<1>3. Where(lfm, start, typed)'
  <2>1. At(lfm.cur, start, typed) /\ At(lfm.cur_base, start, typed)
    BY DEF KInv, KInvOf, Where
  <2>2. At(lfm.cur, start, typed)'
    BY <1>1, <2>1 DEF At, K!IsNode, K!Mapped
  <2>3. At(lfm.cur_base, start, typed)'
    BY <1>1, <2>1 DEF At, K!IsNode, K!Mapped
  <2> QED
    BY <1>1, <2>2, <2>3 DEF KInv, KInvOf, Where
<1>4. Underway(lfm)'
  <2>1. ASSUME NEW n, Placed(lfm, start, typed, n)
        PROVE  Placed(lfm, start, typed, n)'
    BY <1>1, <2>1 DEF Placed, NodeOf, Begins, BaseNode
  <2> QED
    BY <1>1, <2>1 DEF KInv, KInvOf, Underway
<1>5. KInv'
  BY <1>1, <1>2, <1>3, <1>4 DEF KInvOf, KInv
<1>6. K!KeysDoWhatTheyAsk'
  BY <1>1, AskedSame DEF K!KeysDoWhatTheyAsk
<1>7. RecordsStep
  BY <1>1 DEF RecordsStep, KInv, KInvOf, Sound, Recording
<1>8. MenuStep
  BY <1>1 DEF MenuStep
<1> QED
  BY <1>5, <1>6, <1>7, <1>8

LEMMA LineSame ==
  ASSUME LineInv, UNCHANGED lineVars
  PROVE  LineInv'
BY DEF LineInv, Halves, lineVars

\* Every step, of keys or of the line
LEMMA TerminalStep ==
  ASSUME KAssumptions, LAssumptions, TInv, [Next]_vars
  PROVE  TInv' /\ RecordsStep /\ MenuStep
<1>1. CASE K!Next /\ UNCHANGED lineVars
  BY <1>1, NextKept, LineSame DEF TInv, Kept
<1>2. CASE C!Next /\ UNCHANGED keyVars
  BY <1>2, LineNext, KeysSame DEF TInv
<1>3. CASE UNCHANGED <<keyVars, lineVars>>
  BY <1>3, LineSame, KeysSame DEF TInv
<1> QED
  BY <1>1, <1>2, <1>3 DEF Next, vars

LEMMA TerminalInvariant ==
  ASSUME KAssumptions, LAssumptions
  PROVE  Spec => []TInv
<1>1. Init => TInv
  <2> SUFFICES ASSUME Init
               PROVE  TInv
    OBVIOUS
  <2>1. KInv /\ LineInv
    BY KeyInit, LineInit DEF Init
  <2>2. K!KeysDoWhatTheyAsk
    BY DEF Init, K!Init, K!KeysDoWhatTheyAsk
  <2> QED
    BY <2>1, <2>2 DEF TInv
<1>2. TInv /\ [Next]_vars => TInv'
  BY TerminalStep
<1> QED
  BY <1>1, <1>2, PTL DEF Spec

\* For any keys, mappings, modes and Lua functions: the keys shown are the keys typed,
\* the positions in the tries are where those lead, a menu is of a sequence underway, the
\* flag that refuses recording is set while a macro is played; and for any text and width
\* the cursor of the command line is on the screen (input.c, macro.c, cmdline_draw).
THEOREM InputIsConsistent ==
  ASSUME KAssumptions, LAssumptions
  PROVE  Spec => []InputConsistent
<1>1. TInv => InputConsistent
  <2> SUFFICES ASSUME TInv
               PROVE  InputConsistent
    OBVIOUS
  <2>1. K!TypeOK /\ K!ShownIsTyped /\ K!MenuOfSequence /\ K!PlayingIsUnderway
    BY KeysConsistent DEF TInv
  <2>2. C!TypeOK /\ C!CursorVisible
    BY LineConsistent DEF TInv
  <2> QED
    BY <2>1, <2>2 DEF InputConsistent
<1> QED
  BY <1>1, TerminalInvariant, PTL

\* Each key does what all keys since the last mapping ask for, read off the mappings at
\* once: the longest count in front, the mapping of the mode before the one of its base,
\* however the walk along the two tries went (process_sequence_key, accumulate_digit).
THEOREM EveryKeyDoesWhatIsAsked ==
  ASSUME KAssumptions, LAssumptions
  PROVE  Spec => []KeysDoWhatTheyAsk
<1>1. TInv => KeysDoWhatTheyAsk
  BY DEF TInv, KeysDoWhatTheyAsk
<1> QED
  BY <1>1, TerminalInvariant, PTL

\* The menu that comes up has every mapping that typing on could run, of the mode and of
\* its base (map_suggestion_timer_cb, trie_collect_leaves).
THEOREM NoSuggestionIsMissing ==
  ASSUME KAssumptions, LAssumptions
  PROVE  Spec => MenuIsComplete
<1>1. TInv /\ [Next]_vars => MenuStep
  BY TerminalStep
<1>2. Spec => [][MenuStep]_vars
  BY <1>1, TerminalInvariant, PTL DEF Spec
<1>3. [MenuStep]_vars => [MenuStep]_K!vars
  BY DEF MenuStep, vars, keyVars, lineVars, K!vars
<1>4. MenuIsComplete <=> [][MenuStep]_K!vars
  BY DEF MenuIsComplete, K!MenuIsComplete, MenuStep
<1> QED
  BY <1>2, <1>3, <1>4, PTL

\* A macro gets the keys typed on the terminal while it was recorded, without the last
\* one, whatever keys are fed or played meanwhile (macro_add_key, macro_stop_record).
THEOREM MacrosAreWhatWasTyped ==
  ASSUME KAssumptions, LAssumptions
  PROVE  Spec => RecordsWhatIsTyped
<1>1. TInv /\ [Next]_vars => RecordsStep
  BY TerminalStep
<1>2. Spec => [][RecordsStep]_vars
  BY <1>1, TerminalInvariant, PTL DEF Spec
<1>3. [RecordsStep]_vars => [RecordsStep]_K!vars
  BY DEF RecordsStep, vars, keyVars, lineVars, K!vars
<1>4. RecordsWhatIsTyped <=> [][RecordsStep]_K!vars
  BY DEF RecordsWhatIsTyped, K!RecordsWhatIsTyped, RecordsStep
<1> QED
  BY <1>2, <1>3, <1>4, PTL

\* On a line of any text, moving the cursor keeps the text, deleting takes away a piece
\* next to the cursor, typing replaces at most one character, and words are moved over
\* and deleted as a whole (cmdline_delete_word, cmdline_word_left, cmdline_word_right).
THEOREM EditingKeepsTheLine ==
  ASSUME KAssumptions, LAssumptions
  PROVE  Spec => LineKeepsText
<1> DEFINE Moving == C!Moves => left' \o right' = C!text /\ left' # left
           Editing ==
             /\ C!Deletes => /\ left' = left \/ right' = right
                             /\ C!IsPrefix(left', left) /\ C!IsSuffix(right', right)
             /\ \A c \in Chars : C!Insert(c) =>
                  /\ left' = Append(left, c)
                  /\ Len(right) - Len(right') = (IF overwrite /\ right # <<>> THEN 1 ELSE 0)
           Wordwise ==
             /\ (C!WordLeft \/ C!DeleteWord) /\ left' # <<>> =>
                  ~(C!Word(C!Last(left')) /\ C!Word(left[Len(left') + 1]))
             /\ (C!WordRight /\ right' # <<>>) =>
                  ~(C!Word(C!Last(left')) /\ C!Word(right'[1]))
<1>1. LineInv => Moving /\ Editing /\ Wordwise
  BY LineKept
<1>2. LineKeepsText <=> [][Moving]_C!vars /\ [][Editing]_C!vars /\ [][Wordwise]_C!vars
  BY DEF LineKeepsText, C!MovesKeepText, C!EditsStayAtCursor, C!WordsStayWhole
<1>3. Spec => []LineInv
  <2>1. TInv => LineInv
    BY DEF TInv
  <2> QED
    BY <2>1, TerminalInvariant, PTL
<1> HIDE DEF Moving, Editing, Wordwise
<1> QED
  BY <1>1, <1>2, <1>3, PTL
=============================================================================
