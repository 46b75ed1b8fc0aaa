--------------------------- MODULE ExportRange_proofs -------------------------
(***************************************************************************)
(* For any recordings of a camera and any range, an export is what         *)
(* ExportRange says: its groups and gaps tile the range (EveryRangeTiled),  *)
(* every group is rendered from its first instant (EveryGroupRendered) and  *)
(* each is in one of the files that are made (NothingLeftOut).             *)
(*                                                                         *)
(* The groups are a fold over a sorted sequence.  Both are given to the     *)
(* provers first: a finite set has a sequence in any strict total order,    *)
(* and a fold passes through a state for every element.  Over these states *)
(* Gathered is the invariant of the gathering and Showing that of playing.  *)
(***************************************************************************)
EXTENDS ExportRange, TLAPS, FiniteSetTheorems, SequenceTheorems, WellFoundedInduction

-----------------------------------------------------------------------------
(* Numbers                                                                 *)

\* A set of numbers that has one has a least one.
LEMMA LeastNumber ==
  ASSUME NEW T, T \subseteq Nat, T # {}
  PROVE  \E x \in T : \A y \in T : x <= y
<1> DEFINE less == {p \in Nat \X Nat : p[1] < p[2]}
<1>1. IsWellFoundedOn(less, Nat)
  BY NatLessThanWellFounded DEF OpToRel
<1>2. PICK x \in T : \A y \in T : <<y, x>> \notin less
  <2> HIDE DEF less
  <2> QED BY <1>1, WFMin
<1>3. ASSUME NEW y \in T
      PROVE  x <= y
  <2>1. <<y, x>> \in Nat \X Nat /\ <<y, x>>[1] = y /\ <<y, x>>[2] = x
    OBVIOUS
  <2>2. ~(y < x)
    BY <1>2, <2>1
  <2> QED BY <2>2
<1> QED BY <1>3

-----------------------------------------------------------------------------
(* Orders                                                                  *)

\* before is a strict total order on S.
Ordered(S, before) ==
  /\ \A x \in S : <<x, x>> \notin before
  /\ \A x, y \in S : x # y => <<x, y>> \in before \/ <<y, x>> \in before
  /\ \A x, y, z \in S : <<x, y>> \in before /\ <<y, z>> \in before => <<x, z>> \in before

\* S has a sequence in that order: everyone stands behind those before him.
LEMMA SequenceExists ==
  ASSUME NEW S, IsFiniteSet(S), NEW before, Ordered(S, before)
  PROVE  \E s \in [1..Cardinality(S) -> S] :
            \A j, k \in 1..Cardinality(S) : j < k => <<s[j], s[k]>> \in before
<1> DEFINE n == Cardinality(S)
           Ahead(x) == {y \in S : <<y, x>> \in before}
           place == [x \in S |-> Cardinality(Ahead(x)) + 1]
<1>1. n \in Nat
  BY FS_CardinalityType
<1>2. ASSUME NEW x \in S
      PROVE  IsFiniteSet(Ahead(x)) /\ Cardinality(Ahead(x)) \in Nat /\ Cardinality(Ahead(x)) < n
  <2>1. Ahead(x) \in SUBSET S /\ x \notin Ahead(x)
    BY DEF Ordered
  <2> HIDE DEF Ahead
  <2>2. /\ IsFiniteSet(Ahead(x)) /\ Cardinality(Ahead(x)) <= n
        /\ n = Cardinality(Ahead(x)) => S = Ahead(x)
    BY <2>1, FS_Subset
  <2>3. Cardinality(Ahead(x)) \in Nat
    BY <2>2, FS_CardinalityType
  <2> QED BY <1>1, <2>1, <2>2, <2>3
<1>3. ASSUME NEW x \in S, NEW y \in S, <<x, y>> \in before
      PROVE  place[x] < place[y]
  <2>1. Ahead(x) \in SUBSET Ahead(y) /\ x \in Ahead(y) /\ x \notin Ahead(x)
    BY <1>3 DEF Ordered
  <2>2. IsFiniteSet(Ahead(y)) /\ Cardinality(Ahead(y)) \in Nat /\ Cardinality(Ahead(x)) \in Nat
    BY <1>2
  <2> HIDE DEF Ahead
  <2>3. /\ Cardinality(Ahead(x)) <= Cardinality(Ahead(y))
        /\ Cardinality(Ahead(y)) = Cardinality(Ahead(x)) => Ahead(y) = Ahead(x)
    BY <2>1, <2>2, FS_Subset
  <2> QED BY <2>1, <2>2, <2>3
<1>4. place \in [S -> 1..n]
  <2> HIDE DEF Ahead
  <2>1. \A x \in S : Cardinality(Ahead(x)) + 1 \in 1..n
    BY <1>1, <1>2
  <2> QED BY <2>1
<1> HIDE DEF place
<1>5. place \in Injection(S, 1..n)
  <2>1. ASSUME NEW x \in S, NEW y \in S, x # y
        PROVE  place[x] # place[y]
    <3>1. place[x] \in Int /\ place[y] \in Int
      BY <1>1, <1>4
    <3>2. <<x, y>> \in before \/ <<y, x>> \in before
      BY <2>1 DEF Ordered
    <3>3. place[x] < place[y] \/ place[y] < place[x]
      BY <1>3, <3>2
    <3> QED BY <3>1, <3>3
  <2> QED BY <2>1, <1>4 DEF Injection, IsInjective
<1>6. IsFiniteSet(1..n) /\ Cardinality(1..n) = n
  BY <1>1, FS_Interval
<1>7. place \in Surjection(S, 1..n)
  BY <1>5, <1>6, FS_Injection
<1>8. \A k \in 1..n : \E x \in S : place[x] = k
  BY <1>7 DEF Surjection
<1> DEFINE s == [k \in 1..n |-> CHOOSE x \in S : place[x] = k]
<1>9. \A k \in 1..n : s[k] \in S /\ place[s[k]] = k
  BY <1>8
<1>10. s \in [1..n -> S]
  BY <1>9
<1> HIDE DEF s
<1>11. ASSUME NEW j \in 1..n, NEW k \in 1..n, j < k
       PROVE  <<s[j], s[k]>> \in before
  <2>1. s[j] \in S /\ s[k] \in S /\ place[s[j]] = j /\ place[s[k]] = k
    BY <1>9
  <2>2. j \in Int /\ k \in Int
    BY <1>1
  <2>3. s[j] # s[k]
    BY <2>1, <2>2, <1>11
  <2>4. CASE <<s[k], s[j]>> \in before
    BY <2>1, <2>2, <2>4, <1>3, <1>11
  <2> QED BY <2>1, <2>3, <2>4 DEF Ordered
<1> QED BY <1>10, <1>11

\* A sequence in that order, and one that has each of S once.
Rising(S, before, s) ==
  /\ s \in [1..Cardinality(S) -> S]
  /\ \A j, k \in 1..Cardinality(S) : j < k => <<s[j], s[k]>> \in before
Once(S, s) ==
  /\ \A r \in S : \E k \in 1..Cardinality(S) : s[k] = r
  /\ \A j, k \in 1..Cardinality(S) : s[j] = s[k] => j = k

\* The first is the second.
LEMMA SequenceOnce ==
  ASSUME NEW S, IsFiniteSet(S), NEW before, Ordered(S, before), NEW s, Rising(S, before, s)
  PROVE  Once(S, s)
<1> DEFINE n == Cardinality(S)
<1>1. n \in Nat
  BY FS_CardinalityType
<1>2. ASSUME NEW j \in 1..n, NEW k \in 1..n, j # k
      PROVE  s[j] # s[k]
  <2>1. j \in Int /\ k \in Int
    BY <1>1
  <2>2. j < k \/ k < j
    BY <2>1, <1>2
  <2>3. <<s[j], s[k]>> \in before \/ <<s[k], s[j]>> \in before
    BY <2>2 DEF Rising
  <2>4. s[j] \in S
    BY DEF Rising
  <2> QED BY <2>3, <2>4 DEF Ordered
<1>3. s \in Injection(1..n, S)
  BY <1>2 DEF Injection, IsInjective, Rising
<1>4. IsFiniteSet(1..n) /\ Cardinality(1..n) = n
  BY <1>1, FS_Interval
<1>5. s \in Surjection(1..n, S)
  BY <1>3, <1>4, FS_Injection
<1> QED BY <1>2, <1>5 DEF Surjection, Once

Recording == [id : Nat, start : Int, end : Int, ready : BOOLEAN, file : BOOLEAN]
Distinct(S) == \A r, q \in S : r.id = q.id => r = q

\* What a sequence of all of S by their start looks like.
Arranged(S, s) ==
  /\ s \in [1..Cardinality(S) -> S]
  /\ \A r \in S : \E k \in 1..Cardinality(S) : s[k] = r
  /\ \A j, k \in 1..Cardinality(S) : s[j] = s[k] => j = k
  /\ \A j, k \in 1..Cardinality(S) : j <= k => s[j].start <= s[k].start

\* sorted() puts clipped sources in an arrangement of all of them.
LEMMA InOrderIs ==
  ASSUME NEW S, IsFiniteSet(S), S \subseteq Recording, Distinct(S)
  PROVE  Arranged(S, InOrder(S))
<1> DEFINE before == {p \in S \X S : Earlier(p[1], p[2])}
           n == Cardinality(S)
           s == InOrder(S)
<1>1. n \in Nat
  BY FS_CardinalityType
<1>2. \A x, y \in S : <<x, y>> \in before <=> Earlier(x, y)
  OBVIOUS
<1> HIDE DEF before
<1>3. \A x \in S : x.start \in Int /\ x.end \in Int /\ x.id \in Nat
  BY DEF Recording
<1>4. Ordered(S, before)
  <2>1. \A x \in S : ~Earlier(x, x)
    BY <1>3 DEF Earlier
  <2>2. \A x, y \in S : x # y => Earlier(x, y) \/ Earlier(y, x)
    BY <1>3 DEF Earlier, Distinct
  <2>3. \A x, y, z \in S : Earlier(x, y) /\ Earlier(y, z) => Earlier(x, z)
    BY <1>3 DEF Earlier
  <2> QED BY <1>2, <2>1, <2>2, <2>3 DEF Ordered
<1>5. \E q \in [1..n -> S] : \A j, k \in 1..n : j < k => Earlier(q[j], q[k])
  <2>1. PICK q \in [1..n -> S] : \A j, k \in 1..n : j < k => <<q[j], q[k]>> \in before
    BY <1>4, SequenceExists
  <2>2. \A k \in 1..n : q[k] \in S
    OBVIOUS
  <2> QED BY <1>2, <2>1, <2>2
<1>6. s \in [1..n -> S] /\ \A j, k \in 1..n : j < k => Earlier(s[j], s[k])
  BY <1>5, Zenon DEF InOrder, Sorted
<1> HIDE DEF s
<1>7. \A k \in 1..n : s[k] \in S
  BY <1>6
<1>8. /\ \A r \in S : \E k \in 1..n : s[k] = r
      /\ \A j, k \in 1..n : s[j] = s[k] => j = k
  <2>1. \A j, k \in 1..n : j < k => <<s[j], s[k]>> \in before
    BY <1>2, <1>6, <1>7
  <2>2. Rising(S, before, s)
    BY <1>6, <2>1 DEF Rising
  <2>3. Once(S, s)
    BY <1>4, <2>2, SequenceOnce
  <2> QED BY <2>3 DEF Once
<1>9. ASSUME NEW j \in 1..n, NEW k \in 1..n, j <= k
      PROVE  s[j].start <= s[k].start
  <2>1. s[j].start \in Int /\ s[k].start \in Int
    BY <1>3, <1>7
  <2>2. CASE j < k
    BY <2>1, <2>2, <1>6 DEF Earlier
  <2>3. CASE j = k
    BY <2>1, <2>3
  <2> QED BY <1>1, <1>9, <2>2, <2>3
<1> QED BY <1>6, <1>8, <1>9 DEF Arranged, s

\* So does the sort of a group's files.
LEMMA ByStartIs ==
  ASSUME NEW S, IsFiniteSet(S), S \subseteq Recording, Distinct(S)
  PROVE  Arranged(S, Sorted(S, ByStart))
<1> DEFINE before == {p \in S \X S : ByStart(p[1], p[2])}
           n == Cardinality(S)
           s == Sorted(S, ByStart)
<1>1. n \in Nat
  BY FS_CardinalityType
<1>2. \A x, y \in S : <<x, y>> \in before <=> ByStart(x, y)
  OBVIOUS
<1> HIDE DEF before
<1>3. \A x \in S : x.start \in Int /\ x.id \in Nat
  BY DEF Recording
<1>4. Ordered(S, before)
  <2>1. \A x \in S : ~ByStart(x, x)
    BY <1>3 DEF ByStart
  <2>2. \A x, y \in S : x # y => ByStart(x, y) \/ ByStart(y, x)
    BY <1>3 DEF ByStart, Distinct
  <2>3. \A x, y, z \in S : ByStart(x, y) /\ ByStart(y, z) => ByStart(x, z)
    BY <1>3 DEF ByStart
  <2> QED BY <1>2, <2>1, <2>2, <2>3 DEF Ordered
<1>5. \E q \in [1..n -> S] : \A j, k \in 1..n : j < k => ByStart(q[j], q[k])
  <2>1. PICK q \in [1..n -> S] : \A j, k \in 1..n : j < k => <<q[j], q[k]>> \in before
    BY <1>4, SequenceExists
  <2>2. \A k \in 1..n : q[k] \in S
    OBVIOUS
  <2> QED BY <1>2, <2>1, <2>2
<1>6. s \in [1..n -> S] /\ \A j, k \in 1..n : j < k => ByStart(s[j], s[k])
  BY <1>5, Zenon DEF Sorted
<1> HIDE DEF s
<1>7. \A k \in 1..n : s[k] \in S
  BY <1>6
<1>8. /\ \A r \in S : \E k \in 1..n : s[k] = r
      /\ \A j, k \in 1..n : s[j] = s[k] => j = k
  <2>1. \A j, k \in 1..n : j < k => <<s[j], s[k]>> \in before
    BY <1>2, <1>6, <1>7
  <2>2. Rising(S, before, s)
    BY <1>6, <2>1 DEF Rising
  <2>3. Once(S, s)
    BY <1>4, <2>2, SequenceOnce
  <2> QED BY <2>3 DEF Once
<1>9. ASSUME NEW j \in 1..n, NEW k \in 1..n, j <= k
      PROVE  s[j].start <= s[k].start
  <2>1. s[j].start \in Int /\ s[k].start \in Int
    BY <1>3, <1>7
  <2>2. CASE j < k
    BY <2>1, <2>2, <1>6 DEF ByStart
  <2>3. CASE j = k
    BY <2>1, <2>3
  <2> QED BY <1>1, <1>9, <2>2, <2>3
<1> QED BY <1>6, <1>8, <1>9 DEF Arranged, s

-----------------------------------------------------------------------------
(* Folds from the left                                                     *)

\* The largest of some of the numbers up to n, and what is left without it.
LEMMA LargestIs ==
  ASSUME NEW n \in Nat, NEW s \in SUBSET (1..n), s # {}
  PROVE  Max(s) \in s /\ \A k \in s : k <= Max(s)
<1> DEFINE T == {n - k : k \in s}
<1>1. \A k \in s : k \in Nat /\ k <= n /\ n - k \in Nat
  OBVIOUS
<1>2. T \subseteq Nat /\ T # {}
  BY <1>1
<1>3. PICK t \in T : \A u \in T : t <= u
  <2> HIDE DEF T
  <2> QED BY <1>2, LeastNumber
<1>4. PICK m \in s : t = n - m
  BY <1>3
<1>5. \A k \in s : m >= k
  BY <1>1, <1>3, <1>4
<1>6. Max(s) \in s /\ \A k \in s : Max(s) >= k
  BY <1>5, Zenon DEF Max
<1> QED BY <1>1, <1>6

\* The function that a fold of G over the first numbers defines.
Folds(G, base, D, h) ==
  h = [s \in SUBSET D |-> IF s = {} THEN base ELSE G[<<h[s \ {Max(s)}], Max(s)>>]]

\* It exists, one number more at a time.
LEMMA FoldExists ==
  ASSUME NEW n \in Nat, NEW V, NEW base \in V, NEW G \in [V \X (1..n) -> V]
  PROVE  \E h \in [SUBSET (1..n) -> V] : Folds(G, base, 1..n, h)
<1> DEFINE Good(k) == \E h \in [SUBSET (1..k) -> V] : Folds(G, base, 1..k, h)
           T == {k \in 0..n : ~Good(k)}
<1> SUFFICES ASSUME T # {}
             PROVE  FALSE
  <2>1. n \in 0..n
    OBVIOUS
  <2> QED BY <2>1
<1>1. PICK k \in T : \A j \in T : k <= j
  <2>1. T \subseteq Nat
    OBVIOUS
  <2> HIDE DEF T
  <2> QED BY <2>1, LeastNumber
<1>2. k \in 0..n /\ ~Good(k)
  BY <1>1
<1>3. CASE k = 0
  <2> DEFINE h == [s \in SUBSET (1..0) |-> base]
  <2>1. \A s \in SUBSET (1..0) : s = {}
    OBVIOUS
  <2>2. h \in [SUBSET (1..0) -> V]
    OBVIOUS
  <2>3. h = [s \in SUBSET (1..0) |-> IF s = {} THEN base ELSE G[<<h[s \ {Max(s)}], Max(s)>>]]
    <3>1. \A s \in SUBSET (1..0) :
            h[s] = IF s = {} THEN base ELSE G[<<h[s \ {Max(s)}], Max(s)>>]
      BY <2>1
    <3> QED BY <3>1
  <2>4. Good(0)
    <3> HIDE DEF h
    <3> QED BY <2>2, <2>3 DEF Folds
  <2> QED BY <1>2, <1>3, <2>4
<1>4. CASE k # 0
  <2>1. k \in Nat /\ k - 1 \in 0..n /\ k \in 1..n
    BY <1>2, <1>4
  <2>2. Good(k - 1)
    <3> SUFFICES ASSUME ~Good(k - 1)
                 PROVE  FALSE
      OBVIOUS
    <3>1. k - 1 \in T
      BY <2>1
    <3>2. k <= k - 1
      BY <1>1, <3>1
    <3> QED BY <2>1, <3>2
  <2>3. PICK g \in [SUBSET (1..(k - 1)) -> V] : Folds(G, base, 1..(k - 1), g)
    BY <2>2
  <2>4. \A s \in SUBSET (1..(k - 1)) :
           g[s] = IF s = {} THEN base ELSE G[<<g[s \ {Max(s)}], Max(s)>>]
    BY <2>3, Zenon DEF Folds
  <2> DEFINE h == [s \in SUBSET (1..k) |-> IF k \in s THEN G[<<g[s \ {k}], k>>] ELSE g[s]]
  <2>5. \A s \in SUBSET (1..k) : /\ k \notin s => s \in SUBSET (1..(k - 1))
                                 /\ s \ {k} \in SUBSET (1..(k - 1))
    BY <2>1
  <2>6. h \in [SUBSET (1..k) -> V]
    <3>1. ASSUME NEW s \in SUBSET (1..k)
          PROVE  (IF k \in s THEN G[<<g[s \ {k}], k>>] ELSE g[s]) \in V
      <4>1. g[s \ {k}] \in V
        BY <2>5
      <4>2. k \notin s => g[s] \in V
        BY <2>5
      <4>3. <<g[s \ {k}], k>> \in V \X (1..n)
        BY <2>1, <4>1
      <4> QED BY <4>2, <4>3
    <3> QED BY <3>1
  <2>7. ASSUME NEW s \in SUBSET (1..k)
        PROVE  h[s] = IF s = {} THEN base ELSE G[<<h[s \ {Max(s)}], Max(s)>>]
    <3>1. CASE k \in s
      <4>1. Max(s) = k
        <5>1. Max(s) \in s /\ \A j \in s : j <= Max(s)
          BY <2>1, <3>1, LargestIs
        <5>2. Max(s) \in 1..k /\ k <= Max(s)
          BY <3>1, <5>1
        <5> QED BY <2>1, <5>2
      <4>2. h[s] = G[<<g[s \ {k}], k>>]
        BY <3>1
      <4>3. h[s \ {k}] = g[s \ {k}]
        OBVIOUS
      <4> HIDE DEF h
      <4> QED BY <3>1, <4>1, <4>2, <4>3
    <3>2. CASE k \notin s
      <4>1. s \in SUBSET (1..(k - 1))
        BY <3>2, <2>5
      <4>2. h[s] = g[s] /\ h[s \ {Max(s)}] = g[s \ {Max(s)}]
        BY <3>2
      <4> HIDE DEF h
      <4> QED BY <2>4, <4>1, <4>2
    <3> QED BY <3>1, <3>2
  <2>8. Good(k)
    <3>1. h = [s \in SUBSET (1..k) |-> IF s = {} THEN base ELSE G[<<h[s \ {Max(s)}], Max(s)>>]]
      BY <2>7
    <3> HIDE DEF h
    <3> QED BY <2>6, <3>1 DEF Folds
  <2> QED BY <1>2, <2>8
<1> QED BY <1>3, <1>4

\* The numbers up to k are k and those before it.
LEMMA UpTo ==
  ASSUME NEW k \in Nat, k # 0
  PROVE  1..k # {} /\ Max(1..k) = k /\ (1..k) \ {k} = 1..(k - 1)
<1>1. k \in 1..k /\ 1..k # {} /\ 1..k \in SUBSET (1..k)
  OBVIOUS
<1>2. Max(1..k) \in 1..k /\ \A j \in 1..k : j <= Max(1..k)
  BY <1>1, LargestIs
<1>3. Max(1..k) = k
  BY <1>1, <1>2
<1> QED BY <1>1, <1>3

\* The value of all numbers is reached number by number.
Climbs(n, V, base, G, h) ==
  /\ n \in Nat /\ base \in V /\ G \in [V \X (1..n) -> V]
  /\ h[{}] = base
  /\ \A k \in 1..n : h[1..(k - 1)] \in V => h[1..k] = G[<<h[1..(k - 1)], k>>]
States(n, V, base, G, st) ==
  /\ st \in [0..n -> V] /\ st[0] = base
  /\ \A k \in 1..n : st[k] = G[<<st[k - 1], k>>]

Reaches(n, V, base, G, h) == \E st : States(n, V, base, G, st) /\ h[1..n] = st[n]

\* It passes through a state for every number.
LEMMA FoldSteps ==
  ASSUME NEW n, NEW V, NEW base, NEW G, NEW h, Climbs(n, V, base, G, h)
  PROVE  Reaches(n, V, base, G, h)
<1>0. n \in Nat /\ base \in V /\ G \in [V \X (1..n) -> V]
  BY DEF Climbs
<1> DEFINE st == [k \in 0..n |-> h[1..k]]
           T == {k \in 0..n : st[k] \notin V}
<1>1. \A k \in 0..n : st[k] = h[1..k]
  OBVIOUS
<1>2. st = [k \in 0..n |-> st[k]]
  OBVIOUS
<1> HIDE DEF st
<1>3. st[0] = base
  <2>1. 1..0 = {} /\ 0 \in 0..n
    BY <1>0
  <2> QED BY <1>1, <2>1 DEF Climbs
<1>4. ASSUME NEW k \in 1..n, st[k - 1] \in V
      PROVE  st[k] = G[<<st[k - 1], k>>] /\ st[k] \in V
  <2>1. k \in 0..n /\ k - 1 \in 0..n
    BY <1>0
  <2>2. st[k] = G[<<st[k - 1], k>>]
    BY <1>1, <1>4, <2>1 DEF Climbs
  <2>3. <<st[k - 1], k>> \in V \X (1..n)
    BY <1>4
  <2> QED BY <1>0, <2>2, <2>3
<1>5. T = {}
  <2> SUFFICES ASSUME T # {}
               PROVE  FALSE
    OBVIOUS
  <2>1. PICK k \in T : \A j \in T : k <= j
    <3>1. T \subseteq Nat
      BY <1>0
    <3> HIDE DEF T
    <3> QED BY <3>1, LeastNumber
  <2>2. k \in 0..n /\ st[k] \notin V
    BY <2>1
  <2>3. k # 0
    BY <1>0, <1>3, <2>2
  <2>4. k - 1 \in 0..n /\ k \in 1..n
    BY <1>0, <2>2, <2>3
  <2>5. st[k - 1] \in V
    <3> SUFFICES ASSUME st[k - 1] \notin V
                 PROVE  FALSE
      OBVIOUS
    <3>1. k <= k - 1
      BY <2>1, <2>4
    <3> QED BY <1>0, <2>4, <3>1
  <2> QED BY <1>4, <2>2, <2>4, <2>5
<1>6. \A k \in 0..n : st[k] \in V
  BY <1>5
<1>7. st \in [0..n -> V]
  BY <1>2, <1>6
<1>8. ASSUME NEW k \in 1..n
      PROVE  st[k] = G[<<st[k - 1], k>>]
  <2>1. k - 1 \in 0..n
    BY <1>0
  <2> QED BY <1>4, <1>6, <2>1
<1>9. h[1..n] = st[n]
  BY <1>0, <1>1
<1> QED BY <1>3, <1>7, <1>8, <1>9 DEF States, Reaches

Interval == [start : Int, end : Int, ids : SUBSET Nat]

\* A source that begins later than slack after the last interval opens a new one,
\* any other extends the last.
Opens(gs, new, c) ==
  /\ Len(new) = Len(gs) + 1
  /\ \A k \in 1..Len(gs) : new[k] = gs[k]
  /\ new[Len(gs) + 1].start = c.start /\ new[Len(gs) + 1].end = c.end
  /\ new[Len(gs) + 1].ids = {c.id}
Grows(gs, new, c) ==
  /\ Len(new) = Len(gs)
  /\ \A k \in 1..(Len(gs) - 1) : new[k] = gs[k]
  /\ new[Len(gs)].start = gs[Len(gs)].start
  /\ new[Len(gs)].end = Larger(gs[Len(gs)].end, c.end)
  /\ new[Len(gs)].ids = gs[Len(gs)].ids \cup {c.id}

\* Gather opens an interval or lets the last one grow.
LEMMA GatherIs ==
  ASSUME NEW slack \in Nat, NEW gs \in Seq(Interval), NEW c \in Recording
  PROVE  /\ Gather(slack, gs, c) \in Seq(Interval) /\ Len(gs) \in Nat
         /\ Len(gs) = 0 \/ c.start > gs[Len(gs)].end + slack =>
              Opens(gs, Gather(slack, gs, c), c)
         /\ Len(gs) # 0 /\ c.start <= gs[Len(gs)].end + slack =>
              Grows(gs, Gather(slack, gs, c), c)
<1> DEFINE new == Gather(slack, gs, c)
           n == Len(gs)
           opened == [start |-> c.start, end |-> c.end, ids |-> {c.id}]
           grown == [start |-> gs[n].start, end |-> Larger(gs[n].end, c.end),
                     ids |-> gs[n].ids \cup {c.id}]
<1>1. n \in Nat /\ (gs = <<>> <=> n = 0) /\ \A k \in 1..n : gs[k] \in Interval
  BY EmptySeq, LenProperties, ElementOfSeq
<1>2. c.start \in Int /\ c.end \in Int /\ c.id \in Nat
  BY DEF Recording
<1>3. opened \in Interval
  BY <1>2 DEF Interval
<1>4. n # 0 => gs[n].start \in Int /\ gs[n].end \in Int /\ gs[n].ids \in SUBSET Nat
  BY <1>1 DEF Interval
<1>5. n # 0 => grown \in Interval
  BY <1>2, <1>4 DEF Interval, Larger
<1>6. CASE n = 0 \/ c.start > gs[n].end + slack
  <2>1. new = Append(gs, opened)
    BY <1>1, <1>6 DEF Gather
  <2>2. /\ new \in Seq(Interval) /\ Len(new) = n + 1
        /\ \A k \in 1..n : new[k] = gs[k]
        /\ new[n + 1] = opened
    BY <1>3, <2>1, AppendProperties
  <2>3. n # 0 => ~(c.start <= gs[n].end + slack)
    BY <1>2, <1>4, <1>6
  <2>4. Opens(gs, new, c)
    BY <2>2 DEF Opens
  <2> QED BY <1>1, <2>2, <2>3, <2>4
<1>7. CASE n # 0 /\ c.start <= gs[n].end + slack
  <2>1. ~(c.start > gs[n].end + slack)
    BY <1>2, <1>4, <1>7
  <2>2. new = [gs EXCEPT ![n] = grown]
    BY <1>1, <1>7, <2>1 DEF Gather
  <2>3. n \in 1..n
    BY <1>1, <1>7
  <2>4. /\ new \in Seq(Interval) /\ Len(new) = n
        /\ \A k \in 1..n : new[k] = IF k = n THEN grown ELSE gs[k]
    BY <1>5, <1>7, <2>2, <2>3, ExceptSeq
  <2>5. \A k \in 1..(n - 1) : k \in 1..n /\ k # n
    BY <1>1
  <2> HIDE DEF new
  <2>6. Grows(gs, new, c)
    BY <2>3, <2>4, <2>5 DEF Grows
  <2> QED BY <1>1, <1>7, <2>1, <2>4, <2>6 DEF new
<1>8. n # 0 => c.start > gs[n].end + slack \/ c.start <= gs[n].end + slack
  BY <1>2, <1>4
<1> QED BY <1>6, <1>7, <1>8

\* Gathering a sequence is a chain of its steps.
LEMMA GatherSteps ==
  ASSUME NEW slack \in Nat, NEW n \in Nat, NEW s \in [1..n -> Recording]
  PROVE  \E st \in [0..n -> Seq(Interval)] :
            /\ st[0] = <<>>
            /\ \A k \in 1..n : st[k] = Gather(slack, st[k - 1], s[k])
            /\ FoldLeft(LAMBDA groups, source : Gather(slack, groups, source), <<>>, s) = st[n]
<1> DEFINE V == Seq(Interval)
           G == [p \in V \X (1..n) |-> Gather(slack, p[1], s[p[2]])]
           none == <<>>
           Iter == CHOOSE iter :
             iter = [q \in SUBSET DOMAIN s |-> IF q = {} THEN <<>>
                       ELSE Gather(slack, iter[q \ {Max(q)}], s[Max(q)])]
<1>1. DOMAIN s = 1..n
  OBVIOUS
<1>2. \A v \in V, k \in 1..n : Gather(slack, v, s[k]) \in V
  BY GatherIs
<1>3. G \in [V \X (1..n) -> V]
  BY <1>2
<1>4. \A v \in V, k \in 1..n : G[<<v, k>>] = Gather(slack, v, s[k])
  OBVIOUS
<1>5. none \in V /\ none = <<>>
  OBVIOUS
<1> HIDE DEF G, V, none
<1>6. PICK h \in [SUBSET (1..n) -> V] : Folds(G, none, 1..n, h)
  BY <1>3, <1>5, FoldExists
<1>7. h = [q \in SUBSET DOMAIN s |-> IF q = {} THEN <<>>
             ELSE Gather(slack, h[q \ {Max(q)}], s[Max(q)])]
  <2>1. ASSUME NEW q \in SUBSET (1..n)
        PROVE  h[q] = IF q = {} THEN <<>> ELSE Gather(slack, h[q \ {Max(q)}], s[Max(q)])
    <3>1. h[q] = IF q = {} THEN <<>> ELSE G[<<h[q \ {Max(q)}], Max(q)>>]
      BY <1>5, <1>6, Zenon DEF Folds
    <3>2. q # {} => Max(q) \in 1..n
      BY LargestIs
    <3>3. h[q \ {Max(q)}] \in V
      OBVIOUS
    <3> QED BY <1>4, <3>1, <3>2, <3>3
  <2>2. h = [q \in SUBSET (1..n) |-> h[q]]
    OBVIOUS
  <2> QED BY <1>1, <2>1, <2>2
<1>8. Iter = [q \in SUBSET DOMAIN s |-> IF q = {} THEN <<>>
                ELSE Gather(slack, Iter[q \ {Max(q)}], s[Max(q)])]
  BY <1>7, Zenon
<1>9. FoldLeft(LAMBDA groups, source : Gather(slack, groups, source), <<>>, s) = Iter[1..n]
  <2>1. FoldLeft(LAMBDA groups, source : Gather(slack, groups, source), <<>>, s) = Iter[DOMAIN s]
    BY Zenon DEF FoldLeft, MapThenFoldSet
  <2> QED BY <1>1, <2>1
<1> HIDE DEF Iter
<1>10. \A q \in SUBSET (1..n) :
          Iter[q] = IF q = {} THEN <<>> ELSE Gather(slack, Iter[q \ {Max(q)}], s[Max(q)])
  BY <1>1, <1>8, Zenon
<1>11. Iter[{}] = <<>>
  BY <1>10
<1>12. ASSUME NEW k \in 1..n, Iter[1..(k - 1)] \in V
       PROVE  Iter[1..k] = G[<<Iter[1..(k - 1)], k>>]
  <2>1. k \in Nat /\ k # 0 /\ 1..k \in SUBSET (1..n)
    OBVIOUS
  <2>2. 1..k # {} /\ Max(1..k) = k /\ (1..k) \ {k} = 1..(k - 1)
    BY <2>1, UpTo
  <2>3. Iter[1..k] = Gather(slack, Iter[(1..k) \ {k}], s[k])
    BY <1>10, <2>1, <2>2
  <2> QED BY <1>4, <1>12, <2>2, <2>3
<1>13. PICK st : States(n, V, none, G, st) /\ Iter[1..n] = st[n]
  <2>1. Climbs(n, V, none, G, Iter)
    BY <1>3, <1>5, <1>11, <1>12 DEF Climbs
  <2>2. Reaches(n, V, none, G, Iter)
    BY <2>1, FoldSteps
  <2> QED BY <2>2 DEF Reaches
<1>14. \A k \in 1..n : st[k] = Gather(slack, st[k - 1], s[k])
  <2>1. ASSUME NEW k \in 1..n
        PROVE  st[k - 1] \in V
    BY <1>13 DEF States
  <2> QED BY <1>4, <1>13, <2>1 DEF States
<1>15. st \in [0..n -> V] /\ st[0] = <<>>
  BY <1>5, <1>13 DEF States
<1> QED BY <1>9, <1>13, <1>14, <1>15 DEF V

-----------------------------------------------------------------------------
(* Sources                                                                 *)

\* Rows of a camera, and recordings inside a range.
Rows(rows) ==
  /\ IsFiniteSet(rows) /\ rows \subseteq Recording /\ Distinct(rows)
  /\ \A r \in rows : r.start < r.end
InRange(S, lower, upper) ==
  /\ IsFiniteSet(S) /\ S \subseteq Recording /\ Distinct(S)
  /\ \A c \in S : lower <= c.start /\ c.start < c.end /\ c.end <= upper

ClipOf(c, r, lower, upper) ==
  /\ c \in Recording /\ c.id = r.id /\ c.ready = r.ready /\ c.file = r.file
  /\ c.start = Larger(r.start, lower) /\ c.end = Smaller(r.end, upper)
  /\ lower <= c.start /\ c.start < c.end /\ c.end <= upper
  /\ r.start <= c.start /\ c.end <= r.end

\* A source that is clipped keeps what it is, and lies in the range.
LEMMA ClipIs ==
  ASSUME NEW lower \in Int, NEW upper \in Int, lower < upper,
         NEW rows, Rows(rows), NEW r \in Sources(rows, lower, upper)
  PROVE  ClipOf(Clip(r, lower, upper), r, lower, upper)
<1> DEFINE c == Clip(r, lower, upper)
<1>1. /\ r \in Recording /\ r.start \in Int /\ r.end \in Int
      /\ r.start < r.end /\ r.start < upper /\ r.end > lower
  BY DEF Sources, Rows, Recording
<1>2. /\ Larger(r.start, lower) \in Int /\ Smaller(r.end, upper) \in Int
  BY <1>1 DEF Larger, Smaller
<1>3. c = [r EXCEPT !.start = Larger(r.start, lower), !.end = Smaller(r.end, upper)]
  BY <1>1 DEF Clip
<1>4. /\ c.id = r.id /\ c.ready = r.ready /\ c.file = r.file
      /\ c.start = Larger(r.start, lower) /\ c.end = Smaller(r.end, upper)
  BY <1>1, <1>3, Zenon DEF Recording
<1>5. c \in Recording
  BY <1>1, <1>2, <1>3, Zenon DEF Recording
<1> HIDE DEF c
<1>6. /\ lower <= c.start /\ c.start < c.end /\ c.end <= upper
      /\ r.start <= c.start /\ c.end <= r.end
  BY <1>1, <1>4 DEF Larger, Smaller
<1> QED BY <1>4, <1>5, <1>6 DEF ClipOf, c

\* What is there and what is not, clipped to the range.
Taken(rows, lower, upper, there) == {c \in Clipped(rows, lower, upper) : c.file = there}

TakenFrom(rows, lower, upper, there) ==
  /\ InRange(Taken(rows, lower, upper, there), lower, upper)
  /\ \A r \in Sources(rows, lower, upper) :
        r.file = there => Clip(r, lower, upper) \in Taken(rows, lower, upper, there)
  /\ \A c \in Taken(rows, lower, upper, there) :
        \E r \in Sources(rows, lower, upper) : r.file = there /\ c = Clip(r, lower, upper)

\* They are a finite set inside the range, one for each source.
LEMMA TakenIs ==
  ASSUME NEW lower \in Int, NEW upper \in Int, lower < upper, NEW rows, Rows(rows),
         NEW there \in BOOLEAN
  PROVE  TakenFrom(rows, lower, upper, there)
<1> DEFINE src == Sources(rows, lower, upper)
           C == Clipped(rows, lower, upper)
           T == Taken(rows, lower, upper, there)
           f == [r \in src |-> Clip(r, lower, upper)]
<1>1. src \subseteq rows /\ IsFiniteSet(src)
  <2>1. src \in SUBSET rows
    BY DEF Sources
  <2>2. IsFiniteSet(rows)
    BY DEF Rows
  <2> HIDE DEF src
  <2> QED BY <2>1, <2>2, FS_Subset
<1>2. \A r \in src : ClipOf(Clip(r, lower, upper), r, lower, upper)
  BY ClipIs
<1>3. \A r \in src : Clip(r, lower, upper) \in C
  <2>1. \A r \in src : Clip(r, lower, upper).end > Clip(r, lower, upper).start
    BY <1>2 DEF ClipOf, Recording
  <2> HIDE DEF src
  <2> QED BY <2>1 DEF Clipped, src
<1>4. \A c \in C : \E r \in src : c = Clip(r, lower, upper)
  BY DEF Clipped
<1> HIDE DEF src, C
<1>5. IsFiniteSet(C)
  <2>1. f \in Surjection(src, C)
    BY <1>3, <1>4 DEF Surjection
  <2> QED BY <1>1, <2>1, FS_Surjection
<1>6. T \in SUBSET C /\ T = {c \in C : c.file = there}
  BY DEF Taken, C
<1> HIDE DEF T
<1>7. IsFiniteSet(T)
  BY <1>5, <1>6, FS_Subset
<1>8. \A r \in src : r.file = there => Clip(r, lower, upper) \in T
  BY <1>2, <1>3, <1>6 DEF ClipOf
<1>9. \A c \in T : \E r \in src : r.file = there /\ c = Clip(r, lower, upper)
  BY <1>2, <1>4, <1>6 DEF ClipOf
<1>10. Distinct(T)
  <2>1. ASSUME NEW c \in T, NEW d \in T, c.id = d.id
        PROVE  c = d
    <3>1. PICK r \in src : c = Clip(r, lower, upper)
      BY <1>9
    <3>2. PICK q \in src : d = Clip(q, lower, upper)
      BY <1>9
    <3>3. r.id = q.id
      BY <1>2, <2>1, <3>1, <3>2 DEF ClipOf
    <3>4. r = q
      BY <1>1, <3>3 DEF Rows, Distinct
    <3> QED BY <3>1, <3>2, <3>4
  <2> QED BY <2>1 DEF Distinct
<1>11. T \subseteq Recording /\ \A c \in T : lower <= c.start /\ c.start < c.end /\ c.end <= upper
  BY <1>2, <1>9 DEF ClipOf
<1>12. InRange(T, lower, upper)
  BY <1>7, <1>10, <1>11 DEF InRange
<1> QED BY <1>8, <1>9, <1>12 DEF T, src, TakenFrom

-----------------------------------------------------------------------------
(* Gathering                                                               *)

\* What the first k of s have been gathered into.
Gathered(slack, lower, upper, s, k, gs) ==
  /\ Len(gs) = 0 <=> k = 0
  /\ \A i \in 1..Len(gs) : lower <= gs[i].start /\ gs[i].start < gs[i].end /\ gs[i].end <= upper
  /\ \A i, j \in 1..Len(gs) : i < j => gs[i].end + slack < gs[j].start
  /\ \A m \in 1..k : \E i \in 1..Len(gs) :
        s[m].id \in gs[i].ids /\ gs[i].start <= s[m].start /\ s[m].end <= gs[i].end
  /\ \A i \in 1..Len(gs) : \A d \in gs[i].ids : \E m \in 1..k :
        s[m].id = d /\ gs[i].start <= s[m].start /\ s[m].end <= gs[i].end
  /\ \A i \in 1..Len(gs) : \A t \in Int : gs[i].start <= t /\ t < gs[i].end =>
        \E m \in 1..k : s[m].start <= t + slack /\ t < s[m].end
  /\ \A i \in 1..Len(gs) : \E m \in 1..k : s[m].id \in gs[i].ids /\ s[m].start = gs[i].start

\* The sequence that is gathered.
Queue(lower, upper, n, s) ==
  /\ s \in [1..n -> Recording]
  /\ \A k \in 1..n : lower <= s[k].start /\ s[k].start < s[k].end /\ s[k].end <= upper
  /\ \A j, k \in 1..n : j <= k => s[j].start <= s[k].start

\* A new interval keeps what is known of the others.
LEMMA OpensKeeps ==
  ASSUME NEW slack \in Nat, NEW lower \in Int, NEW upper \in Int, NEW n \in Nat,
         NEW s, Queue(lower, upper, n, s), NEW k \in 1..n,
         NEW gs \in Seq(Interval), NEW new \in Seq(Interval),
         Gathered(slack, lower, upper, s, k - 1, gs), Opens(gs, new, s[k]),
         Len(gs) = 0 \/ s[k].start > gs[Len(gs)].end + slack
  PROVE  Gathered(slack, lower, upper, s, k, new)
<1> DEFINE L == Len(gs)
           c == s[k]
<1>1. L \in Nat /\ k \in Nat /\ k # 0 /\ k \in 1..k /\ \A m \in 1..(k - 1) : m \in 1..k /\ m \in 1..n
  BY LenProperties
<1>2. \A i \in 1..L : gs[i].start \in Int /\ gs[i].end \in Int
  <2>1. \A i \in 1..L : gs[i] \in Interval
    BY ElementOfSeq
  <2> QED BY <2>1 DEF Interval
<1>3. /\ c \in Recording /\ c.start \in Int /\ c.end \in Int
      /\ lower <= c.start /\ c.start < c.end /\ c.end <= upper
  BY DEF Queue, Recording
<1>4. /\ Len(new) = L + 1 /\ \A i \in 1..L : new[i] = gs[i]
      /\ new[L + 1].start = c.start /\ new[L + 1].end = c.end /\ new[L + 1].ids = {c.id}
  BY DEF Opens
<1>5. /\ L = 0 <=> k - 1 = 0
      /\ \A i \in 1..L : lower <= gs[i].start /\ gs[i].start < gs[i].end /\ gs[i].end <= upper
      /\ \A i, j \in 1..L : i < j => gs[i].end + slack < gs[j].start
      /\ \A m \in 1..(k - 1) : \E i \in 1..L :
           s[m].id \in gs[i].ids /\ gs[i].start <= s[m].start /\ s[m].end <= gs[i].end
      /\ \A i \in 1..L : \A d \in gs[i].ids : \E m \in 1..(k - 1) :
           s[m].id = d /\ gs[i].start <= s[m].start /\ s[m].end <= gs[i].end
      /\ \A i \in 1..L : \A t \in Int : gs[i].start <= t /\ t < gs[i].end =>
           \E m \in 1..(k - 1) : s[m].start <= t + slack /\ t < s[m].end
      /\ \A i \in 1..L : \E m \in 1..(k - 1) : s[m].id \in gs[i].ids /\ s[m].start = gs[i].start
  BY DEF Gathered
<1>6. L = 0 \/ c.start > gs[L].end + slack
  OBVIOUS
<1> HIDE DEF L, c
<1>7. \A i \in 1..(L + 1) : i \in 1..L \/ i = L + 1
  BY <1>1
<1>8. \A i \in 1..L : i \in 1..(L + 1) /\ i # L + 1
  BY <1>1
<1>9. L + 1 \in 1..(L + 1)
  BY <1>1
<1>10. Len(new) = 0 <=> k = 0
  BY <1>1, <1>4
<1>11. \A i \in 1..Len(new) :
          lower <= new[i].start /\ new[i].start < new[i].end /\ new[i].end <= upper
  BY <1>3, <1>4, <1>5, <1>7
<1>12. ASSUME NEW i \in 1..(L + 1), NEW j \in 1..(L + 1), i < j
       PROVE  new[i].end + slack < new[j].start
  <2>1. i \in 1..L
    BY <1>1, <1>12
  <2>2. CASE j \in 1..L
    BY <1>4, <1>5, <1>12, <2>1, <2>2
  <2>3. CASE j = L + 1
    <3>1. L \in 1..L /\ L # 0
      BY <1>1, <2>1
    <3>2. gs[i].end <= gs[L].end
      <4>1. CASE i = L
        BY <1>2, <3>1, <4>1
      <4>2. CASE i # L
        <5>1. i < L
          BY <1>1, <2>1, <4>2
        <5>2. gs[i].end + slack < gs[L].start /\ gs[L].start < gs[L].end
          BY <1>5, <2>1, <3>1, <5>1
        <5>3. gs[i].end \in Int /\ gs[L].start \in Int /\ gs[L].end \in Int
          BY <1>2, <2>1, <3>1, Zenon
        <5>4. \A a, b, d \in Int : \A e \in Nat : a + e < b /\ b < d => a <= d
          OBVIOUS
        <5> QED BY <5>2, <5>3, <5>4, Zenon
      <4> QED BY <4>1, <4>2
    <3>3. gs[i].end \in Int /\ gs[L].end \in Int
      BY <1>2, <2>1, <3>1
    <3>4. c.start > gs[L].end + slack /\ c.start \in Int /\ slack \in Int
      BY <1>3, <1>6, <3>1
    <3>5. gs[i].end + slack < c.start
      <4>1. \A a, b, d, e \in Int : a <= b /\ d > b + e => a + e < d
        OBVIOUS
      <4> QED BY <3>2, <3>3, <3>4, <4>1, Zenon
    <3> QED BY <1>4, <2>1, <2>3, <3>5
  <2> QED BY <1>7, <2>2, <2>3
<1>13. ASSUME NEW m \in 1..k
       PROVE  \E i \in 1..(L + 1) :
                 s[m].id \in new[i].ids /\ new[i].start <= s[m].start /\ s[m].end <= new[i].end
  <2>1. CASE m = k
    <3>1. /\ s[m].id \in new[L + 1].ids /\ new[L + 1].start <= s[m].start
          /\ s[m].end <= new[L + 1].end
      BY <1>3, <1>4, <2>1 DEF c
    <3> QED BY <1>9, <3>1
  <2>2. CASE m # k
    <3>1. m \in 1..(k - 1)
      BY <1>1, <2>2
    <3>2. PICK i \in 1..L :
            s[m].id \in gs[i].ids /\ gs[i].start <= s[m].start /\ s[m].end <= gs[i].end
      BY <1>5, <3>1, Zenon
    <3>3. new[i] = gs[i] /\ i \in 1..(L + 1)
      BY <1>4, <1>8, Zenon
    <3> QED BY <3>2, <3>3, Zenon
  <2> QED BY <2>1, <2>2
<1>14. ASSUME NEW i \in 1..(L + 1), NEW d \in new[i].ids
       PROVE  \E m \in 1..k : s[m].id = d /\ new[i].start <= s[m].start /\ s[m].end <= new[i].end
  <2>1. CASE i \in 1..L
    <3>1. new[i] = gs[i]
      BY <1>4, <2>1, Zenon
    <3>2. PICK m \in 1..(k - 1) :
            s[m].id = d /\ gs[i].start <= s[m].start /\ s[m].end <= gs[i].end
      BY <1>5, <1>14, <2>1, <3>1, Zenon
    <3> QED BY <1>1, <3>1, <3>2, Zenon
  <2>2. CASE i = L + 1
    <3>1. s[k].id = d /\ new[i].start <= s[k].start /\ s[k].end <= new[i].end
      BY <1>3, <1>4, <1>14, <2>2 DEF c
    <3> QED BY <1>1, <3>1
  <2> QED BY <1>7, <2>1, <2>2
<1>15. ASSUME NEW i \in 1..(L + 1), NEW t \in Int, new[i].start <= t, t < new[i].end
       PROVE  \E m \in 1..k : s[m].start <= t + slack /\ t < s[m].end
  <2>1. CASE i \in 1..L
    <3>1. gs[i].start <= t /\ t < gs[i].end
      BY <1>4, <1>15, <2>1
    <3>2. PICK m \in 1..(k - 1) : s[m].start <= t + slack /\ t < s[m].end
      BY <1>5, <2>1, <3>1, Zenon
    <3> QED BY <1>1, <3>2, Zenon
  <2>2. CASE i = L + 1
    <3>1. s[k].start <= t + slack /\ t < s[k].end
      BY <1>3, <1>4, <1>15, <2>2 DEF c
    <3> QED BY <1>1, <3>1
  <2> QED BY <1>7, <2>1, <2>2
<1>16. ASSUME NEW i \in 1..(L + 1)
       PROVE  \E m \in 1..k : s[m].id \in new[i].ids /\ s[m].start = new[i].start
  <2>1. CASE i \in 1..L
    <3>1. new[i] = gs[i]
      BY <1>4, <2>1, Zenon
    <3>2. PICK m \in 1..(k - 1) : s[m].id \in gs[i].ids /\ s[m].start = gs[i].start
      BY <1>5, <2>1, Zenon
    <3> QED BY <1>1, <3>1, <3>2, Zenon
  <2>2. CASE i = L + 1
    BY <1>1, <1>4, <2>2 DEF c
  <2> QED BY <1>7, <2>1, <2>2
<1>17. Len(new) = L + 1
  BY <1>4
<1> QED BY <1>10, <1>11, <1>12, <1>13, <1>14, <1>15, <1>16, <1>17 DEF Gathered

\* So does one that grows.
LEMMA GrowsKeeps ==
  ASSUME NEW slack \in Nat, NEW lower \in Int, NEW upper \in Int, NEW n \in Nat,
         NEW s, Queue(lower, upper, n, s), NEW k \in 1..n,
         NEW gs \in Seq(Interval), NEW new \in Seq(Interval),
         Gathered(slack, lower, upper, s, k - 1, gs), Grows(gs, new, s[k]),
         Len(gs) # 0 /\ s[k].start <= gs[Len(gs)].end + slack
  PROVE  Gathered(slack, lower, upper, s, k, new)
<1> DEFINE L == Len(gs)
           c == s[k]
<1>1. /\ L \in Nat /\ L # 0 /\ L \in 1..L /\ k \in Nat /\ k # 0 /\ k \in 1..k
      /\ \A m \in 1..(k - 1) : m \in 1..k /\ m \in 1..n /\ m <= k
  BY LenProperties
<1>2. \A i \in 1..L : gs[i].start \in Int /\ gs[i].end \in Int
  <2>1. \A i \in 1..L : gs[i] \in Interval
    BY ElementOfSeq
  <2> QED BY <2>1 DEF Interval
<1>3. /\ c \in Recording /\ c.start \in Int /\ c.end \in Int
      /\ lower <= c.start /\ c.start < c.end /\ c.end <= upper
  BY DEF Queue, Recording
<1>4. /\ Len(new) = L /\ \A i \in 1..(L - 1) : new[i] = gs[i]
      /\ new[L].start = gs[L].start /\ new[L].end = Larger(gs[L].end, c.end)
      /\ new[L].ids = gs[L].ids \cup {c.id}
  BY DEF Grows
<1>5. /\ L = 0 <=> k - 1 = 0
      /\ \A i \in 1..L : lower <= gs[i].start /\ gs[i].start < gs[i].end /\ gs[i].end <= upper
      /\ \A i, j \in 1..L : i < j => gs[i].end + slack < gs[j].start
      /\ \A m \in 1..(k - 1) : \E i \in 1..L :
           s[m].id \in gs[i].ids /\ gs[i].start <= s[m].start /\ s[m].end <= gs[i].end
      /\ \A i \in 1..L : \A d \in gs[i].ids : \E m \in 1..(k - 1) :
           s[m].id = d /\ gs[i].start <= s[m].start /\ s[m].end <= gs[i].end
      /\ \A i \in 1..L : \A t \in Int : gs[i].start <= t /\ t < gs[i].end =>
           \E m \in 1..(k - 1) : s[m].start <= t + slack /\ t < s[m].end
      /\ \A i \in 1..L : \E m \in 1..(k - 1) : s[m].id \in gs[i].ids /\ s[m].start = gs[i].start
  BY DEF Gathered
<1>6. c.start <= gs[L].end + slack
  OBVIOUS
<1>7. \A m \in 1..(k - 1) : s[m].start \in Int /\ s[m].end \in Int /\ s[m].start <= c.start
  BY <1>1 DEF Queue, Recording
<1> HIDE DEF L, c
<1>8. \A i \in 1..L : i = L \/ (i \in 1..(L - 1) /\ new[i] = gs[i] /\ i < L)
  BY <1>1, <1>4
<1>9. /\ new[L].end \in Int /\ gs[L].end <= new[L].end /\ c.end <= new[L].end
      /\ new[L].end <= upper /\ (new[L].end = gs[L].end \/ new[L].end = c.end)
  <2>1. /\ gs[L].end \in Int /\ c.end \in Int /\ gs[L].end <= upper /\ c.end <= upper
        /\ new[L].end = Larger(gs[L].end, c.end)
    BY <1>1, <1>2, <1>3, <1>4, <1>5
  <2>2. \A a, b \in Int :
           /\ Larger(a, b) \in Int /\ a <= Larger(a, b) /\ b <= Larger(a, b)
           /\ (Larger(a, b) = a \/ Larger(a, b) = b)
    BY DEF Larger
  <2>3. /\ new[L].end \in Int /\ gs[L].end <= new[L].end /\ c.end <= new[L].end
        /\ (new[L].end = gs[L].end \/ new[L].end = c.end)
    BY <2>1, <2>2, Zenon
  <2> QED BY <2>1, <2>3
<1>10. gs[L].start <= c.start
  BY <1>1, <1>2, <1>3, <1>5, <1>7
\* What an interval was, it still is, but for a later end and one more source.
<1>11. \A i \in 1..L : /\ new[i].start = gs[i].start /\ new[i].end \in Int
                       /\ gs[i].end <= new[i].end
                       /\ \A d \in gs[i].ids : d \in new[i].ids
                       /\ i # L => new[i] = gs[i]
  <2> TAKE i \in 1..L
  <2>1. CASE i = L
    BY <1>4, <1>9, <2>1
  <2>2. CASE i # L
    <3>1. new[i] = gs[i] /\ gs[i].end \in Int
      BY <1>2, <1>8, <2>2
    <3> QED BY <2>2, <3>1
  <2> QED BY <2>1, <2>2
<1>12. Len(new) = 0 <=> k = 0
  BY <1>1, <1>4
<1>13. ASSUME NEW i \in 1..L
       PROVE  lower <= new[i].start /\ new[i].start < new[i].end /\ new[i].end <= upper
  <2>1. /\ gs[i].start \in Int /\ gs[i].end \in Int /\ new[i].end \in Int
        /\ lower <= gs[i].start /\ gs[i].start < gs[i].end /\ gs[i].end <= upper
        /\ new[i].start = gs[i].start /\ gs[i].end <= new[i].end
    BY <1>2, <1>5, <1>11
  <2>2. new[i].end <= upper
    BY <1>8, <1>9, <2>1
  <2> QED BY <2>1, <2>2
<1>14. ASSUME NEW i \in 1..L, NEW j \in 1..L, i < j
       PROVE  new[i].end + slack < new[j].start
  <2>1. i # L
    BY <1>1, <1>14
  <2>2. new[i].end = gs[i].end /\ new[j].start = gs[j].start
    BY <1>11, <2>1
  <2>3. gs[i].end + slack < gs[j].start
    BY <1>5, <1>14
  <2> QED BY <2>2, <2>3
<1>15. ASSUME NEW m \in 1..k
       PROVE  \E i \in 1..L :
                 s[m].id \in new[i].ids /\ new[i].start <= s[m].start /\ s[m].end <= new[i].end
  <2>1. CASE m = k
    <3>1. s[m].id \in new[L].ids /\ new[L].start <= s[m].start /\ s[m].end <= new[L].end
      BY <1>4, <1>9, <1>10, <2>1 DEF c
    <3> QED BY <1>1, <3>1
  <2>2. CASE m # k
    <3>1. m \in 1..(k - 1)
      BY <1>1, <2>2
    <3>2. PICK i \in 1..L :
            s[m].id \in gs[i].ids /\ gs[i].start <= s[m].start /\ s[m].end <= gs[i].end
      BY <1>5, <3>1
    <3>3. s[m].end \in Int /\ gs[i].end \in Int
      BY <1>2, <1>7, <3>1
    <3>4. s[m].id \in new[i].ids /\ new[i].start <= s[m].start
      BY <1>11, <3>2
    <3>5. new[i].end \in Int /\ gs[i].end <= new[i].end
      BY <1>11
    <3>6. s[m].end <= new[i].end
      BY <3>2, <3>3, <3>5
    <3> QED BY <3>4, <3>6
  <2> QED BY <2>1, <2>2
<1>16. ASSUME NEW i \in 1..L, NEW d \in new[i].ids
       PROVE  \E m \in 1..k : s[m].id = d /\ new[i].start <= s[m].start /\ s[m].end <= new[i].end
  <2>1. CASE d \in gs[i].ids
    <3>1. PICK m \in 1..(k - 1) :
            s[m].id = d /\ gs[i].start <= s[m].start /\ s[m].end <= gs[i].end
      BY <1>5, <2>1
    <3>2. s[m].end \in Int /\ gs[i].end \in Int
      BY <1>2, <1>7, <3>1
    <3>3. new[i].start = gs[i].start /\ new[i].end \in Int /\ gs[i].end <= new[i].end
      BY <1>11
    <3>4. new[i].start <= s[m].start /\ s[m].end <= new[i].end
      BY <3>1, <3>2, <3>3
    <3> QED BY <1>1, <3>1, <3>4
  <2>2. CASE d \notin gs[i].ids
    <3>1. i = L
      BY <1>11, <1>16, <2>2
    <3>2. d = c.id
      BY <1>4, <1>16, <2>2, <3>1
    <3>3. s[k].id = d /\ new[i].start <= s[k].start /\ s[k].end <= new[i].end
      BY <1>4, <1>9, <1>10, <3>1, <3>2 DEF c
    <3> QED BY <1>1, <3>3
  <2> QED BY <2>1, <2>2
<1>17. ASSUME NEW i \in 1..L, NEW t \in Int, new[i].start <= t, t < new[i].end
       PROVE  \E m \in 1..k : s[m].start <= t + slack /\ t < s[m].end
  <2>1. CASE t < gs[i].end
    <3>1. gs[i].start <= t
      BY <1>11, <1>17
    <3>2. PICK m \in 1..(k - 1) : s[m].start <= t + slack /\ t < s[m].end
      BY <1>5, <2>1, <3>1
    <3> QED BY <1>1, <3>2
  <2>2. CASE ~(t < gs[i].end)
    <3>1. i = L
      BY <1>11, <1>17, <2>2
    <3>2. t < c.end
      BY <1>9, <1>17, <2>2, <3>1
    <3>3. c.start <= t + slack
      <4>1. gs[L].end \in Int /\ c.start \in Int
        BY <1>1, <1>2, <1>3, Zenon
      <4> DEFINE x == gs[L].end
      <4>2. x \in Int /\ ~(t < x)
        BY <2>2, <3>1, <4>1, Zenon
      <4> HIDE DEF x
      <4>3. x <= t
        BY <4>2
      <4>4. gs[L].end <= t /\ slack \in Int
        BY <4>3 DEF x
      <4>5. \A a, b, d, e \in Int : a <= b + e /\ b <= d => a <= d + e
        OBVIOUS
      <4> QED BY <1>6, <4>1, <4>4, <4>5, Zenon
    <3> QED BY <1>1, <3>2, <3>3 DEF c
  <2> QED BY <2>1, <2>2
<1>18. ASSUME NEW i \in 1..L
       PROVE  \E m \in 1..k : s[m].id \in new[i].ids /\ s[m].start = new[i].start
  <2>1. PICK m \in 1..(k - 1) : s[m].id \in gs[i].ids /\ s[m].start = gs[i].start
    BY <1>5
  <2>2. s[m].id \in new[i].ids /\ s[m].start = new[i].start
    BY <1>11, <2>1
  <2> QED BY <1>1, <2>2
<1>19. Len(new) = L
  BY <1>4
<1> QED BY <1>12, <1>13, <1>14, <1>15, <1>16, <1>17, <1>18, <1>19 DEF Gathered

Joined(slack, s) ==
  FoldLeft(LAMBDA groups, source : Gather(slack, groups, source), <<>>, s)

\* gs is what the set S is gathered into, in the order s of its n recordings.
GatheredFrom(slack, lower, upper, S, n, s, gs) ==
  /\ n \in Nat /\ gs \in Seq(Interval) /\ gs = Joined(slack, InOrder(S))
  /\ Queue(lower, upper, n, s) /\ Gathered(slack, lower, upper, s, n, gs)
  /\ \A m \in 1..n : s[m] \in S
  /\ \A c \in S : \E m \in 1..n : s[m] = c

\* What a set of recordings inside a range is gathered into.
LEMMA GatheredAll ==
  ASSUME NEW slack \in Nat, NEW lower \in Int, NEW upper \in Int, NEW S, InRange(S, lower, upper)
  PROVE  \E n, s, gs : GatheredFrom(slack, lower, upper, S, n, s, gs)
<1> DEFINE n == Cardinality(S)
           s == InOrder(S)
<1>1. n \in Nat
  BY FS_CardinalityType DEF InRange
<1>2. /\ s \in [1..n -> S]
      /\ \A r \in S : \E k \in 1..n : s[k] = r
      /\ \A j, k \in 1..n : j <= k => s[j].start <= s[k].start
  BY InOrderIs DEF InRange, Arranged
<1> HIDE DEF s, n
<1>3. \A m \in 1..n : s[m] \in S
  BY <1>2
<1>4. S \subseteq Recording /\ \A c \in S : lower <= c.start /\ c.start < c.end /\ c.end <= upper
  BY DEF InRange
<1>5. s \in [1..n -> Recording]
  BY <1>2, <1>4
<1>6. Queue(lower, upper, n, s)
  BY <1>2, <1>3, <1>4, <1>5 DEF Queue
<1>7. PICK st \in [0..n -> Seq(Interval)] :
         /\ st[0] = <<>>
         /\ \A k \in 1..n : st[k] = Gather(slack, st[k - 1], s[k])
         /\ Joined(slack, s) = st[n]
  BY <1>1, <1>5, GatherSteps, Zenon DEF Joined
<1> DEFINE Good(k) == Gathered(slack, lower, upper, s, k, st[k])
           T == {k \in 0..n : ~Good(k)}
<1>8. Good(0)
  <2>1. Len(st[0]) = 0
    BY <1>7
  <2>2. \A i \in 1..Len(st[0]) : FALSE
    BY <2>1
  <2>3. \A m \in 1..0 : FALSE
    OBVIOUS
  <2> QED BY <2>1, <2>2, <2>3 DEF Gathered
<1>9. ASSUME NEW k \in 1..n, Good(k - 1)
      PROVE  Good(k)
  <2> DEFINE gs == st[k - 1]
             new == st[k]
  <2>1. gs \in Seq(Interval) /\ new \in Seq(Interval) /\ s[k] \in Recording
    BY <1>1, <1>5
  <2>2. new = Gather(slack, gs, s[k])
    BY <1>7
  <2>3. Gathered(slack, lower, upper, s, k - 1, gs)
    BY <1>9
  <2> HIDE DEF gs, new
  <2>4. /\ Len(gs) \in Nat
        /\ Len(gs) = 0 \/ s[k].start > gs[Len(gs)].end + slack => Opens(gs, new, s[k])
        /\ Len(gs) # 0 /\ s[k].start <= gs[Len(gs)].end + slack => Grows(gs, new, s[k])
    BY <2>1, <2>2, GatherIs
  <2>5. Len(gs) # 0 => s[k].start > gs[Len(gs)].end + slack \/ s[k].start <= gs[Len(gs)].end + slack
    <3> SUFFICES ASSUME Len(gs) # 0
                 PROVE  s[k].start > gs[Len(gs)].end + slack \/ s[k].start <= gs[Len(gs)].end + slack
      OBVIOUS
    <3>1. Len(gs) \in 1..Len(gs)
      BY <2>4
    <3>2. gs[Len(gs)] \in Interval
      BY <2>1, <3>1, ElementOfSeq
    <3>3. gs[Len(gs)].end \in Int /\ s[k].start \in Int /\ slack \in Int
      BY <2>1, <3>2 DEF Recording, Interval
    <3>4. \A a, b, d \in Int : a > b + d \/ a <= b + d
      OBVIOUS
    <3> QED BY <3>3, <3>4, Zenon
  <2>6. CASE Len(gs) = 0 \/ s[k].start > gs[Len(gs)].end + slack
    <3>1. Gathered(slack, lower, upper, s, k, new)
      BY <1>1, <1>6, <2>1, <2>3, <2>4, <2>6, OpensKeeps
    <3> QED BY <3>1 DEF new
  <2>7. CASE Len(gs) # 0 /\ s[k].start <= gs[Len(gs)].end + slack
    <3>1. Gathered(slack, lower, upper, s, k, new)
      BY <1>1, <1>6, <2>1, <2>3, <2>4, <2>7, GrowsKeeps
    <3> QED BY <3>1 DEF new
  <2> QED BY <2>5, <2>6, <2>7
<1> HIDE DEF Good
<1>10. T = {}
  <2> SUFFICES ASSUME T # {}
               PROVE  FALSE
    OBVIOUS
  <2>1. PICK k \in T : \A j \in T : k <= j
    <3>1. T \subseteq Nat
      BY <1>1
    <3> HIDE DEF T
    <3> QED BY <3>1, LeastNumber
  <2>2. k \in 0..n /\ ~Good(k) /\ k # 0
    BY <1>8, <2>1
  <2>3. k - 1 \in 0..n /\ k \in 1..n
    BY <1>1, <2>2
  <2>4. Good(k - 1)
    <3> SUFFICES ASSUME ~Good(k - 1)
                 PROVE  FALSE
      OBVIOUS
    <3>1. k <= k - 1
      BY <2>1, <2>3
    <3> QED BY <1>1, <2>3, <3>1
  <2> QED BY <1>9, <2>2, <2>3, <2>4
<1>11. Good(n)
  BY <1>1, <1>10
<1>12. Gathered(slack, lower, upper, s, n, st[n]) /\ st[n] \in Seq(Interval)
  BY <1>1, <1>7, <1>11 DEF Good
<1>13. st[n] = Joined(slack, InOrder(S))
  BY <1>7, Zenon DEF s
<1>14. GatheredFrom(slack, lower, upper, S, n, s, st[n])
  BY <1>1, <1>2, <1>3, <1>6, <1>12, <1>13 DEF GatheredFrom
<1> QED BY <1>14

-----------------------------------------------------------------------------
(* Groups and gaps                                                         *)

\* The same, whatever the order was.
Grouped(slack, lower, upper, S, gs) ==
  /\ gs \in Seq(Interval)
  /\ \A i \in 1..Len(gs) : lower <= gs[i].start /\ gs[i].start < gs[i].end /\ gs[i].end <= upper
  /\ \A i, j \in 1..Len(gs) : i < j => gs[i].end + slack < gs[j].start
  /\ \A c \in S : \E i \in 1..Len(gs) :
        c.id \in gs[i].ids /\ gs[i].start <= c.start /\ c.end <= gs[i].end
  /\ \A i \in 1..Len(gs) : \A d \in gs[i].ids : \E c \in S :
        c.id = d /\ gs[i].start <= c.start /\ c.end <= gs[i].end
  /\ \A i \in 1..Len(gs) : \A t \in Int : gs[i].start <= t /\ t < gs[i].end =>
        \E c \in S : c.start <= t + slack /\ t < c.end
  /\ \A i \in 1..Len(gs) : \E c \in S : c.id \in gs[i].ids /\ c.start = gs[i].start

\* Whatever is inside a range is gathered so.
LEMMA GroupedIs ==
  ASSUME NEW slack \in Nat, NEW lower \in Int, NEW upper \in Int, NEW S, InRange(S, lower, upper)
  PROVE  Grouped(slack, lower, upper, S, Joined(slack, InOrder(S)))
<1>1. PICK n, s, gs : GatheredFrom(slack, lower, upper, S, n, s, gs)
  BY GatheredAll
<1>2. /\ gs = Joined(slack, InOrder(S)) /\ gs \in Seq(Interval)
      /\ Gathered(slack, lower, upper, s, n, gs)
      /\ \A m \in 1..n : s[m] \in S
      /\ \A c \in S : \E m \in 1..n : s[m] = c
  BY <1>1 DEF GatheredFrom
<1>3. Grouped(slack, lower, upper, S, gs)
  <2>1. /\ \A i \in 1..Len(gs) : lower <= gs[i].start /\ gs[i].start < gs[i].end /\ gs[i].end <= upper
        /\ \A i, j \in 1..Len(gs) : i < j => gs[i].end + slack < gs[j].start
    BY <1>2 DEF Gathered
  <2>2. ASSUME NEW c \in S
        PROVE  \E i \in 1..Len(gs) :
                  c.id \in gs[i].ids /\ gs[i].start <= c.start /\ c.end <= gs[i].end
    <3>1. PICK m \in 1..n : s[m] = c
      BY <1>2
    <3>2. \A j \in 1..n : \E i \in 1..Len(gs) :
             s[j].id \in gs[i].ids /\ gs[i].start <= s[j].start /\ s[j].end <= gs[i].end
      BY <1>2, Zenon DEF Gathered
    <3> QED BY <3>1, <3>2, Zenon
  <2>3. ASSUME NEW i \in 1..Len(gs), NEW d \in gs[i].ids
        PROVE  \E c \in S : c.id = d /\ gs[i].start <= c.start /\ c.end <= gs[i].end
    <3>1. \A j \in 1..Len(gs) : \A e \in gs[j].ids : \E m \in 1..n :
             s[m].id = e /\ gs[j].start <= s[m].start /\ s[m].end <= gs[j].end
      BY <1>2, Zenon DEF Gathered
    <3>2. PICK m \in 1..n : s[m].id = d /\ gs[i].start <= s[m].start /\ s[m].end <= gs[i].end
      BY <2>3, <3>1, Zenon
    <3> QED BY <1>2, <3>2, Zenon
  <2>4. ASSUME NEW i \in 1..Len(gs), NEW t \in Int, gs[i].start <= t /\ t < gs[i].end
        PROVE  \E c \in S : c.start <= t + slack /\ t < c.end
    <3>1. \A j \in 1..Len(gs) : \A u \in Int : gs[j].start <= u /\ u < gs[j].end =>
             \E m \in 1..n : s[m].start <= u + slack /\ u < s[m].end
      BY <1>2, Zenon DEF Gathered
    <3>2. PICK m \in 1..n : s[m].start <= t + slack /\ t < s[m].end
      BY <2>4, <3>1, Zenon
    <3> QED BY <1>2, <3>2, Zenon
  <2>5. \A i \in 1..Len(gs) : \E c \in S : c.id \in gs[i].ids /\ c.start = gs[i].start
    BY <1>2 DEF Gathered
  <2> QED BY <1>2, <2>1, <2>2, <2>3, <2>4, <2>5 DEF Grouped
<1> QED BY <1>2, <1>3

\* What is there is gathered with the tolerance, what is lost without.
LEMMA GroupsAre ==
  ASSUME NEW lower \in Int, NEW upper \in Int, lower < upper, NEW rows, Rows(rows)
  PROVE  /\ Grouped(Tolerance, lower, upper, Taken(rows, lower, upper, TRUE),
                    Groups(rows, lower, upper))
         /\ Grouped(0, lower, upper, Taken(rows, lower, upper, FALSE),
                    Unavailable(rows, lower, upper))
<1> DEFINE C == Clipped(rows, lower, upper)
<1>1. \A c \in C : c.file \in BOOLEAN
  <2>1. \A r \in Sources(rows, lower, upper) : ClipOf(Clip(r, lower, upper), r, lower, upper)
    BY ClipIs
  <2>2. \A c \in C : \E r \in Sources(rows, lower, upper) : c = Clip(r, lower, upper)
    BY DEF Clipped
  <2>3. \A c \in C : c \in Recording
    BY <2>1, <2>2 DEF ClipOf
  <2> QED BY <2>3, Zenon DEF Recording
<1>2. /\ {c \in C : c.file} = Taken(rows, lower, upper, TRUE)
      /\ {c \in C : ~c.file} = Taken(rows, lower, upper, FALSE)
  BY <1>1, Zenon DEF Taken
<1>3. /\ Groups(rows, lower, upper) = Joined(Tolerance, InOrder(Taken(rows, lower, upper, TRUE)))
      /\ Unavailable(rows, lower, upper) = Joined(0, InOrder(Taken(rows, lower, upper, FALSE)))
  BY <1>2, Zenon DEF Groups, Unavailable, Joined
<1>4. /\ InRange(Taken(rows, lower, upper, TRUE), lower, upper)
      /\ InRange(Taken(rows, lower, upper, FALSE), lower, upper)
  BY TakenIs DEF TakenFrom
<1>5. Tolerance \in Nat /\ 0 \in Nat
  BY ToleranceAssumption
<1> QED BY <1>3, <1>4, <1>5, GroupedIs

\* The holes before each group and after the last.
HoleStart(gs, lower, k) == IF k = 1 THEN lower ELSE gs[k - 1].end
HoleEnd(gs, upper, k) == IF k = Len(gs) + 1 THEN upper ELSE gs[k].start

\* The gaps of an export are these holes, as far as they hold anything.
LEMMA GapsBetween ==
  ASSUME NEW lower \in Int, NEW upper \in Int, lower < upper, NEW S, NEW gs,
         Grouped(Tolerance, lower, upper, S, gs)
  PROVE  /\ \A g \in Gaps(gs, lower, upper) : \E k \in 1..(Len(gs) + 1) :
               /\ g.start = HoleStart(gs, lower, k) /\ g.end = HoleEnd(gs, upper, k)
               /\ g.start < g.end
         /\ \A k \in 1..(Len(gs) + 1) :
               HoleStart(gs, lower, k) < HoleEnd(gs, upper, k) =>
                  \E g \in Gaps(gs, lower, upper) :
                     g.start = HoleStart(gs, lower, k) /\ g.end = HoleEnd(gs, upper, k)
<1> DEFINE L == Len(gs)
           end(k) == IF k = 0 THEN lower ELSE gs[k].end
           before == {[start |-> end(k - 1), end |-> gs[k].start] : k \in DOMAIN gs}
           last == [start |-> end(L), end |-> upper]
<1>1. L \in Nat /\ DOMAIN gs = 1..L /\ \A i \in 1..L : gs[i] \in Interval
  BY LenProperties, ElementOfSeq DEF Grouped
<1>2. \A i \in 1..L : gs[i].start \in Int /\ gs[i].end \in Int
  BY <1>1 DEF Interval
<1>3. \A k \in 1..(L + 1) : /\ HoleStart(gs, lower, k) = end(k - 1)
                            /\ k # L + 1 => k \in 1..L /\ HoleEnd(gs, upper, k) = gs[k].start
                            /\ k = L + 1 => HoleEnd(gs, upper, k) = upper
  BY <1>1 DEF HoleStart, HoleEnd
<1>4. \A k \in 1..(L + 1) : HoleStart(gs, lower, k) \in Int /\ HoleEnd(gs, upper, k) \in Int
  <2> TAKE k \in 1..(L + 1)
  <2>1. k # 1 => k - 1 \in 1..L
    BY <1>1
  <2>2. HoleStart(gs, lower, k) \in Int
    BY <1>2, <2>1 DEF HoleStart
  <2>3. HoleEnd(gs, upper, k) \in Int
    BY <1>2, <1>3
  <2> QED BY <2>2, <2>3
<1>5. Gaps(gs, lower, upper) =
         {g \in before : g.end > g.start /\ (g.start = lower \/ Duration(g) > Tolerance)}
         \cup {g \in {last} : g.end > g.start}
  BY Zenon DEF Gaps
<1>6. \A k \in 1..L : [start |-> end(k - 1), end |-> gs[k].start] \in before
  BY <1>1
<1>7. \A g \in before : \E k \in 1..L : g = [start |-> end(k - 1), end |-> gs[k].start]
  BY <1>1
<1> HIDE DEF L, before
<1>8. ASSUME NEW g \in Gaps(gs, lower, upper)
      PROVE  \E k \in 1..(L + 1) :
                /\ g.start = HoleStart(gs, lower, k) /\ g.end = HoleEnd(gs, upper, k)
                /\ g.start < g.end
  <2>1. CASE g \in before /\ g.end > g.start
    <3>1. PICK k \in 1..L : g = [start |-> end(k - 1), end |-> gs[k].start]
      BY <1>7, <2>1
    <3>2. k \in 1..(L + 1) /\ k # L + 1
      BY <1>1
    <3>3. g.start = HoleStart(gs, lower, k) /\ g.end = HoleEnd(gs, upper, k)
      BY <1>3, <3>1, <3>2
    <3>4. g.start < g.end
      BY <1>4, <2>1, <3>2, <3>3
    <3> QED BY <3>2, <3>3, <3>4
  <2>2. CASE g = last /\ g.end > g.start
    <3>1. L + 1 \in 1..(L + 1) /\ (L + 1) - 1 = L
      BY <1>1
    <3>2. g.start = HoleStart(gs, lower, L + 1) /\ g.end = HoleEnd(gs, upper, L + 1)
      BY <1>3, <2>2, <3>1
    <3>3. g.start < g.end
      BY <1>4, <2>2, <3>1, <3>2
    <3> QED BY <3>1, <3>2, <3>3
  <2> QED BY <1>5, <1>8, <2>1, <2>2
<1>9. ASSUME NEW k \in 1..(L + 1), HoleStart(gs, lower, k) < HoleEnd(gs, upper, k)
      PROVE  \E g \in Gaps(gs, lower, upper) :
                g.start = HoleStart(gs, lower, k) /\ g.end = HoleEnd(gs, upper, k)
  <2>1. CASE k = L + 1
    <3>1. last.start = HoleStart(gs, lower, k) /\ last.end = HoleEnd(gs, upper, k)
      BY <1>1, <1>3, <2>1
    <3>2. last.end > last.start
      BY <1>4, <1>9, <3>1
    <3>3. last \in Gaps(gs, lower, upper)
      BY <1>5, <3>2
    <3> QED BY <3>1, <3>3
  <2>2. CASE k # L + 1
    <3> DEFINE g == [start |-> end(k - 1), end |-> gs[k].start]
    <3>1. k \in 1..L
      BY <1>3, <2>2
    <3>2. g \in before /\ g.start = HoleStart(gs, lower, k) /\ g.end = HoleEnd(gs, upper, k)
      BY <1>3, <1>6, <2>2, <3>1
    <3> HIDE DEF g
    <3>3. g.end > g.start /\ g.start \in Int /\ g.end \in Int
      BY <1>4, <1>9, <3>2
    <3>4. g.start = lower \/ Duration(g) > Tolerance
      <4>1. CASE k = 1
        BY <3>2, <4>1 DEF HoleStart
      <4>2. CASE k # 1
        <5>1. k - 1 \in 1..L /\ k - 1 < k
          BY <1>1, <3>1, <4>2
        <5>2. gs[k - 1].end + Tolerance < gs[k].start
          BY <3>1, <5>1 DEF Grouped, L
        <5>3. g.start = gs[k - 1].end /\ g.end = gs[k].start
          BY <1>3, <2>2, <3>2, <4>2 DEF HoleStart
        <5>4. Tolerance \in Int /\ g.start + Tolerance < g.end
          BY <5>2, <5>3, ToleranceAssumption
        <5> QED BY <3>3, <5>4 DEF Duration, Larger
      <4> QED BY <4>1, <4>2
    <3>5. g \in Gaps(gs, lower, upper)
      BY <1>5, <3>2, <3>3, <3>4
    <3> QED BY <3>2, <3>5
  <2> QED BY <2>1, <2>2
<1> QED BY <1>8, <1>9 DEF L

\* Groups follow each other.
LEMMA InTurn ==
  ASSUME NEW slack \in Nat, NEW lower \in Int, NEW upper \in Int, NEW S, NEW gs,
         Grouped(slack, lower, upper, S, gs)
  PROVE  /\ Len(gs) \in Nat /\ DOMAIN gs = 1..Len(gs)
         /\ \A i \in 1..Len(gs) :
              /\ gs[i] \in Interval /\ gs[i].start \in Int /\ gs[i].end \in Int
              /\ lower <= gs[i].start /\ gs[i].start < gs[i].end /\ gs[i].end <= upper
         /\ \A i, j \in 1..Len(gs) : i < j => gs[i].end < gs[j].start
         /\ \A i, j \in 1..Len(gs) : i <= j =>
              gs[i].start <= gs[j].start /\ gs[i].end <= gs[j].end
<1> DEFINE L == Len(gs)
<1>1. L \in Nat /\ DOMAIN gs = 1..L /\ \A i \in 1..L : gs[i] \in Interval
  BY LenProperties, ElementOfSeq DEF Grouped
<1>2. \A i \in 1..L : gs[i].start \in Int /\ gs[i].end \in Int
  BY <1>1 DEF Interval
<1>3. /\ \A i \in 1..L : lower <= gs[i].start /\ gs[i].start < gs[i].end /\ gs[i].end <= upper
      /\ \A i, j \in 1..L : i < j => gs[i].end + slack < gs[j].start
  BY DEF Grouped
<1> HIDE DEF L
<1>4. ASSUME NEW i \in 1..L, NEW j \in 1..L, i < j
      PROVE  gs[i].end < gs[j].start
  <2>1. gs[i].end \in Int /\ gs[j].start \in Int /\ slack \in Int /\ 0 <= slack
    BY <1>2
  <2>2. gs[i].end + slack < gs[j].start
    BY <1>3, <1>4
  <2>3. \A a, b, e \in Int : a + e < b /\ 0 <= e => a < b
    OBVIOUS
  <2> QED BY <2>1, <2>2, <2>3, Zenon
<1>5. ASSUME NEW i \in 1..L, NEW j \in 1..L, i <= j
      PROVE  gs[i].start <= gs[j].start /\ gs[i].end <= gs[j].end
  <2>1. /\ gs[i].start \in Int /\ gs[i].end \in Int /\ gs[j].start \in Int /\ gs[j].end \in Int
        /\ gs[i].start < gs[i].end /\ gs[j].start < gs[j].end
    BY <1>2, <1>3
  <2>2. CASE i = j
    BY <2>1, <2>2
  <2>3. CASE i # j
    <3>1. i < j
      BY <1>1, <1>5, <2>3
    <3>2. gs[i].end < gs[j].start
      BY <1>4, <3>1
    <3> QED BY <2>1, <3>2
  <2> QED BY <2>2, <2>3
<1> QED BY <1>1, <1>2, <1>3, <1>4, <1>5 DEF L

\* Groups and gaps are the range, and no gap has footage.
LEMMA GapsTile ==
  ASSUME NEW lower \in Int, NEW upper \in Int, lower < upper, NEW S, NEW gs,
         Grouped(Tolerance, lower, upper, S, gs)
  PROVE  /\ Covered(gs) \cup UNION {Instants(g) : g \in Gaps(gs, lower, upper)} = lower..(upper - 1)
         /\ \A g \in Gaps(gs, lower, upper) : Instants(g) \cap Covered(gs) = {}
<1> DEFINE L == Len(gs)
           gaps == Gaps(gs, lower, upper)
<1>1. /\ L \in Nat /\ DOMAIN gs = 1..L
      /\ \A i \in 1..L :
            /\ gs[i] \in Interval /\ gs[i].start \in Int /\ gs[i].end \in Int
            /\ lower <= gs[i].start /\ gs[i].start < gs[i].end /\ gs[i].end <= upper
      /\ \A i, j \in 1..L : i < j => gs[i].end < gs[j].start
      /\ \A i, j \in 1..L : i <= j => gs[i].start <= gs[j].start /\ gs[i].end <= gs[j].end
  BY InTurn, ToleranceAssumption
<1>2. /\ \A g \in gaps : \E k \in 1..(L + 1) :
            /\ g.start = HoleStart(gs, lower, k) /\ g.end = HoleEnd(gs, upper, k)
            /\ g.start < g.end
      /\ \A k \in 1..(L + 1) : HoleStart(gs, lower, k) < HoleEnd(gs, upper, k) =>
            \E g \in gaps : g.start = HoleStart(gs, lower, k) /\ g.end = HoleEnd(gs, upper, k)
  BY GapsBetween
<1>3. \A k \in 1..(L + 1) :
         /\ k # 1 => k - 1 \in 1..L /\ HoleStart(gs, lower, k) = gs[k - 1].end
         /\ k = 1 => HoleStart(gs, lower, k) = lower
         /\ k # L + 1 => k \in 1..L /\ HoleEnd(gs, upper, k) = gs[k].start
         /\ k = L + 1 => HoleEnd(gs, upper, k) = upper
  BY <1>1 DEF HoleStart, HoleEnd
<1> HIDE DEF gaps, L
<1>4. \A k \in 1..(L + 1) :
         /\ HoleStart(gs, lower, k) \in Int /\ HoleEnd(gs, upper, k) \in Int
         /\ lower <= HoleStart(gs, lower, k) /\ HoleEnd(gs, upper, k) <= upper
  <2> TAKE k \in 1..(L + 1)
  <2>1. HoleStart(gs, lower, k) \in Int /\ lower <= HoleStart(gs, lower, k)
    <3>1. CASE k = 1
      BY <1>3, <3>1
    <3>2. CASE k # 1
      <4>1. k - 1 \in 1..L /\ HoleStart(gs, lower, k) = gs[k - 1].end
        BY <1>3, <3>2
      <4>2. /\ gs[k - 1].end \in Int /\ gs[k - 1].start \in Int
            /\ lower <= gs[k - 1].start /\ gs[k - 1].start < gs[k - 1].end
        BY <1>1, <4>1
      <4> QED BY <4>1, <4>2
    <3> QED BY <3>1, <3>2
  <2>2. HoleEnd(gs, upper, k) \in Int /\ HoleEnd(gs, upper, k) <= upper
    <3>1. CASE k = L + 1
      BY <1>3, <3>1
    <3>2. CASE k # L + 1
      <4>1. k \in 1..L /\ HoleEnd(gs, upper, k) = gs[k].start
        BY <1>3, <3>2
      <4>2. /\ gs[k].end \in Int /\ gs[k].start \in Int
            /\ gs[k].end <= upper /\ gs[k].start < gs[k].end
        BY <1>1, <4>1
      <4> QED BY <4>1, <4>2
    <3> QED BY <3>1, <3>2
  <2> QED BY <2>1, <2>2
<1>5. \A t : t \in Covered(gs) <=>
               \E k \in 1..L : t \in Int /\ gs[k].start <= t /\ t < gs[k].end
  <2>1. \A t : t \in Covered(gs) <=> \E k \in 1..L : t \in Instants(gs[k])
    BY <1>1 DEF Covered
  <2>2. \A k \in 1..L : \A t :
           t \in Instants(gs[k]) <=> t \in Int /\ gs[k].start <= t /\ t < gs[k].end
    BY <1>1 DEF Instants
  <2> QED BY <2>1, <2>2
<1>6. \A g \in gaps : /\ g.start \in Int /\ g.end \in Int /\ lower <= g.start /\ g.end <= upper
                      /\ \A t : t \in Instants(g) <=> t \in Int /\ g.start <= t /\ t < g.end
  <2> TAKE g \in gaps
  <2>1. g.start \in Int /\ g.end \in Int /\ lower <= g.start /\ g.end <= upper
    BY <1>2, <1>4
  <2> QED BY <2>1 DEF Instants
<1>7. ASSUME NEW t \in lower..(upper - 1), t \notin Covered(gs)
      PROVE  \E g \in gaps : t \in Instants(g)
  <2> DEFINE K == {k \in 1..L : t < gs[k].end}
  <2>0. t \in Int /\ lower <= t /\ t < upper
    OBVIOUS
  <2>1. \E k \in 1..(L + 1) : HoleStart(gs, lower, k) <= t /\ t < HoleEnd(gs, upper, k)
    <3>1. CASE K = {}
      <4>1. L + 1 \in 1..(L + 1) /\ HoleEnd(gs, upper, L + 1) = upper
        BY <1>1, <1>3
      <4>2. HoleStart(gs, lower, L + 1) <= t
        <5>1. CASE L + 1 = 1
          BY <1>3, <2>0, <4>1, <5>1
        <5>2. CASE L + 1 # 1
          <6>1. (L + 1) - 1 = L /\ L \in 1..L
            BY <1>1, <5>2
          <6>2. HoleStart(gs, lower, L + 1) = gs[L].end
            BY <1>3, <4>1, <5>2, <6>1
          <6>3. ~(t < gs[L].end) /\ gs[L].end \in Int
            BY <1>1, <3>1, <6>1
          <6> QED BY <2>0, <6>2, <6>3
        <5> QED BY <5>1, <5>2
      <4> QED BY <2>0, <4>1, <4>2
    <3>2. CASE K # {}
      <4>1. PICK k \in K : \A j \in K : k <= j
        <5>1. K \subseteq Nat
          BY <1>1
        <5> HIDE DEF K
        <5> QED BY <3>2, <5>1, LeastNumber
      <4>2. /\ k \in 1..L /\ t < gs[k].end /\ k \in 1..(L + 1) /\ k # L + 1 /\ k \in Int
        BY <1>1, <4>1
      <4>3. HoleEnd(gs, upper, k) = gs[k].start /\ gs[k].start \in Int
        BY <1>1, <1>3, <4>2
      <4>4. t < gs[k].start
        BY <1>5, <1>7, <2>0, <4>2, <4>3
      <4>5. HoleStart(gs, lower, k) <= t
        <5>1. CASE k = 1
          BY <1>3, <2>0, <4>2, <5>1
        <5>2. CASE k # 1
          <6>1. k - 1 \in 1..L /\ HoleStart(gs, lower, k) = gs[k - 1].end
            BY <1>3, <4>2, <5>2
          <6>2. k - 1 \notin K
            BY <4>1, <4>2
          <6>3. ~(t < gs[k - 1].end) /\ gs[k - 1].end \in Int
            BY <1>1, <6>1, <6>2
          <6> QED BY <2>0, <6>1, <6>3
        <5> QED BY <5>1, <5>2
      <4> QED BY <4>2, <4>3, <4>4, <4>5
    <3> QED BY <3>1, <3>2
  <2>2. PICK k \in 1..(L + 1) : HoleStart(gs, lower, k) <= t /\ t < HoleEnd(gs, upper, k)
    BY <2>1
  <2>3. HoleStart(gs, lower, k) < HoleEnd(gs, upper, k)
    BY <1>4, <2>0, <2>2
  <2>4. PICK g \in gaps : g.start = HoleStart(gs, lower, k) /\ g.end = HoleEnd(gs, upper, k)
    BY <1>2, <2>3
  <2>5. t \in Instants(g)
    BY <1>6, <2>0, <2>2, <2>4
  <2> QED BY <2>5
<1>8. ASSUME NEW t \in Covered(gs)
      PROVE  t \in lower..(upper - 1)
  <2>1. PICK k \in 1..L : t \in Int /\ gs[k].start <= t /\ t < gs[k].end
    BY <1>5
  <2>2. gs[k].start \in Int /\ gs[k].end \in Int /\ lower <= gs[k].start /\ gs[k].end <= upper
    BY <1>1
  <2> QED BY <2>1, <2>2
<1>9. ASSUME NEW g \in gaps, NEW t \in Instants(g)
      PROVE  t \in lower..(upper - 1) /\ t \notin Covered(gs)
  <2>1. /\ g.start \in Int /\ g.end \in Int /\ lower <= g.start /\ g.end <= upper
        /\ t \in Int /\ g.start <= t /\ t < g.end
    BY <1>6
  <2>2. PICK k \in 1..(L + 1) : g.start = HoleStart(gs, lower, k) /\ g.end = HoleEnd(gs, upper, k)
    BY <1>2
  <2>3. ASSUME NEW j \in 1..L, gs[j].start <= t, t < gs[j].end
        PROVE  FALSE
    <3>1. j \in Int /\ k \in Int /\ gs[j].start \in Int /\ gs[j].end \in Int
      BY <1>1
    <3>2. CASE j < k
      <4>1. k # 1 /\ j <= k - 1
        BY <1>1, <3>1, <3>2
      <4>2. k - 1 \in 1..L /\ g.start = gs[k - 1].end
        BY <1>3, <2>2, <4>1
      <4>3. gs[j].end <= gs[k - 1].end /\ gs[k - 1].end \in Int
        BY <1>1, <4>1, <4>2
      <4> QED BY <2>1, <2>3, <3>1, <4>2, <4>3
    <3>3. CASE k <= j
      <4>1. k # L + 1
        BY <1>1, <3>1, <3>3
      <4>2. k \in 1..L /\ g.end = gs[k].start
        BY <1>3, <2>2, <4>1
      <4>3. gs[k].start <= gs[j].start /\ gs[k].start \in Int
        BY <1>1, <3>3, <4>2
      <4> QED BY <2>1, <2>3, <3>1, <4>2, <4>3
    <3> QED BY <3>1, <3>2, <3>3
  <2>4. t \notin Covered(gs)
    BY <1>5, <2>3
  <2> QED BY <2>1, <2>4
<1>10. Covered(gs) \cup UNION {Instants(g) : g \in gaps} = lower..(upper - 1)
  BY <1>7, <1>8, <1>9
<1>11. \A g \in gaps : Instants(g) \cap Covered(gs) = {}
  BY <1>9
<1> QED BY <1>10, <1>11 DEF gaps

\* The sources of the groups, told by their identity.
LEMMA GroupOf ==
  ASSUME NEW slack \in Nat, NEW lower \in Int, NEW upper \in Int, NEW S,
         InRange(S, lower, upper), NEW gs, Grouped(slack, lower, upper, S, gs), NEW c \in S
  PROVE  /\ \A i \in 1..Len(gs) : c.id \in gs[i].ids =>
               gs[i].start <= c.start /\ c.end <= gs[i].end
         /\ \E k \in 1..Len(gs) : \A j \in 1..Len(gs) : c.id \in gs[j].ids <=> j = k
<1>1. /\ Len(gs) \in Nat
      /\ \A i \in 1..Len(gs) :
            /\ gs[i] \in Interval /\ gs[i].start \in Int /\ gs[i].end \in Int
            /\ lower <= gs[i].start /\ gs[i].start < gs[i].end /\ gs[i].end <= upper
      /\ \A i, j \in 1..Len(gs) : i < j => gs[i].end < gs[j].start
  BY InTurn
<1>2. \A x, y \in S : x.id = y.id => x = y
  BY DEF InRange, Distinct
<1>3. ASSUME NEW i \in 1..Len(gs), c.id \in gs[i].ids
      PROVE  gs[i].start <= c.start /\ c.end <= gs[i].end
  <2>1. PICK x \in S : x.id = c.id /\ gs[i].start <= x.start /\ x.end <= gs[i].end
    BY <1>3 DEF Grouped
  <2> QED BY <1>2, <2>1
<1>4. PICK k \in 1..Len(gs) : c.id \in gs[k].ids
  BY DEF Grouped
<1>5. c.start \in Int /\ c.end \in Int /\ c.start < c.end
  BY DEF InRange, Recording
<1>6. \A i, j \in 1..Len(gs) : c.id \in gs[i].ids /\ c.id \in gs[j].ids => ~(i < j)
  <2> SUFFICES ASSUME NEW i \in 1..Len(gs), NEW j \in 1..Len(gs),
                      c.id \in gs[i].ids, c.id \in gs[j].ids, i < j
               PROVE  FALSE
    OBVIOUS
  <2>1. c.end <= gs[i].end /\ gs[j].start <= c.start
    BY <1>3
  <2>2. gs[i].end < gs[j].start /\ gs[i].end \in Int /\ gs[j].start \in Int
    BY <1>1, Zenon
  <2>3. \A a, b, d, e \in Int : ~(a < b /\ b <= d /\ d < e /\ e <= a)
    OBVIOUS
  <2> QED BY <1>5, <2>1, <2>2, <2>3, Zenon
<1>7. ASSUME NEW j \in 1..Len(gs), c.id \in gs[j].ids
      PROVE  j = k
  <2>1. ~(j < k) /\ ~(k < j)
    BY <1>4, <1>6, <1>7
  <2> QED BY <1>1, <2>1
<1> QED BY <1>3, <1>4, <1>7

\* The requested range is tiled by the groups and the gaps of an export, for any
\* recordings: footage lies in groups only, each available recording in one, and
\* a group is silent for no longer than the tolerance (analyze_source_slices).
THEOREM EveryRangeTiled ==
  ASSUME NEW lower \in Int, NEW upper \in Int, lower < upper, NEW rows, Rows(rows)
  PROVE  RangeTiled(rows, lower, upper)
<1> DEFINE gs == Groups(rows, lower, upper)
           lost == Unavailable(rows, lower, upper)
           S == Taken(rows, lower, upper, TRUE)
           X == Taken(rows, lower, upper, FALSE)
           src == Sources(rows, lower, upper)
           available == {r \in src : r.file}
           clip(r) == Clip(r, lower, upper)
           seen == UNION {Instants(clip(r)) : r \in available}
           silent == Covered(gs) \ seen
           gaps == Gaps(gs, lower, upper)
<1>1. Grouped(Tolerance, lower, upper, S, gs) /\ Grouped(0, lower, upper, X, lost)
  BY GroupsAre
<1>2. /\ InRange(S, lower, upper) /\ InRange(X, lower, upper)
      /\ \A r \in src : r.file = TRUE => clip(r) \in S
      /\ \A r \in src : r.file = FALSE => clip(r) \in X
      /\ \A c \in S : \E r \in src : r.file = TRUE /\ c = clip(r)
      /\ \A c \in X : \E r \in src : r.file = FALSE /\ c = clip(r)
  <2>1. TRUE \in BOOLEAN /\ FALSE \in BOOLEAN
    OBVIOUS
  <2>2. TakenFrom(rows, lower, upper, TRUE) /\ TakenFrom(rows, lower, upper, FALSE)
    BY <2>1, TakenIs
  <2>3. /\ InRange(S, lower, upper)
        /\ \A r \in src : r.file = TRUE => clip(r) \in S
        /\ \A c \in S : \E r \in src : r.file = TRUE /\ c = clip(r)
    BY <2>2, Zenon DEF TakenFrom
  <2>4. /\ InRange(X, lower, upper)
        /\ \A r \in src : r.file = FALSE => clip(r) \in X
        /\ \A c \in X : \E r \in src : r.file = FALSE /\ c = clip(r)
    BY <2>2, Zenon DEF TakenFrom
  <2> QED BY <2>3, <2>4
<1>3. \A r \in src : /\ r \in Recording /\ r.file \in BOOLEAN
                     /\ clip(r).id = r.id
                     /\ clip(r).start \in Int /\ clip(r).end \in Int
                     /\ \A t : t \in Instants(clip(r)) <=>
                                 t \in Int /\ clip(r).start <= t /\ t < clip(r).end
  <2> TAKE r \in src
  <2>1. r \in Recording /\ r.file \in BOOLEAN
    <3>1. r \in Recording
      BY DEF Sources, Rows
    <3> QED BY <3>1, Zenon DEF Recording
  <2>2. clip(r) \in Recording /\ clip(r).id = r.id
    BY ClipIs DEF ClipOf
  <2>3. clip(r).start \in Int /\ clip(r).end \in Int
    BY <2>2 DEF Recording
  <2> QED BY <2>1, <2>2, <2>3 DEF Instants
<1>4. \A r \in available : r \in src /\ clip(r) \in S
  BY <1>2, <1>3
<1>5. \A r \in src \ available : clip(r) \in X
  BY <1>2, <1>3
<1>6. /\ \A c \in S : \E r \in available : c = clip(r)
      /\ \A c \in X : \E r \in src \ available : c = clip(r)
  BY <1>2
<1>7. Tolerance \in Nat /\ 0 \in Nat
  BY ToleranceAssumption
<1>8. /\ Len(gs) \in Nat /\ DOMAIN gs = 1..Len(gs)
      /\ \A i \in 1..Len(gs) : gs[i].start \in Int /\ gs[i].end \in Int
  BY <1>1, <1>7, InTurn
<1>9. /\ Len(lost) \in Nat /\ DOMAIN lost = 1..Len(lost)
      /\ \A i \in 1..Len(lost) : lost[i].start \in Int /\ lost[i].end \in Int
  BY <1>1, <1>7, InTurn
<1>10. /\ Covered(gs) \cup UNION {Instants(g) : g \in gaps} = lower..(upper - 1)
       /\ \A g \in gaps : Instants(g) \cap Covered(gs) = {}
  BY <1>1, GapsTile
<1>11. /\ \A t : t \in Covered(gs) <=>
                   \E k \in 1..Len(gs) : t \in Int /\ gs[k].start <= t /\ t < gs[k].end
       /\ \A t : t \in Covered(lost) <=>
                   \E k \in 1..Len(lost) : t \in Int /\ lost[k].start <= t /\ t < lost[k].end
  <2>1. /\ \A t : t \in Covered(gs) <=> \E k \in 1..Len(gs) : t \in Instants(gs[k])
        /\ \A t : t \in Covered(lost) <=> \E k \in 1..Len(lost) : t \in Instants(lost[k])
    BY <1>8, <1>9 DEF Covered
  <2>2. /\ \A k \in 1..Len(gs) : \A t :
              t \in Instants(gs[k]) <=> t \in Int /\ gs[k].start <= t /\ t < gs[k].end
        /\ \A k \in 1..Len(lost) : \A t :
              t \in Instants(lost[k]) <=> t \in Int /\ lost[k].start <= t /\ t < lost[k].end
    BY <1>8, <1>9 DEF Instants
  <2> QED BY <2>1, <2>2
<1> HIDE DEF gs, lost, S, X, src, available, gaps, clip
<1>12. \A j, k \in DOMAIN gs : j < k => gs[j].end + Tolerance < gs[k].start
  BY <1>1, <1>8 DEF Grouped
<1>13. seen \subseteq Covered(gs)
  <2>1. ASSUME NEW r \in available, NEW t \in Instants(clip(r))
        PROVE  t \in Covered(gs)
    <3>1. t \in Int /\ clip(r).start <= t /\ t < clip(r).end /\ clip(r) \in S
          /\ clip(r).start \in Int /\ clip(r).end \in Int
      BY <1>3, <1>4
    <3>2. PICK i \in 1..Len(gs) : gs[i].start <= clip(r).start /\ clip(r).end <= gs[i].end
      BY <1>1, <3>1 DEF Grouped
    <3>3. gs[i].start \in Int /\ gs[i].end \in Int
      BY <1>8
    <3>4. gs[i].start <= t /\ t < gs[i].end
      BY <3>1, <3>2, <3>3
    <3> QED BY <1>11, <3>1, <3>4
  <2> QED BY <2>1
<1>14. \A r \in available : \E k \in DOMAIN gs : \A j \in DOMAIN gs : r.id \in gs[j].ids <=> j = k
  <2> TAKE r \in available
  <2>1. clip(r) \in S /\ clip(r).id = r.id
    BY <1>3, <1>4
  <2>2. \E k \in 1..Len(gs) : \A j \in 1..Len(gs) : clip(r).id \in gs[j].ids <=> j = k
    BY <1>1, <1>2, <1>7, <2>1, GroupOf
  <2>3. \E k \in DOMAIN gs : \A j \in DOMAIN gs : clip(r).id \in gs[j].ids <=> j = k
    BY <1>8, <2>2
  <2> QED BY <2>1, <2>3
<1>15. \A t \in silent : ~ (t..(t + Tolerance) \subseteq silent)
  <2> SUFFICES ASSUME NEW t \in silent, t..(t + Tolerance) \subseteq silent
               PROVE  FALSE
    OBVIOUS
  <2>1. PICK i \in 1..Len(gs) : t \in Int /\ gs[i].start <= t /\ t < gs[i].end
    BY <1>11
  <2>2. PICK c \in S : c.start <= t + Tolerance /\ t < c.end
    BY <1>1, <2>1 DEF Grouped
  <2>3. PICK r \in available : c = clip(r)
    BY <1>6
  <2>4. c.start \in Int /\ c.end \in Int /\ c.start < c.end
    BY <1>2 DEF InRange, Recording
  <2> DEFINE u == Larger(t, c.start)
  <2>5. u \in t..(t + Tolerance) /\ u \in Int /\ c.start <= u /\ u < c.end
    BY <1>7, <2>1, <2>2, <2>4 DEF Larger
  <2> HIDE DEF u
  <2>6. u \in Instants(clip(r))
    BY <1>3, <1>4, <2>3, <2>5
  <2>7. u \in seen
    BY <2>6
  <2> QED BY <2>5, <2>7
<1>16. Covered(lost) = UNION {Instants(clip(r)) : r \in src \ available}
  <2>1. ASSUME NEW t \in Covered(lost)
        PROVE  \E r \in src \ available : t \in Instants(clip(r))
    <3>1. PICK i \in 1..Len(lost) : t \in Int /\ lost[i].start <= t /\ t < lost[i].end
      BY <1>11
    <3>2. PICK c \in X : c.start <= t + 0 /\ t < c.end
      BY <1>1, <3>1 DEF Grouped
    <3>3. PICK r \in src \ available : c = clip(r)
      BY <1>6
    <3>4. c.start <= t
      BY <3>1, <3>2
    <3> QED BY <1>3, <3>1, <3>2, <3>3, <3>4
  <2>2. ASSUME NEW r \in src \ available, NEW t \in Instants(clip(r))
        PROVE  t \in Covered(lost)
    <3>1. t \in Int /\ clip(r).start <= t /\ t < clip(r).end /\ clip(r) \in X
          /\ clip(r).start \in Int /\ clip(r).end \in Int
      BY <1>3, <1>5
    <3>2. PICK i \in 1..Len(lost) : lost[i].start <= clip(r).start /\ clip(r).end <= lost[i].end
      BY <1>1, <3>1 DEF Grouped
    <3>3. lost[i].start \in Int /\ lost[i].end \in Int
      BY <1>9
    <3>4. lost[i].start <= t /\ t < lost[i].end
      BY <3>1, <3>2, <3>3
    <3> QED BY <1>11, <3>1, <3>4
  <2> QED BY <2>1, <2>2
<1> QED BY <1>10, <1>12, <1>13, <1>14, <1>15, <1>16, Zenon
        DEF RangeTiled, gs, lost, src, available, gaps, clip

-----------------------------------------------------------------------------
(* Playing                                                                 *)

Concatenated(s) == FoldLeft(LAMBDA played, f : played \o Frames(f), <<>>, s)

\* A file shows every instant from its start to its end.
LEMMA FramesAre ==
  ASSUME NEW f \in Recording, f.start < f.end
  PROVE  /\ Frames(f) \in Seq(Int) /\ Len(Frames(f)) = f.end - f.start
         /\ \A i \in 1..(f.end - f.start) : Frames(f)[i] = f.start + i - 1
<1>1. f.start \in Int /\ f.end \in Int /\ f.end - f.start \in Nat
  BY DEF Recording
<1> DEFINE n == f.end - f.start
           e(i) == f.start + i - 1
<1>2. n \in Nat /\ \A i \in 1..n : e(i) \in Int
  BY <1>1
<1>3. Frames(f) = [i \in 1..n |-> e(i)]
  BY DEF Frames
<1> HIDE DEF n, e
<1>4. Frames(f) \in [1..n -> Int]
  BY <1>2, <1>3
<1>5. Frames(f) \in Seq(Int) /\ Len(Frames(f)) = n
  BY <1>2, <1>4, SeqDef, LenProperties
<1> QED BY <1>3, <1>5 DEF n, e

\* Playing a list is a chain of its files.
LEMMA PlayedSteps ==
  ASSUME NEW n \in Nat, NEW s \in [1..n -> Recording], \A k \in 1..n : s[k].start < s[k].end
  PROVE  \E st \in [0..n -> Seq(Int)] :
            /\ st[0] = <<>>
            /\ \A k \in 1..n : st[k] = st[k - 1] \o Frames(s[k])
            /\ Concatenated(s) = st[n]
<1> DEFINE V == Seq(Int)
           G == [p \in V \X (1..n) |-> p[1] \o Frames(s[p[2]])]
           none == <<>>
           Iter == CHOOSE iter :
             iter = [q \in SUBSET DOMAIN s |-> IF q = {} THEN <<>>
                       ELSE iter[q \ {Max(q)}] \o Frames(s[Max(q)])]
<1>1. DOMAIN s = 1..n
  OBVIOUS
<1>2. \A v \in V, k \in 1..n : v \o Frames(s[k]) \in V
  <2> TAKE v \in V, k \in 1..n
  <2>1. Frames(s[k]) \in Seq(Int)
    BY FramesAre
  <2> QED BY <2>1
<1>3. G \in [V \X (1..n) -> V]
  BY <1>2
<1>4. \A v \in V, k \in 1..n : G[<<v, k>>] = v \o Frames(s[k])
  OBVIOUS
<1>5. none \in V /\ none = <<>>
  OBVIOUS
<1> HIDE DEF G, V, none
<1>6. PICK h \in [SUBSET (1..n) -> V] : Folds(G, none, 1..n, h)
  BY <1>3, <1>5, FoldExists
<1>7. h = [q \in SUBSET DOMAIN s |-> IF q = {} THEN <<>>
             ELSE h[q \ {Max(q)}] \o Frames(s[Max(q)])]
  <2>1. ASSUME NEW q \in SUBSET (1..n)
        PROVE  h[q] = IF q = {} THEN <<>> ELSE h[q \ {Max(q)}] \o Frames(s[Max(q)])
    <3>1. h[q] = IF q = {} THEN <<>> ELSE G[<<h[q \ {Max(q)}], Max(q)>>]
      BY <1>5, <1>6, Zenon DEF Folds
    <3>2. q # {} => Max(q) \in 1..n
      BY LargestIs
    <3>3. h[q \ {Max(q)}] \in V
      OBVIOUS
    <3> QED BY <1>4, <3>1, <3>2, <3>3
  <2>2. h = [q \in SUBSET (1..n) |-> h[q]]
    OBVIOUS
  <2> QED BY <1>1, <2>1, <2>2
<1>8. Iter = [q \in SUBSET DOMAIN s |-> IF q = {} THEN <<>>
                ELSE Iter[q \ {Max(q)}] \o Frames(s[Max(q)])]
  BY <1>7, Zenon
<1>9. Concatenated(s) = Iter[1..n]
  <2>1. Concatenated(s) = Iter[DOMAIN s]
    BY Zenon DEF Concatenated, FoldLeft, MapThenFoldSet
  <2> QED BY <1>1, <2>1
<1> HIDE DEF Iter
<1>10. \A q \in SUBSET (1..n) :
          Iter[q] = IF q = {} THEN <<>> ELSE Iter[q \ {Max(q)}] \o Frames(s[Max(q)])
  BY <1>1, <1>8, Zenon
<1>11. Iter[{}] = <<>>
  BY <1>10
<1>12. ASSUME NEW k \in 1..n, Iter[1..(k - 1)] \in V
       PROVE  Iter[1..k] = G[<<Iter[1..(k - 1)], k>>]
  <2>1. k \in Nat /\ k # 0 /\ 1..k \in SUBSET (1..n)
    OBVIOUS
  <2>2. 1..k # {} /\ Max(1..k) = k /\ (1..k) \ {k} = 1..(k - 1)
    BY <2>1, UpTo
  <2>3. Iter[1..k] = Iter[(1..k) \ {k}] \o Frames(s[k])
    BY <1>10, <2>1, <2>2
  <2> QED BY <1>4, <1>12, <2>2, <2>3
<1>13. PICK st : States(n, V, none, G, st) /\ Iter[1..n] = st[n]
  <2>1. Climbs(n, V, none, G, Iter)
    BY <1>3, <1>5, <1>11, <1>12 DEF Climbs
  <2>2. Reaches(n, V, none, G, Iter)
    BY <2>1, FoldSteps
  <2> QED BY <2>2 DEF Reaches
<1>14. \A k \in 1..n : st[k] = st[k - 1] \o Frames(s[k])
  <2>1. ASSUME NEW k \in 1..n
        PROVE  st[k - 1] \in V
    BY <1>13 DEF States
  <2> QED BY <1>4, <1>13, <2>1 DEF States
<1>15. st \in [0..n -> V] /\ st[0] = <<>>
  BY <1>5, <1>13 DEF States
<1> QED BY <1>9, <1>13, <1>14, <1>15 DEF V

\* What files played one after the other show: the first begins, nothing is shown
\* that no file shows, and files that abut play without a seam.
Abut(s, n) == \A m \in 1..(n - 1) : s[m + 1].start = s[m].end
Showing(s, n, k, pl) ==
  /\ pl \in Seq(Int)
  /\ \A i \in 1..Len(pl) : \E m \in 1..n : pl[i] \in Instants(s[m])
  /\ k # 0 => /\ s[1].end - s[1].start <= Len(pl)
              /\ \A i \in 1..(s[1].end - s[1].start) : pl[i] = s[1].start + i - 1
  /\ k # 0 /\ Abut(s, n) => /\ Len(pl) = s[k].end - s[1].start
                            /\ \A i \in 1..Len(pl) : pl[i] = s[1].start + i - 1

\* Every list of files plays so.
LEMMA PlayedShows ==
  ASSUME NEW n \in Nat, NEW s \in [1..n -> Recording], \A k \in 1..n : s[k].start < s[k].end
  PROVE  Showing(s, n, n, Concatenated(s))
<1>1. PICK st \in [0..n -> Seq(Int)] :
         /\ st[0] = <<>>
         /\ \A k \in 1..n : st[k] = st[k - 1] \o Frames(s[k])
         /\ Concatenated(s) = st[n]
  BY PlayedSteps
<1> DEFINE Good(k) == Showing(s, n, k, st[k])
           T == {k \in 0..n : ~Good(k)}
<1>2. Good(0)
  <2>1. st[0] \in Seq(Int) /\ Len(st[0]) = 0
    BY <1>1
  <2>2. \A i \in 1..Len(st[0]) : FALSE
    BY <2>1
  <2> QED BY <2>1, <2>2 DEF Showing
<1>3. ASSUME NEW k \in 1..n, Good(k - 1)
      PROVE  Good(k)
  <2> DEFINE pl == st[k - 1]
             new == st[k]
             f == s[k]
             d == f.end - f.start
             first == s[1]
  <2>1. /\ k \in Nat /\ k # 0 /\ k - 1 \in 0..n /\ 1 \in 1..n
        /\ f \in Recording /\ f.start \in Int /\ f.end \in Int /\ f.start < f.end
        /\ first \in Recording /\ first.start \in Int /\ first.end \in Int /\ first.start < first.end
    BY DEF Recording
  <2>2. pl \in Seq(Int) /\ new = pl \o Frames(f)
    BY <1>1, <2>1
  <2>3. /\ Frames(f) \in Seq(Int) /\ Len(Frames(f)) = d
        /\ \A i \in 1..d : Frames(f)[i] = f.start + i - 1
    BY <2>1, FramesAre
  <2>4. Showing(s, n, k - 1, pl)
    BY <1>3
  <2>5. d \in Nat /\ d # 0
    BY <2>1
  <2>6. first = s[1] /\ f = s[k]
    OBVIOUS
  <2>7. pl = st[k - 1] /\ new = st[k]
    OBVIOUS
  <2> HIDE DEF pl, new, f, d, first
  <2>8. /\ new \in Seq(Int) /\ Len(pl) \in Nat /\ Len(new) = Len(pl) + d
        /\ \A i \in 1..Len(new) : new[i] = IF i <= Len(pl) THEN pl[i] ELSE Frames(f)[i - Len(pl)]
    BY <2>2, <2>3, ConcatProperties, LenProperties
  <2>9. \A i \in 1..Len(pl) : i \in 1..Len(new) /\ new[i] = pl[i]
    BY <2>5, <2>8
  <2>10. \A i \in 1..Len(new) : i \notin 1..Len(pl) =>
            i - Len(pl) \in 1..d /\ new[i] = f.start + (i - Len(pl)) - 1
    <3> TAKE i \in 1..Len(new)
    <3> HAVE i \notin 1..Len(pl)
    <3>1. i - Len(pl) \in 1..d /\ ~(i <= Len(pl))
      BY <2>5, <2>8
    <3> QED BY <2>3, <2>8, <3>1
  <2>11. \A i \in 1..Len(new) : \E m \in 1..n : new[i] \in Instants(s[m])
    <3> TAKE i \in 1..Len(new)
    <3>1. CASE i \in 1..Len(pl)
      BY <2>4, <2>9, <3>1 DEF Showing
    <3>2. CASE i \notin 1..Len(pl)
      <4>1. i - Len(pl) \in 1..d /\ new[i] = f.start + (i - Len(pl)) - 1
        BY <2>10, <3>2
      <4>2. new[i] \in f.start..(f.end - 1)
        <5>1. \A a, b \in Int : \A j \in 1..(b - a) : a + j - 1 \in a..(b - 1)
          OBVIOUS
        <5>2. \A j \in 1..d : f.start + j - 1 \in f.start..(f.end - 1)
          BY <2>1, <5>1, Zenon DEF d
        <5> QED BY <4>1, <5>2
      <4> QED BY <2>6, <4>2 DEF Instants
    <3> QED BY <3>1, <3>2
  <2>12. CASE k = 1
    <3>1. Len(pl) = 0 /\ f = first
      <4>1. pl = <<>>
        BY <1>1, <2>7, <2>12
      <4> QED BY <4>1, <2>6, <2>12
    <3>2. Len(new) = first.end - first.start
      BY <2>1, <2>8, <3>1 DEF d
    <3>3. \A i \in 1..Len(new) : new[i] = first.start + i - 1
      <4> TAKE i \in 1..Len(new)
      <4>1. i \notin 1..Len(pl) /\ i \in Int
        BY <2>8, <3>1
      <4>2. new[i] = f.start + (i - Len(pl)) - 1
        BY <2>10, <4>1
      <4> QED BY <2>1, <3>1, <4>1, <4>2
    <3>4. Len(new) = f.end - first.start
      BY <3>1, <3>2
    <3>5. first.end - first.start <= Len(new)
      BY <2>8, <3>2
    <3>6. \A i \in 1..(first.end - first.start) : new[i] = first.start + i - 1
      BY <3>2, <3>3
    <3> QED BY <2>6, <2>7, <2>8, <2>11, <3>3, <3>4, <3>5, <3>6 DEF Showing
  <2>13. CASE k # 1
    <3>1. k - 1 # 0 /\ k - 1 \in 1..n /\ k - 1 \in 1..(n - 1)
      BY <2>1, <2>13
    <3>2. /\ first.end - first.start <= Len(pl)
          /\ \A i \in 1..(first.end - first.start) : pl[i] = first.start + i - 1
      BY <2>4, <2>6, <3>1 DEF Showing
    <3>3. first.end - first.start <= Len(new)
      BY <2>1, <2>5, <2>8, <3>2
    <3>4. \A i \in 1..(first.end - first.start) : i \in 1..Len(pl)
      BY <2>1, <2>8, <3>2
    <3>5. \A i \in 1..(first.end - first.start) : new[i] = first.start + i - 1
      BY <2>9, <3>2, <3>4
    <3>6. ASSUME Abut(s, n)
          PROVE  /\ Len(new) = f.end - first.start
                 /\ \A i \in 1..Len(new) : new[i] = first.start + i - 1
      <4>1. /\ Len(pl) = s[k - 1].end - first.start
            /\ \A i \in 1..Len(pl) : pl[i] = first.start + i - 1
        BY <2>4, <2>6, <3>1, <3>6 DEF Showing
      <4>2. f.start = s[k - 1].end
        <5>1. (k - 1) + 1 = k
          BY <2>1
        <5> QED BY <2>6, <3>1, <3>6, <5>1 DEF Abut
      <4>3. Len(pl) = f.start - first.start
        BY <4>1, <4>2
      <4>4. Len(new) = f.end - first.start
        <5>1. \A a, b, e \in Int : (b - a) + (e - b) = e - a
          OBVIOUS
        <5>2. Len(new) = (f.start - first.start) + (f.end - f.start)
          BY <2>8, <4>3, Zenon DEF d
        <5> QED BY <2>1, <5>1, <5>2, Zenon
      <4>5. ASSUME NEW i \in 1..Len(new)
            PROVE  new[i] = first.start + i - 1
        <5>1. CASE i \in 1..Len(pl)
          BY <2>9, <4>1, <5>1
        <5>2. CASE i \notin 1..Len(pl)
          <6>1. new[i] = f.start + (i - Len(pl)) - 1
            BY <2>10, <5>2
          <6>2. i \in Int
            BY <2>8
          <6>3. \A a, b, x \in Int : b + (x - (b - a)) - 1 = a + x - 1
            OBVIOUS
          <6>4. new[i] = f.start + (i - (f.start - first.start)) - 1
            BY <4>3, <6>1, Zenon
          <6> QED BY <2>1, <6>2, <6>3, <6>4, Zenon
        <5> QED BY <5>1, <5>2
      <4> QED BY <4>4, <4>5
    <3> QED BY <2>6, <2>7, <2>8, <2>11, <3>3, <3>5, <3>6 DEF Showing
  <2> QED BY <2>12, <2>13
<1> HIDE DEF Good
<1>4. T = {}
  <2> SUFFICES ASSUME T # {}
               PROVE  FALSE
    OBVIOUS
  <2>1. PICK k \in T : \A j \in T : k <= j
    <3>1. T \subseteq Nat
      OBVIOUS
    <3> HIDE DEF T
    <3> QED BY <3>1, LeastNumber
  <2>2. k \in 0..n /\ ~Good(k) /\ k # 0
    BY <1>2, <2>1
  <2>3. k - 1 \in 0..n /\ k \in 1..n
    BY <2>2
  <2>4. Good(k - 1)
    <3> SUFFICES ASSUME ~Good(k - 1)
                 PROVE  FALSE
      OBVIOUS
    <3>1. k <= k - 1
      BY <2>1, <2>3
    <3> QED BY <2>3, <3>1
  <2> QED BY <1>3, <2>2, <2>3, <2>4
<1>5. Good(n)
  <2>1. n \in 0..n
    OBVIOUS
  <2> QED BY <1>4, <2>1
<1> QED BY <1>1, <1>5 DEF Good

-----------------------------------------------------------------------------
(* Rendering                                                               *)

\* The files of a group, each of which shows part of it, one of them its start.
Made(F, lower, upper, g) ==
  /\ IsFiniteSet(F) /\ F \subseteq Recording /\ Distinct(F)
  /\ \A r \in F : /\ r.start < r.end /\ g.start <= Larger(r.start, lower)
                  /\ Larger(r.start, lower) < Smaller(r.end, upper)
                  /\ Smaller(r.end, upper) <= g.end
  /\ \E r \in F : g.start = Larger(r.start, lower)

\* The files of each group of an export are such.
LEMMA FilesAre ==
  ASSUME NEW lower \in Int, NEW upper \in Int, lower < upper, NEW rows, Rows(rows),
         NEW k \in 1..Len(Groups(rows, lower, upper))
  PROVE  LET g == Groups(rows, lower, upper)[k] IN Made(Files(rows, g), lower, upper, g)
<1> DEFINE gs == Groups(rows, lower, upper)
           g == gs[k]
           F == Files(rows, g)
           S == Taken(rows, lower, upper, TRUE)
           src == Sources(rows, lower, upper)
           clip(r) == Clip(r, lower, upper)
<1>1. Grouped(Tolerance, lower, upper, S, gs)
  BY GroupsAre
<1>2. /\ \A d \in g.ids : \E c \in S : c.id = d /\ g.start <= c.start /\ c.end <= g.end
      /\ \E c \in S : c.id \in g.ids /\ c.start = g.start
  BY <1>1 DEF Grouped
<1>3. \A c \in S : \E r \in src : c = clip(r)
  <2>1. TakenFrom(rows, lower, upper, TRUE)
    <3>1. TRUE \in BOOLEAN
      OBVIOUS
    <3> QED BY <3>1, TakenIs
  <2> QED BY <2>1, Zenon DEF TakenFrom
<1>4. \A r \in src : r \in rows /\ clip(r).id = r.id /\ clip(r).start = Larger(r.start, lower)
                     /\ clip(r).end = Smaller(r.end, upper) /\ clip(r).start < clip(r).end
  <2>1. \A r \in src : ClipOf(clip(r), r, lower, upper)
    BY ClipIs
  <2>2. \A r \in src : r \in rows
    BY DEF Sources
  <2> QED BY <2>1, <2>2 DEF ClipOf
<1>5. /\ IsFiniteSet(rows) /\ rows \subseteq Recording /\ \A r \in rows : r.start < r.end
      /\ \A r, q \in rows : r.id = q.id => r = q
  BY DEF Rows, Distinct
<1>6. \A r : r \in F <=> r \in rows /\ r.id \in g.ids
  BY DEF Files
<1> HIDE DEF F, S, src, clip, g, gs
<1>7. IsFiniteSet(F)
  <2>1. F \in SUBSET rows
    BY <1>6
  <2> QED BY <1>5, <2>1, FS_Subset
<1>8. F \subseteq Recording /\ Distinct(F)
  BY <1>5, <1>6 DEF Distinct
<1>9. ASSUME NEW r \in F
      PROVE  /\ r.start < r.end /\ g.start <= Larger(r.start, lower)
             /\ Larger(r.start, lower) < Smaller(r.end, upper)
             /\ Smaller(r.end, upper) <= g.end
  <2>1. r \in rows /\ r.id \in g.ids
    BY <1>6
  <2>2. PICK c \in S : c.id = r.id /\ g.start <= c.start /\ c.end <= g.end
    BY <1>2, <2>1
  <2>3. PICK q \in src : c = clip(q)
    BY <1>3
  <2>4. q = r
    BY <1>4, <1>5, <2>1, <2>2, <2>3
  <2> QED BY <1>4, <1>5, <2>1, <2>2, <2>3, <2>4
<1>10. \E r \in F : g.start = Larger(r.start, lower)
  <2>1. PICK c \in S : c.id \in g.ids /\ c.start = g.start
    BY <1>2
  <2>2. PICK q \in src : c = clip(q)
    BY <1>3
  <2>3. q \in F /\ g.start = Larger(q.start, lower)
    BY <1>4, <1>6, <2>1, <2>2
  <2> QED BY <2>3
<1>11. Made(F, lower, upper, g)
  BY <1>7, <1>8, <1>9, <1>10 DEF Made
<1> QED BY <1>11 DEF F, g, gs

\* What a group that is made of files shows.
Shows(files, g, shown) ==
  LET apart == \A r, s \in files : r # s => r.end <= s.start \/ s.end <= r.start
      whole == Instants(g) \subseteq UNION {Instants(r) : r \in files} IN
  /\ shown # <<>> /\ Len(shown) <= Duration(g) /\ shown[1] = g.start
  /\ ToSet(shown) \subseteq UNION {Instants(r) : r \in files}
  /\ apart /\ whole => shown = [i \in 1..Duration(g) |-> g.start + i - 1]

\* The first file of the list is the one the offset is counted from.
LEMMA FirstFile ==
  ASSUME NEW rows, NEW g, NEW F, F = Files(rows, g), IsFiniteSet(F), F \subseteq Recording,
         F # {}, NEW s, Arranged(F, s)
  PROVE  /\ Cardinality(F) \in Nat /\ 1 \in 1..Cardinality(F)
         /\ FirstStart(rows, g) = s[1].start
         /\ \A r \in F : s[1].start <= r.start
<1> DEFINE n == Cardinality(F)
           x == CHOOSE r \in F : \A q \in F : r.start <= q.start
<1>1. n \in Nat
  BY FS_CardinalityType
<1>2. /\ s \in [1..n -> F]
      /\ \A r \in F : \E k \in 1..n : s[k] = r
      /\ \A j, k \in 1..n : j <= k => s[j].start <= s[k].start
  BY DEF Arranged
<1>3. 1 \in 1..n
  <2>1. PICK k \in 1..n : TRUE
    BY <1>2
  <2> QED BY <1>1, <2>1
<1>4. s[1] \in F /\ \A q \in F : s[1].start <= q.start
  <2>1. s[1] \in F
    BY <1>2, <1>3
  <2>2. ASSUME NEW q \in F
        PROVE  s[1].start <= q.start
    <3>1. PICK k \in 1..n : s[k] = q
      BY <1>2
    <3>2. 1 <= k
      BY <1>1
    <3> QED BY <1>2, <1>3, <3>1, <3>2
  <2> QED BY <2>1, <2>2
<1>5. x \in F /\ \A q \in F : x.start <= q.start
  BY <1>4, Zenon
<1>6. FirstStart(rows, g) = x.start
  BY Zenon DEF FirstStart
<1> HIDE DEF x, n
<1>7. x.start = s[1].start
  <2>1. x.start \in Int /\ s[1].start \in Int
    BY <1>4, <1>5 DEF Recording
  <2>2. x.start <= s[1].start /\ s[1].start <= x.start
    BY <1>4, <1>5
  <2> QED BY <2>1, <2>2
<1> QED BY <1>1, <1>3, <1>4, <1>6, <1>7 DEF n

\* Files of a group that neither overlap nor leave a hole abut, up to its end.
LEMMA FilesAbut ==
  ASSUME NEW lower \in Int, NEW upper \in Int, NEW g \in Interval, g.start < g.end,
         NEW F, Made(F, lower, upper, g), NEW n \in Nat, NEW s, n = Cardinality(F),
         Arranged(F, s), n # 0,
         \A r, q \in F : r # q => r.end <= q.start \/ q.end <= r.start,
         Instants(g) \subseteq UNION {Instants(r) : r \in F}
  PROVE  Abut(s, n) /\ g.end <= s[n].end
<1>1. g.start \in Int /\ g.end \in Int
  BY DEF Interval
<1>2. \A r \in F : /\ r.start \in Int /\ r.end \in Int /\ r.start < r.end
                   /\ g.start <= Larger(r.start, lower)
                   /\ Larger(r.start, lower) < Smaller(r.end, upper)
                   /\ Smaller(r.end, upper) <= g.end
  BY DEF Made, Recording
<1>3. \A r \in F : g.start < r.end /\ r.start < g.end
  BY <1>1, <1>2 DEF Larger, Smaller
<1>4. /\ \A k \in 1..n : s[k] \in F
      /\ \A r \in F : \E k \in 1..n : s[k] = r
      /\ \A j, k \in 1..n : s[j] = s[k] => j = k
      /\ \A j, k \in 1..n : j <= k => s[j].start <= s[k].start
  BY DEF Arranged
<1>5. \A k \in 1..n : s[k].start \in Int /\ s[k].end \in Int /\ s[k].start < s[k].end
  BY <1>2, <1>4
<1>6. ASSUME NEW i \in 1..n, NEW j \in 1..n, i < j
      PROVE  s[i].end <= s[j].start
  <2>1. s[i] \in F /\ s[j] \in F /\ s[i] # s[j] /\ s[i].start <= s[j].start
    BY <1>4, <1>6
  <2>2. s[i].end <= s[j].start \/ s[j].end <= s[i].start
    BY <2>1
  <2>3. /\ s[i].start \in Int /\ s[i].end \in Int /\ s[j].start \in Int /\ s[j].end \in Int
        /\ s[j].start < s[j].end
    BY <1>5
  <2> QED BY <2>1, <2>2, <2>3
<1>7. \A t \in Int : g.start <= t /\ t < g.end =>
         \E k \in 1..n : s[k].start <= t /\ t < s[k].end
  <2> TAKE t \in Int
  <2> HAVE g.start <= t /\ t < g.end
  <2>1. t \in Instants(g)
    BY <1>1 DEF Instants
  <2>2. PICK r \in F : t \in Instants(r)
    BY <2>1
  <2>3. r.start <= t /\ t < r.end
    BY <1>2, <2>2 DEF Instants
  <2> QED BY <1>4, <2>3
<1>8. ASSUME NEW m \in 1..(n - 1)
      PROVE  s[m + 1].start = s[m].end
  <2>1. m \in 1..n /\ m + 1 \in 1..n /\ m < m + 1 /\ m \in Int
    OBVIOUS
  <2>2. s[m].end <= s[m + 1].start /\ s[m].end \in Int /\ s[m + 1].start \in Int
    BY <1>5, <1>6, <2>1
  <2> SUFFICES ASSUME s[m].end < s[m + 1].start
               PROVE  FALSE
    BY <2>2
  <2> DEFINE t == s[m].end
  <2>3. t \in Int /\ g.start <= t /\ t < g.end
    <3>1. g.start < s[m].end /\ s[m + 1].start < g.end
      BY <1>3, <1>4, <2>1
    <3> QED BY <1>1, <2>2, <3>1
  <2>4. PICK k \in 1..n : s[k].start <= t /\ t < s[k].end
    BY <1>7, <2>3
  <2>5. s[k].start \in Int /\ s[k].end \in Int /\ k \in Int
    BY <1>5
  <2>6. CASE k <= m
    <3>1. s[k].end <= s[m].end
      <4>1. CASE k = m
        BY <2>2, <4>1
      <4>2. CASE k # m
        <5>1. k < m
          BY <2>1, <2>5, <2>6, <4>2
        <5>2. s[k].end <= s[m].start /\ s[m].start < s[m].end /\ s[m].start \in Int
          BY <1>5, <1>6, <2>1, <5>1
        <5> QED BY <2>2, <2>5, <5>2
      <4> QED BY <4>1, <4>2
    <3> QED BY <2>3, <2>4, <2>5, <3>1
  <2>7. CASE m + 1 <= k
    <3>1. s[m + 1].start <= s[k].start
      BY <1>4, <2>1, <2>7
    <3> QED BY <2>2, <2>4, <2>5, <3>1
  <2> QED BY <2>1, <2>5, <2>6, <2>7
<1>9. g.end <= s[n].end
  <2>1. g.end - 1 \in Int /\ g.start <= g.end - 1 /\ g.end - 1 < g.end
    BY <1>1
  <2>2. PICK k \in 1..n : s[k].start <= g.end - 1 /\ g.end - 1 < s[k].end
    BY <1>7, <2>1
  <2>3. n \in 1..n /\ k \in Int /\ s[k].end \in Int /\ s[n].end \in Int
    BY <1>5
  <2>4. s[k].end <= s[n].end
    <3>1. CASE k = n
      BY <2>3, <3>1
    <3>2. CASE k # n
      <4>1. s[k].end <= s[n].start /\ s[n].start < s[n].end /\ s[n].start \in Int
        BY <1>5, <1>6, <2>3, <3>2
      <4> QED BY <2>3, <4>1
    <3> QED BY <3>1, <3>2
  <2> QED BY <1>1, <2>2, <2>3, <2>4
<1> QED BY <1>8, <1>9 DEF Abut

\* -ss and -t cut what the group asks for, whatever its files are.
LEMMA CutIs ==
  ASSUME NEW lower \in Int, NEW upper \in Int, NEW rows, NEW g \in Interval, g.start < g.end,
         Made(Files(rows, g), lower, upper, g)
  PROVE  Shows(Files(rows, g), g, Rendered(rows, g))
<1> DEFINE F == Files(rows, g)
           n == Cardinality(F)
           s == Sorted(F, ByStart)
           f == s[1]
           pl == Concatenated(s)
           ss == g.start - f.start
           t == g.end - g.start
           hi == Smaller(Len(pl), ss + t)
           shown == Rendered(rows, g)
           seen == UNION {Instants(r) : r \in F}
<1>1. Arranged(F, s)
  BY ByStartIs DEF Made
<1>2. F # {} /\ IsFiniteSet(F) /\ F \subseteq Recording
  BY DEF Made
<1>3. /\ n \in Nat /\ 1 \in 1..n /\ FirstStart(rows, g) = f.start
      /\ \A r \in F : f.start <= r.start
  BY <1>1, <1>2, FirstFile
<1>4. \A k \in 1..n : s[k] \in F
  BY <1>1 DEF Arranged
<1>5. \A r \in F : /\ r.start \in Int /\ r.end \in Int /\ r.start < r.end
                   /\ g.start <= Larger(r.start, lower)
                   /\ Larger(r.start, lower) < Smaller(r.end, upper)
                   /\ Smaller(r.end, upper) <= g.end
  BY <1>2 DEF Made, Recording
<1>6. s \in [1..n -> Recording] /\ \A k \in 1..n : s[k].start < s[k].end
  <2>1. s \in [1..n -> F]
    BY <1>1 DEF Arranged
  <2> QED BY <1>2, <1>5, <2>1
<1>7. Showing(s, n, n, pl)
  BY <1>3, <1>6, PlayedShows
<1>8. g.start \in Int /\ g.end \in Int
  BY DEF Interval
<1>9. /\ f \in F /\ f.start \in Int /\ f.end \in Int
      /\ f.start <= g.start /\ g.start < f.end
  <2>1. f \in F
    BY <1>3, <1>4
  <2>2. PICK r \in F : g.start = Larger(r.start, lower)
    BY DEF Made
  <2>3. /\ f.start \in Int /\ f.end \in Int /\ g.start <= Larger(f.start, lower)
        /\ Larger(f.start, lower) < Smaller(f.end, upper)
        /\ r.start \in Int /\ f.start <= r.start
    BY <1>3, <1>5, <2>1, <2>2
  <2> HIDE DEF f
  <2> QED BY <1>8, <2>1, <2>2, <2>3 DEF Larger, Smaller
<1>10. /\ Rendered(rows, g) = SubSeq(pl, ss + 1, hi)
       /\ Duration(g) = t
  <2>1. Played(rows, g) = pl
    BY Zenon DEF Played, Concatenated
  <2>2. Duration(g) = t
    BY <1>8 DEF Duration, Larger
  <2>3. Larger(0, g.start - FirstStart(rows, g)) = ss
    BY <1>3, <1>8, <1>9 DEF Larger
  <2>4. /\ TrimArgs(rows, g).ss = Larger(0, g.start - FirstStart(rows, g))
        /\ TrimArgs(rows, g).t = Duration(g)
    BY DEF TrimArgs
  <2> HIDE DEF pl, ss, t
  <2> QED BY <2>1, <2>2, <2>3, <2>4, Zenon DEF Rendered, hi
<1>11. ss \in Nat /\ t \in Nat /\ t # 0 /\ ss < f.end - f.start /\ f.end - f.start \in Nat
  BY <1>8, <1>9
<1>12. /\ pl \in Seq(Int) /\ Len(pl) \in Nat
       /\ \A i \in 1..Len(pl) : pl[i] \in Int /\ \E m \in 1..n : pl[i] \in Instants(s[m])
       /\ f.end - f.start <= Len(pl)
       /\ \A i \in 1..(f.end - f.start) : pl[i] = f.start + i - 1
  <2>1. n # 0
    BY <1>3
  <2>2. pl \in Seq(Int)
    BY <1>7 DEF Showing
  <2>3. /\ \A i \in 1..Len(pl) : \E m \in 1..n : pl[i] \in Instants(s[m])
        /\ f.end - f.start <= Len(pl)
        /\ \A i \in 1..(f.end - f.start) : pl[i] = f.start + i - 1
    BY <1>7, <2>1 DEF Showing
  <2> HIDE DEF pl, f
  <2> QED BY <2>2, <2>3, LenProperties, ElementOfSeq
<1>13. Abut(s, n) => /\ Len(pl) = s[n].end - f.start
                     /\ \A i \in 1..Len(pl) : pl[i] = f.start + i - 1
  <2>1. n # 0
    BY <1>3
  <2> QED BY <1>7, <2>1 DEF Showing
<1>14. \A i \in 1..Len(pl) : pl[i] \in seen
  <2>1. ASSUME NEW i \in 1..Len(pl)
        PROVE  pl[i] \in seen
    <3>1. PICK m \in 1..n : pl[i] \in Instants(s[m])
      BY <1>12
    <3>2. s[m] \in F
      BY <1>4
    <3> HIDE DEF pl, s, F
    <3> QED BY <3>1, <3>2
  <2> QED BY <2>1
<1>15. f = s[1] /\ shown = Rendered(rows, g) /\ ss = g.start - f.start /\ t = g.end - g.start
  OBVIOUS
<1> HIDE DEF pl, ss, t, f, shown, s, F
<1>16. /\ hi \in Int /\ ss + 1 <= hi /\ hi <= Len(pl) /\ hi - ss <= t
       /\ (ss + t <= Len(pl) => hi - ss = t)
  <2>1. \A x, a, d, e \in Int : 0 <= a /\ 0 < d /\ a < e /\ e <= x =>
           /\ Smaller(x, a + d) \in Int /\ a + 1 <= Smaller(x, a + d)
           /\ Smaller(x, a + d) <= x /\ Smaller(x, a + d) - a <= d
           /\ (a + d <= x => Smaller(x, a + d) - a = d)
    BY DEF Smaller
  <2>2. /\ Len(pl) \in Int /\ ss \in Int /\ t \in Int /\ f.end - f.start \in Int
        /\ 0 <= ss /\ 0 < t /\ ss < f.end - f.start /\ f.end - f.start <= Len(pl)
    BY <1>11, <1>12
  <2> DEFINE x == Len(pl)
             e == f.end - f.start
  <2>3. /\ x \in Int /\ ss \in Int /\ t \in Int /\ e \in Int
        /\ 0 <= ss /\ 0 < t /\ ss < e /\ e <= x /\ hi = Smaller(x, ss + t)
    BY <2>2
  <2> HIDE DEF x, e, hi
  <2>4. /\ hi \in Int /\ ss + 1 <= hi /\ hi <= x /\ hi - ss <= t
        /\ (ss + t <= x => hi - ss = t)
    BY <2>1, <2>3
  <2> QED BY <2>4 DEF x
<1> HIDE DEF hi
<1>17. /\ shown \in Seq(Int) /\ Len(shown) = hi - ss
       /\ \A i \in 1..(hi - ss) : shown[i] = pl[ss + i] /\ ss + i \in 1..Len(pl)
  <2>1. \A i \in (ss + 1)..hi : pl[i] \in Int
    <3>1. \A i \in (ss + 1)..hi : i \in 1..Len(pl)
      BY <1>11, <1>12, <1>16
    <3> QED BY <1>12, <3>1
  <2>2. ss + 1 \in Int
    BY <1>11
  <2>3. shown = SubSeq(pl, ss + 1, hi)
    BY <1>10, <1>15
  <2>4. /\ shown \in Seq(Int)
        /\ Len(shown) = IF ss + 1 <= hi THEN hi - (ss + 1) + 1 ELSE 0
        /\ \A i \in 1..(hi - (ss + 1) + 1) : shown[i] = pl[(ss + 1) + i - 1]
    BY <1>16, <2>1, <2>2, <2>3, SubSeqProperties
  <2>5. hi - (ss + 1) + 1 = hi - ss /\ \A i \in Int : (ss + 1) + i - 1 = ss + i
    BY <1>11, <1>16
  <2>6. \A i \in 1..(hi - ss) : i \in Int /\ ss + i \in 1..Len(pl)
    BY <1>11, <1>12, <1>16
  <2>7. Len(shown) = hi - ss
    BY <1>16, <2>4, <2>5
  <2>8. \A i \in 1..(hi - ss) : shown[i] = pl[ss + i]
    BY <2>4, <2>5, <2>6
  <2> QED BY <2>4, <2>6, <2>7, <2>8
<1>18. shown # <<>> /\ Len(shown) <= Duration(g)
  <2>1. Len(shown) # 0
    BY <1>11, <1>16, <1>17
  <2>2. shown # <<>>
    BY <2>1
  <2> QED BY <1>10, <1>16, <1>17, <2>2
<1>19. shown[1] = g.start
  <2>1. 1 \in 1..(hi - ss) /\ ss + 1 \in 1..(f.end - f.start)
    BY <1>11, <1>16
  <2>2. shown[1] = f.start + (ss + 1) - 1
    BY <1>12, <1>17, <2>1
  <2> QED BY <1>8, <1>9, <1>15, <2>2
<1>20. ToSet(shown) \subseteq seen
  <2>1. DOMAIN shown = 1..(hi - ss)
    BY <1>17, LenProperties
  <2>2. \A i \in DOMAIN shown : shown[i] \in seen
    BY <1>14, <1>17, <2>1
  <2> HIDE DEF seen
  <2> QED BY <2>2 DEF ToSet
<1>21. ASSUME \A r, q \in F : r # q => r.end <= q.start \/ q.end <= r.start,
              Instants(g) \subseteq seen
       PROVE  shown = [i \in 1..Duration(g) |-> g.start + i - 1]
  <2>1. Abut(s, n) /\ g.end <= s[n].end
    <3>1. n \in Nat /\ n # 0 /\ n = Cardinality(F)
      BY <1>3
    <3>2. Made(F, lower, upper, g)
      BY DEF F
    <3> HIDE DEF n
    <3> QED BY <1>1, <1>21, <3>1, <3>2, FilesAbut
  <2>2. s[n] \in F
    BY <1>3, <1>4
  <2>3. /\ Len(pl) = s[n].end - f.start
        /\ \A i \in 1..Len(pl) : pl[i] = f.start + i - 1
    BY <1>13, <2>1
  <2>4. ss + t <= Len(pl)
    <3> DEFINE a == f.start
               b == g.start
               c == g.end
               d == s[n].end
               x == Len(pl)
    <3>1. a \in Int /\ b \in Int /\ c \in Int /\ d \in Int
      BY <1>5, <1>8, <1>9, <1>15, <2>2
    <3>2. ss = b - a /\ t = c - b
      BY <1>15
    <3>3. x = d - a /\ c <= d
      BY <2>1, <2>3
    <3> HIDE DEF a, b, c, d, x
    <3>4. ss + t <= x
      BY <3>1, <3>2, <3>3
    <3> QED BY <3>4 DEF x
  <2>5. hi - ss = t
    BY <1>16, <2>4
  <2>6. DOMAIN shown = 1..t /\ \A i \in 1..t : shown[i] = g.start + i - 1
    <3>1. DOMAIN shown = 1..t
      BY <1>17, <2>5, LenProperties
    <3>2. ASSUME NEW i \in 1..t
          PROVE  shown[i] = g.start + i - 1
      <4>1. shown[i] = pl[ss + i] /\ ss + i \in 1..Len(pl)
        BY <1>17, <2>5
      <4>2. pl[ss + i] = f.start + (ss + i) - 1
        BY <2>3, <4>1
      <4>3. i \in Int /\ ss \in Int
        BY <1>11
      <4> DEFINE x == f.start
                 y == g.start
      <4>4. x \in Int /\ y \in Int /\ ss = y - x
        BY <1>8, <1>9, <1>15
      <4> HIDE DEF x, y
      <4>5. x + (ss + i) - 1 = y + i - 1
        BY <4>3, <4>4
      <4>6. f.start + (ss + i) - 1 = g.start + i - 1
        BY <4>5 DEF x, y
      <4> QED BY <4>1, <4>2, <4>6
    <3> QED BY <3>1, <3>2
  <2>7. shown = [i \in 1..t |-> g.start + i - 1]
    <3>1. shown = [i \in DOMAIN shown |-> shown[i]]
      BY <1>17
    <3> QED BY <2>6, <3>1
  <2> QED BY <1>10, <2>7
<1>22. Shows(F, g, shown)
  BY <1>18, <1>19, <1>20, <1>21, Zenon DEF Shows
<1> QED BY <1>22 DEF F, shown

\* Whatever the recordings, every group is rendered from its first instant and shows
\* what its recordings show; if they neither overlap nor leave a hole, exactly the
\* group (_render_group: write_concat_file, then _trim_args).
THEOREM EveryGroupRendered ==
  ASSUME NEW lower \in Int, NEW upper \in Int, lower < upper, NEW rows, Rows(rows)
  PROVE  GroupsRendered(rows, lower, upper)
<1> DEFINE gs == Groups(rows, lower, upper)
<1>1. /\ DOMAIN gs = 1..Len(gs)
      /\ \A i \in 1..Len(gs) : gs[i] \in Interval /\ gs[i].start < gs[i].end
  BY GroupsAre, InTurn, ToleranceAssumption
<1>2. ASSUME NEW k \in DOMAIN gs
      PROVE  Shows(Files(rows, gs[k]), gs[k], Rendered(rows, gs[k]))
  <2>1. gs[k] \in Interval /\ gs[k].start < gs[k].end
    BY <1>1
  <2>2. Made(Files(rows, gs[k]), lower, upper, gs[k])
    BY <1>1, FilesAre
  <2> HIDE DEF gs
  <2> QED BY <2>1, <2>2, CutIs
<1> QED BY <1>2, Zenon DEF GroupsRendered, Shows

\* Whatever is asked for, each group is in exactly one of the files an export makes,
\* and that file's name spans it (process_job: merged, split or ZIP).
THEOREM NothingLeftOut ==
  ASSUME NEW lower \in Int, NEW upper \in Int, lower < upper, NEW rows, Rows(rows)
  PROVE  NothingUnpacked(rows, lower, upper)
<1> DEFINE gs == Groups(rows, lower, upper)
           L == Len(gs)
           gaps == Gaps(gs, lower, upper)
           shown == {k \in DOMAIN gs : Rendered(rows, gs[k]) # <<>>}
           whole(kind) == [kind |-> kind, start |-> gs[1].start, end |-> gs[L].end, shows |-> shown]
           part(k) == [kind |-> "mp4", start |-> gs[k].start, end |-> gs[k].end, shows |-> {k}]
           merged(policy) == EffectivePolicy(gaps, policy) = "merge"
           made(policy, package) == Artifacts(rows, lower, upper, policy, package)
<1>1. /\ L \in Nat /\ DOMAIN gs = 1..L
      /\ \A i \in 1..L : gs[i].start \in Int /\ gs[i].end \in Int
      /\ \A i, j \in 1..L : i <= j => gs[i].start <= gs[j].start /\ gs[i].end <= gs[j].end
      /\ (gs = <<>> <=> L = 0)
  <2>1. gs \in Seq(Interval)
    BY GroupsAre DEF Grouped
  <2>2. gs = <<>> <=> L = 0
    BY <2>1, EmptySeq
  <2> QED BY <2>2, GroupsAre, InTurn, ToleranceAssumption
<1>2. shown = 1..L
  <2>1. \A k \in DOMAIN gs : Rendered(rows, gs[k]) # <<>>
    <3>1. GroupsRendered(rows, lower, upper)
      BY EveryGroupRendered
    <3> QED BY <3>1, Zenon DEF GroupsRendered
  <2> HIDE DEF gs, L
  <2> QED BY <1>1, <2>1
<1>3. \A policy, package :
         made(policy, package) =
           IF gs = <<>> THEN {}
           ELSE IF merged(policy) THEN {whole("mp4")}
           ELSE IF package = "zip" THEN {whole("zip")}
           ELSE {part(k) : k \in shown}
  BY Zenon DEF Artifacts
<1> HIDE DEF made, gs, L, gaps, merged, shown
<1>4. \A kind : /\ whole(kind).shows = 1..L /\ whole(kind).kind = kind
                /\ whole(kind).start = gs[1].start /\ whole(kind).end = gs[L].end
  BY <1>2
<1>5. \A k : /\ part(k).shows = {k} /\ part(k).kind = "mp4"
             /\ part(k).start = gs[k].start /\ part(k).end = gs[k].end
  OBVIOUS
<1> HIDE DEF whole, part
<1>6. ASSUME NEW policy \in {"merge", "split"}, NEW package \in {"individual", "zip"},
             NEW k \in DOMAIN gs
      PROVE  \E a \in made(policy, package) :
                /\ \A b \in made(policy, package) : k \in b.shows <=> b = a
                /\ a.start <= gs[k].start /\ gs[k].end <= a.end
  <2>1. k \in 1..L /\ gs # <<>> /\ 1 \in 1..L /\ L \in 1..L /\ 1 <= k /\ k <= L
    BY <1>1
  <2>2. ASSUME NEW kind, made(policy, package) = {whole(kind)}
        PROVE  \E a \in made(policy, package) :
                  /\ \A b \in made(policy, package) : k \in b.shows <=> b = a
                  /\ a.start <= gs[k].start /\ gs[k].end <= a.end
    <3>1. gs[1].start <= gs[k].start /\ gs[k].end <= gs[L].end
      BY <1>1, <2>1
    <3>2. /\ k \in whole(kind).shows
          /\ whole(kind).start <= gs[k].start /\ gs[k].end <= whole(kind).end
      BY <1>4, <2>1, <3>1
    <3> QED BY <2>2, <3>2
  <2>3. CASE merged(policy)
    BY <1>3, <2>1, <2>2, <2>3
  <2>4. CASE ~merged(policy) /\ package = "zip"
    BY <1>3, <2>1, <2>2, <2>4
  <2>5. CASE ~merged(policy) /\ package # "zip"
    <3>1. made(policy, package) = {part(i) : i \in 1..L}
      BY <1>2, <1>3, <2>1, <2>5
    <3>2. part(k) \in made(policy, package)
      BY <2>1, <3>1
    <3>3. \A b \in made(policy, package) : k \in b.shows <=> b = part(k)
      BY <1>5, <3>1
    <3>4. part(k).start <= gs[k].start /\ gs[k].end <= part(k).end
      BY <1>1, <1>5, <2>1
    <3> QED BY <3>2, <3>3, <3>4
  <2> QED BY <2>3, <2>4, <2>5
<1>7. ASSUME NEW policy \in {"merge", "split"}, NEW package \in {"individual", "zip"},
             package = "individual", NEW a \in made(policy, package)
      PROVE  a.kind = "mp4"
  <2>1. package # "zip"
    BY <1>7
  <2>2. a = whole("mp4") \/ \E k \in shown : a = part(k)
    BY <1>3, <1>7, <2>1
  <2> QED BY <1>4, <1>5, <2>2
<1> QED BY <1>6, <1>7, Zenon DEF NothingUnpacked, made, gs
=============================================================================
