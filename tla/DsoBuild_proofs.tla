-------------------------- MODULE DsoBuild_proofs --------------------------
(***************************************************************************)
(* Proofs about DsoBuild, for any graph, lists of names and module: what    *)
(* it hands to the builder, what of the graph is in the library, and where  *)
(* the slots of its .data stand and lead.                                   *)
(***************************************************************************)
EXTENDS DsoKernel, DsoLayout_proofs

USE DEF lists

-----------------------------------------------------------------------------
(* Sets in order *)

\* How many members of S are not above i.
Rank(S, i) == Cardinality({j \in S : j <= i})

LEMMA RankFacts ==
  ASSUME NEW S \in SUBSET Nat, IsFiniteSet(S)
  PROVE  /\ \A i \in S : Rank(S, i) \in 1 .. Cardinality(S)
         /\ \A i, j \in S : i < j => Rank(S, i) < Rank(S, j)
         /\ \A i, j \in S : i # j => Rank(S, i) # Rank(S, j)
<1> DEFINE Upto(i) == {j \in S : j <= i}
<1>1. ASSUME NEW i \in S
      PROVE  IsFiniteSet(Upto(i)) /\ Cardinality(Upto(i)) \in Nat /\ Cardinality(Upto(i)) <= Cardinality(S)
             /\ Cardinality(Upto(i)) # 0
  <2>1. Upto(i) \in SUBSET S /\ i \in Upto(i)
    OBVIOUS
  <2> HIDE DEF Upto
  <2>2. IsFiniteSet(Upto(i)) /\ Cardinality(Upto(i)) <= Cardinality(S)
    BY <2>1, FS_Subset
  <2> QED BY <2>1, <2>2, FS_CardinalityType, FS_EmptySet
<1>2. ASSUME NEW i \in S, NEW j \in S, i < j PROVE Cardinality(Upto(i)) < Cardinality(Upto(j))
  <2>0. \A x \in S : x \in Nat
    OBVIOUS
  <2>1. Upto(i) \subseteq Upto(j)
    <3>1. ASSUME NEW x \in S, x <= i PROVE x <= j
      BY <1>2, <2>0, <3>1
    <3> QED BY <3>1
  <2>2. j \in Upto(j) /\ j \notin Upto(i)
    BY <1>2, <2>0
  <2> HIDE DEF Upto
  <2>3. Cardinality(Upto(i)) <= Cardinality(Upto(j)) /\ Cardinality(Upto(i)) # Cardinality(Upto(j))
    BY <1>1, <2>1, <2>2, FS_Subset
  <2> QED BY <1>1, <2>3
<1>3. Cardinality(S) \in Nat
  BY FS_CardinalityType
<1>4. ASSUME NEW i \in S PROVE Rank(S, i) \in 1 .. Cardinality(S)
  BY <1>1, <1>3 DEF Rank
<1>5. ASSUME NEW i \in S, NEW j \in S, i < j PROVE Rank(S, i) < Rank(S, j)
  BY <1>2, <1>5 DEF Rank
<1>6. ASSUME NEW i \in S, NEW j \in S, i # j PROVE Rank(S, i) # Rank(S, j)
  <2>1. i < j \/ j < i
    BY <1>6
  <2>2. Rank(S, i) \in Nat /\ Rank(S, j) \in Nat
    BY <1>3, <1>4
  <2> QED BY <1>5, <2>1, <2>2
<1> QED BY <1>4, <1>5, <1>6

\* InOrder lists the members of a set, each of them.
LEMMA OrderFacts ==
  ASSUME NEW n \in Nat, NEW S \in SUBSET (1 .. n)
  PROVE  /\ Cardinality(S) \in Nat /\ InOrder(S) \in Seq(S)
         /\ Len(InOrder(S)) = Cardinality(S) /\ DOMAIN InOrder(S) = 1 .. Cardinality(S)
         /\ \A k \in DOMAIN InOrder(S) : InOrder(S)[k] \in S
         /\ \A i \in S : \E k \in DOMAIN InOrder(S) : InOrder(S)[k] = i
         /\ \A k \in DOMAIN InOrder(S) : Rank(S, InOrder(S)[k]) = k
<1> DEFINE f == [i \in S |-> Rank(S, i)]
           T == 1 .. Cardinality(S)
<1>1. IsFiniteSet(S) /\ S \in SUBSET Nat
  <2>1. IsFiniteSet(1 .. n)
    BY FS_Interval
  <2>2. \A x \in S : x \in Nat
    OBVIOUS
  <2> QED BY <2>1, <2>2, FS_Subset
<1>2. Cardinality(S) \in Nat
  BY <1>1, FS_CardinalityType
<1>3. f \in Injection(S, T)
  BY <1>1, RankFacts DEF Injection, IsInjective
<1>4. IsFiniteSet(T) /\ Cardinality(T) = Cardinality(S)
  BY <1>2, FS_Interval
<1>5. f \in Surjection(S, T)
  <2> HIDE DEF f, T
  <2> QED BY <1>3, <1>4, FS_Injection
<1>6. \A k \in T : \E i \in S : Rank(S, i) = k
  BY <1>5 DEF Surjection
<1>7. InOrder(S) = [k \in T |-> CHOOSE i \in S : Rank(S, i) = k]
  BY DEF InOrder, Rank
<1> HIDE DEF f, T
<1>8. \A k \in T : InOrder(S)[k] \in S /\ Rank(S, InOrder(S)[k]) = k
  BY <1>6, <1>7
<1>9. DOMAIN InOrder(S) = T
  BY <1>7
<1>10. ASSUME NEW i \in S PROVE \E k \in DOMAIN InOrder(S) : InOrder(S)[k] = i
  <2>1. Rank(S, i) \in T
    BY <1>1, RankFacts DEF T
  <2>2. InOrder(S)[Rank(S, i)] \in S /\ Rank(S, InOrder(S)[Rank(S, i)]) = Rank(S, i)
    BY <1>8, <2>1
  <2>3. InOrder(S)[Rank(S, i)] = i
    BY <1>1, <2>2, RankFacts
  <2> QED BY <1>9, <2>1, <2>3
<1>11. InOrder(S) \in Seq(S) /\ Len(InOrder(S)) = Cardinality(S)
  <2>1. InOrder(S) \in [1 .. Cardinality(S) -> S]
    BY <1>7, <1>8 DEF T
  <2> HIDE DEF T
  <2> QED BY <1>2, <2>1
<1> QED BY <1>2, <1>8, <1>9, <1>10, <1>11 DEF T

\* In the list of a set, the least member is first, and each other one stands behind
\* the greatest of those below it.
LEMMA OrderAscends ==
  ASSUME NEW n \in Nat, NEW S \in SUBSET (1 .. n), NEW k \in 1 .. Len(InOrder(S))
  PROVE  IF k = 1 THEN Earlier(S, InOrder(S)[k]) = {}
         ELSE Earlier(S, InOrder(S)[k]) # {} /\ Max(Earlier(S, InOrder(S)[k])) = InOrder(S)[k - 1]
<1> DEFINE o == InOrder(S)
<1>1. /\ Cardinality(S) \in Nat /\ Len(o) = Cardinality(S) /\ DOMAIN o = 1 .. Cardinality(S)
      /\ \A x \in DOMAIN o : o[x] \in S /\ Rank(S, o[x]) = x
  BY OrderFacts
<1>2. IsFiniteSet(S) /\ S \in SUBSET Nat
  <2>1. IsFiniteSet(1 .. n)
    BY FS_Interval
  <2>2. \A x \in S : x \in Nat
    OBVIOUS
  <2> QED BY <2>1, <2>2, FS_Subset
<1>3. \A x \in S : Rank(S, x) \in 1 .. Cardinality(S)
  BY <1>2, RankFacts
<1> HIDE DEF o
<1>4. k \in DOMAIN o /\ o[k] \in S /\ Rank(S, o[k]) = k
  BY <1>1 DEF o
<1>5. ASSUME NEW j \in Earlier(S, o[k]) PROVE j \in S /\ Rank(S, j) \in 1 .. k - 1
  <2>1. j \in S /\ j < o[k]
    BY DEF Earlier
  <2>2. Rank(S, j) < k
    BY <1>2, <1>4, <2>1, RankFacts
  <2> QED BY <1>1, <1>3, <1>4, <2>1, <2>2
<1>6. CASE k = 1
  <2>1. Earlier(S, o[k]) = {}
    BY <1>5, <1>6
  <2> QED BY <1>6, <2>1 DEF o
<1>7. CASE k # 1
  <2>1. k - 1 \in DOMAIN o /\ k - 1 < k
    BY <1>1, <1>4, <1>7
  <2>2. o[k - 1] \in S /\ Rank(S, o[k - 1]) = k - 1
    BY <1>1, <2>1
  <2>3. ASSUME NEW i \in S, NEW j \in S, Rank(S, i) < Rank(S, j) PROVE i < j
    <3>1. i \in Nat /\ j \in Nat /\ Rank(S, i) \in Nat /\ Rank(S, j) \in Nat
      BY <1>1, <1>2, <1>3
    <3>2. CASE j < i
      BY <1>2, <2>3, <3>1, <3>2, RankFacts
    <3>3. CASE j = i
      BY <2>3, <3>1, <3>3
    <3> QED BY <3>1, <3>2, <3>3
  <2>4. o[k - 1] \in Earlier(S, o[k])
    BY <1>4, <2>1, <2>2, <2>3 DEF Earlier
  <2>5. ASSUME NEW j \in Earlier(S, o[k]) PROVE o[k - 1] >= j
    <3>1. j \in S /\ Rank(S, j) \in 1 .. k - 1 /\ j \in Nat /\ o[k - 1] \in Nat
      BY <1>2, <1>5, <2>2
    <3>2. CASE o[k - 1] < j
      <4>1. Rank(S, o[k - 1]) < Rank(S, j)
        BY <1>2, <2>2, <3>1, <3>2, RankFacts
      <4> QED BY <1>1, <2>1, <2>2, <3>1, <4>1
    <3> QED BY <3>1, <3>2
  <2>6. Max(Earlier(S, o[k])) = o[k - 1]
    <3>1. \E x \in Earlier(S, o[k]) : \A y \in Earlier(S, o[k]) : x >= y
      BY <2>4, <2>5
    <3> PICK m : m = Max(Earlier(S, o[k]))
      OBVIOUS
    <3>2. m \in Earlier(S, o[k]) /\ \A y \in Earlier(S, o[k]) : m >= y
      BY <3>1 DEF Max
    <3>3. m >= o[k - 1] /\ o[k - 1] >= m /\ m \in Nat /\ o[k - 1] \in Nat
      BY <1>2, <2>2, <2>4, <2>5, <3>2 DEF Earlier
    <3> QED BY <3>3
  <2> QED BY <1>7, <2>4, <2>6 DEF o
<1> QED BY <1>6, <1>7

\* The list of a set ends with its greatest member.
LEMMA OrderEnds ==
  ASSUME NEW n \in Nat, NEW S \in SUBSET (1 .. n), S # {}
  PROVE  Len(InOrder(S)) \in 1 .. Len(InOrder(S)) /\ Max(S) = InOrder(S)[Len(InOrder(S))]
<1> DEFINE o == InOrder(S)
<1>1. /\ Cardinality(S) \in Nat /\ Len(o) = Cardinality(S) /\ DOMAIN o = 1 .. Cardinality(S)
      /\ \A x \in DOMAIN o : o[x] \in S /\ Rank(S, o[x]) = x
      /\ \A i \in S : \E x \in DOMAIN o : o[x] = i
  BY OrderFacts
<1>2. IsFiniteSet(S) /\ S \in SUBSET Nat
  <2>1. IsFiniteSet(1 .. n)
    BY FS_Interval
  <2>2. \A x \in S : x \in Nat
    OBVIOUS
  <2> QED BY <2>1, <2>2, FS_Subset
<1> HIDE DEF o
<1>3. Len(o) \in 1 .. Len(o)
  <2>1. PICK i \in S : TRUE
    OBVIOUS
  <2>2. PICK x \in DOMAIN o : o[x] = i
    BY <1>1, <2>1
  <2> QED BY <1>1, <2>2
<1>4. o[Len(o)] \in S /\ Rank(S, o[Len(o)]) = Len(o)
  BY <1>1, <1>3
<1>5. ASSUME NEW j \in S PROVE o[Len(o)] >= j
  <2>1. Rank(S, j) \in 1 .. Len(o) /\ j \in Nat /\ o[Len(o)] \in Nat
    BY <1>1, <1>2, <1>4, RankFacts
  <2>2. CASE o[Len(o)] < j
    <3>1. Rank(S, o[Len(o)]) < Rank(S, j)
      BY <1>2, <1>4, <2>2, RankFacts
    <3> QED BY <1>1, <1>4, <2>1, <3>1
  <2> QED BY <2>1, <2>2
<1>6. Max(S) = o[Len(o)]
  <2>1. \E x \in S : \A y \in S : x >= y
    BY <1>4, <1>5
  <2> PICK m : m = Max(S)
    OBVIOUS
  <2>2. m \in S /\ \A y \in S : m >= y
    BY <2>1 DEF Max
  <2>3. m >= o[Len(o)] /\ o[Len(o)] >= m /\ m \in Nat /\ o[Len(o)] \in Nat
    BY <1>2, <1>4, <1>5, <2>2
  <2> QED BY <2>3
<1> QED BY <1>3, <1>6 DEF o

-----------------------------------------------------------------------------
(* The layout of the module *)

LEMMA AlignUp ==
  ASSUME NEW v \in Nat, NEW a \in Nat \ {0}
  PROVE  align(v, a) \in Nat /\ v <= align(v, a)
<1> DEFINE q == (v + a - 1) \div a
<1>1. q \in Int /\ v + a - 1 = q * a + ((v + a - 1) % a) /\ (v + a - 1) % a \in 0 .. a - 1
  OBVIOUS
<1>2. q * a \in Int
  BY <1>1
<1>3. v <= q * a
  <2>1. PICK x \in Int : x = q * a
    BY <1>2
  <2>2. PICK y \in 0 .. a - 1 : v + a - 1 = x + y
    BY <1>1, <2>1
  <2> QED BY <2>1, <2>2
<1> HIDE DEF q
<1> QED BY <1>2, <1>3 DEF align, q

\* A sequence of places, each computed from the one before, exists.
LEMMA PlacesExist ==
  ASSUME NEW n \in Nat, NEW a \in Nat, NEW g \in [(1 .. n) \X Nat -> Nat]
  PROVE  \E f \in [0 .. n -> Nat] : f[0] = a /\ \A k \in 1 .. n : f[k] = g[<< k, f[k - 1] >>]
<1> DEFINE Upto(m, f) == /\ f \in [0 .. m -> Nat] /\ f[0] = a
                         /\ \A k \in 1 .. m : f[k] = g[<< k, f[k - 1] >>]
           Bad == {m \in 0 .. n : ~\E f : Upto(m, f)}
<1>1. SUFFICES ASSUME Bad # {} PROVE FALSE
  <2>1. n \in 0 .. n
    OBVIOUS
  <2>2. ASSUME Bad = {} PROVE \E f : Upto(n, f)
    BY <2>1, <2>2
  <2> QED BY <2>2
<1>2. Bad \in SUBSET Nat
  OBVIOUS
<1>3. PICK m \in Bad : \A j \in Bad : m <= j
  <2> HIDE DEF Bad
  <2> QED BY <1>1, <1>2, LeastNat
<1>4. m \in 0 .. n /\ ~\E f : Upto(m, f)
  OBVIOUS
<1>5. m # 0
  <2>1. Upto(0, [k \in 0 .. 0 |-> a])
    OBVIOUS
  <2> HIDE DEF Upto
  <2> QED BY <1>4, <2>1
<1>6. PICK f : Upto(m - 1, f)
  <2>1. m - 1 \in 0 .. n /\ m - 1 < m
    BY <1>4, <1>5
  <2>2. m - 1 \notin Bad
    <3> HIDE DEF Bad
    <3> QED BY <1>3, <1>4, <2>1
  <2> QED BY <2>1, <2>2
<1>7. m \in 1 .. n /\ m - 1 \in 0 .. m - 1
  BY <1>4, <1>5
<1>8. f[m - 1] \in Nat
  BY <1>6, <1>7
<1>9. g[<< m, f[m - 1] >>] \in Nat
  BY <1>7, <1>8
<1> DEFINE h == [k \in 0 .. m |-> IF k = m THEN g[<< m, f[m - 1] >>] ELSE f[k]]
<1>10. h \in [0 .. m -> Nat] /\ h[m] = g[<< m, f[m - 1] >>] /\ \A k \in 0 .. m - 1 : h[k] = f[k]
  BY <1>6, <1>7, <1>9
<1> HIDE DEF h
<1>11. h[0] = a /\ h[m - 1] = f[m - 1]
  BY <1>6, <1>7, <1>10
<1>12. ASSUME NEW k \in 1 .. m PROVE h[k] = g[<< k, h[k - 1] >>]
  <2>1. CASE k = m
    BY <2>1, <1>10, <1>11
  <2>2. CASE k # m
    <3>1. k \in 1 .. m - 1 /\ k - 1 \in 0 .. m - 1 /\ k \in 0 .. m - 1
      BY <2>2, <1>7
    <3> QED BY <1>6, <1>10, <3>1
  <2> QED BY <2>1, <2>2
<1>13. Upto(m, h)
  BY <1>10, <1>11, <1>12
<1> HIDE DEF Upto
<1> QED BY <1>4, <1>13

\* Where the loop puts the n-th section of a part when its cursor is at a.
StartAt(k, secs, n, a) == align(a, Larger(1, k.sections[InOrder(secs)[n]].align))

\* A part of the layout as the loop over its sections makes it: after[n] is the cursor
\* behind the first n of them.
Runs(k, secs, from, after) ==
  /\ \A n \in 0 .. Len(InOrder(secs)) : after[n] \in Nat /\ from <= after[n]
  /\ after[0] = from
  /\ \A n \in 1 .. Len(InOrder(secs)) :
       /\ StartAt(k, secs, n, after[n - 1]) \in Nat /\ after[n - 1] <= StartAt(k, secs, n, after[n - 1])
       /\ after[n] = StartAt(k, secs, n, after[n - 1]) + k.sections[InOrder(secs)[n]].size
       /\ Part(k, secs, from).offsets[InOrder(secs)[n]] = StartAt(k, secs, n, after[n - 1])
  /\ Part(k, secs, from).end = PageUp(after[Len(InOrder(secs))])
  /\ DOMAIN Part(k, secs, from).offsets = secs

\* The loop over the sections of a part runs.
LEMMA PartRuns ==
  ASSUME NEW k, k.sections \in Seq(Sec), NEW secs \in SUBSET DOMAIN k.sections, NEW from \in Nat
  PROVE  \E after : Runs(k, secs, from, after)
<1> DEFINE order == InOrder(secs)
           len == Len(order)
           Size(n) == k.sections[order[n]].size
           Start(n, a) == align(a, Larger(1, k.sections[order[n]].align))
           Is(f) == f = [n \in 0 .. len |-> IF n = 0 THEN from ELSE Start(n, f[n - 1]) + Size(n)]
           after == CHOOSE f : Is(f)
<1>1. Len(k.sections) \in Nat /\ DOMAIN k.sections = 1 .. Len(k.sections)
  OBVIOUS
<1>2. /\ len \in Nat /\ DOMAIN order = 1 .. len /\ \A n \in DOMAIN order : order[n] \in secs
      /\ \A i \in secs : \E n \in DOMAIN order : order[n] = i
  BY <1>1, OrderFacts
<1>3. \A n \in 1 .. len : Size(n) \in Nat /\ k.sections[order[n]].align \in Nat
  <2>1. \A i \in DOMAIN k.sections : k.sections[i].size \in Nat /\ k.sections[i].align \in Nat
    <3>1. \A i \in DOMAIN k.sections : k.sections[i] \in Sec
      OBVIOUS
    <3> QED BY <3>1 DEF Sec
  <2> QED BY <1>2, <2>1
<1>4. ASSUME NEW n \in 1 .. len, NEW a \in Nat PROVE Start(n, a) \in Nat /\ a <= Start(n, a)
  <2>1. Larger(1, k.sections[order[n]].align) \in Nat \ {0}
    BY <1>3 DEF Larger
  <2> QED BY <2>1, AlignUp
<1>5. \E f : Is(f)
  <2> DEFINE g == [p \in (1 .. len) \X Nat |-> Start(p[1], p[2]) + Size(p[1])]
  <2>1. g \in [(1 .. len) \X Nat -> Nat]
    <3> HIDE DEF Start, Size, len
    <3>1. ASSUME NEW n \in 1 .. len, NEW x \in Nat
          PROVE  Start(n, x) + Size(n) \in Nat
      <4>1. Size(n) \in Nat /\ Start(n, x) \in Nat /\ x <= Start(n, x)
        BY <1>3, <1>4
      <4> QED BY <4>1
    <3> QED BY <3>1
  <2>2. \A n \in 1 .. len : \A x \in Nat : g[<< n, x >>] = Start(n, x) + Size(n)
    OBVIOUS
  <2> HIDE DEF g
  <2>3. PICK f \in [0 .. len -> Nat] : f[0] = from /\ \A n \in 1 .. len : f[n] = g[<< n, f[n - 1] >>]
    <3>1. PICK z \in Nat : z = len
      BY <1>2
    <3> HIDE DEF Start, Size, len
    <3>2. g \in [(1 .. z) \X Nat -> Nat]
      BY <2>1, <3>1
    <3>3. \E f \in [0 .. z -> Nat] : f[0] = from /\ \A n \in 1 .. z : f[n] = g[<< n, f[n - 1] >>]
      BY <3>2, PlacesExist
    <3> QED BY SMTT(60), <3>1, <3>3
  <2> HIDE DEF Start, Size, len
  <2>4. ASSUME NEW n \in 0 .. len PROVE f[n] = IF n = 0 THEN from ELSE Start(n, f[n - 1]) + Size(n)
    <3>1. CASE n = 0
      BY <3>1, <2>3
    <3>2. CASE n # 0
      <4>1. n \in 1 .. len /\ n - 1 \in 0 .. len
        BY <3>2, <1>2 DEF len
      <4>2. f[n - 1] \in Nat
        BY <4>1, <2>3
      <4> QED BY <2>2, <2>3, <3>2, <4>1, <4>2
    <3> QED BY <3>1, <3>2
  <2>5. Is(f)
    BY <2>3, <2>4
  <2> HIDE DEF Is
  <2> QED BY <2>3, <2>5
<1>6. Is(after)
  <2> HIDE DEF Is
  <2> QED BY <1>5
<1>7. \A n \in 0 .. len : after[n] = IF n = 0 THEN from ELSE Start(n, after[n - 1]) + Size(n)
  <2> HIDE DEF after, Start, Size, len
  <2> QED BY <1>6
<1>8. \A n \in 0 .. len : after[n] \in Nat /\ from <= after[n]
  <2> DEFINE Bad == {n \in 0 .. len : ~(after[n] \in Nat /\ from <= after[n])}
  <2>1. SUFFICES ASSUME Bad # {} PROVE FALSE
    OBVIOUS
  <2> HIDE DEF after, Start, Size, len
  <2>2. Bad \in SUBSET Nat
    BY <1>2
  <2>3. PICK n \in Bad : \A j \in Bad : n <= j
    <3> HIDE DEF Bad
    <3> QED BY <2>1, <2>2, LeastNat
  <2>4. n \in 0 .. len /\ ~(after[n] \in Nat /\ from <= after[n])
    OBVIOUS
  <2>5. n # 0
    BY <1>7, <2>4
  <2>6. n \in 1 .. len /\ n - 1 \in 0 .. len /\ n - 1 < n
    BY <1>2, <2>4, <2>5
  <2>7. n - 1 \notin Bad
    <3> HIDE DEF Bad
    <3> QED BY <2>3, <2>4, <2>6
  <2>8. after[n - 1] \in Nat /\ from <= after[n - 1]
    BY <2>6, <2>7
  <2>9. Start(n, after[n - 1]) \in Nat /\ after[n - 1] <= Start(n, after[n - 1]) /\ Size(n) \in Nat
    BY <1>3, <1>4, <2>6, <2>8
  <2>10. after[n] = Start(n, after[n - 1]) + Size(n)
    BY <1>7, <2>4, <2>5
  <2> QED BY SMTT(60), <2>4, <2>8, <2>9, <2>10
<1>9. /\ Part(k, secs, from).end = PageUp(after[len])
      /\ Part(k, secs, from).offsets
           = [i \in secs |-> LET n == CHOOSE n \in DOMAIN order : order[n] = i IN Start(n, after[n - 1])]
  BY DEF Part
<1>10. ASSUME NEW n \in 1 .. len
       PROVE  /\ Start(n, after[n - 1]) \in Nat /\ after[n - 1] <= Start(n, after[n - 1])
              /\ after[n] = Start(n, after[n - 1]) + Size(n)
              /\ Part(k, secs, from).offsets[order[n]] = Start(n, after[n - 1])
  <2> HIDE DEF after, Start, Size, len
  <2>1. n \in 0 .. len /\ n - 1 \in 0 .. len /\ n # 0
    BY <1>2
  <2>2. after[n - 1] \in Nat
    BY <1>8, <2>1
  <2>3. order[n] \in secs /\ \A m \in DOMAIN order : order[m] = order[n] => m = n
    <3>1. \A m \in DOMAIN order : Rank(secs, order[m]) = m
      BY <1>1, OrderFacts
    <3> HIDE DEF order
    <3> QED BY <1>2, <3>1
  <2>4. (CHOOSE m \in DOMAIN order : order[m] = order[n]) = n
    <3> HIDE DEF order
    <3> QED BY <1>2, <2>3
  <2>5. Part(k, secs, from).offsets[order[n]] = Start(n, after[n - 1])
    <3> HIDE DEF order
    <3> QED BY <1>9, <2>3, <2>4
  <2> QED BY <1>4, <1>7, <2>1, <2>2, <2>5
<1>11. after[0] = from /\ DOMAIN Part(k, secs, from).offsets = secs
  <2>1. 0 \in 0 .. len
    BY <1>2
  <2> HIDE DEF after, Start, Size, len
  <2> QED BY <1>7, <1>9, <2>1
<1> HIDE DEF after
<1>12. Runs(k, secs, from, after)
  BY <1>8, <1>9, <1>10, <1>11 DEF Runs, StartAt
<1> QED BY <1>12

\* A part of the layout has a place for each of its sections, from its start on.
LEMMA PartFacts ==
  ASSUME NEW k, k.sections \in Seq(Sec), NEW secs \in SUBSET DOMAIN k.sections, NEW from \in Nat
  PROVE  /\ Part(k, secs, from).end \in Nat /\ from <= Part(k, secs, from).end
         /\ Part(k, secs, from).end % PageSize = 0
         /\ DOMAIN Part(k, secs, from).offsets = secs
         /\ \A i \in secs : Part(k, secs, from).offsets[i] \in Nat /\ from <= Part(k, secs, from).offsets[i]
<1> DEFINE order == InOrder(secs)
           Start(n, a) == StartAt(k, secs, n, a)
<1>1. Len(k.sections) \in Nat /\ DOMAIN k.sections = 1 .. Len(k.sections)
  OBVIOUS
<1>2. /\ Len(order) \in Nat /\ DOMAIN order = 1 .. Len(order)
      /\ \A i \in secs : \E n \in DOMAIN order : order[n] = i
  BY <1>1, OrderFacts
<1>3. PICK after : Runs(k, secs, from, after)
  BY PartRuns
<1>6. /\ \A n \in 0 .. Len(order) : after[n] \in Nat /\ from <= after[n]
      /\ \A n \in 1 .. Len(order) :
           /\ Start(n, after[n - 1]) \in Nat /\ after[n - 1] <= Start(n, after[n - 1])
           /\ Part(k, secs, from).offsets[order[n]] = Start(n, after[n - 1])
      /\ Part(k, secs, from).end = PageUp(after[Len(order)])
      /\ DOMAIN Part(k, secs, from).offsets = secs
  BY <1>3 DEF Runs
<1> HIDE DEF order, Start
<1>4. ASSUME NEW i \in secs
      PROVE  Part(k, secs, from).offsets[i] \in Nat /\ from <= Part(k, secs, from).offsets[i]
  <2>1. PICK n \in 1 .. Len(order) : order[n] = i
    BY <1>2
  <2>2. n - 1 \in 0 .. Len(order)
    BY <1>2
  <2>3. after[n - 1] \in Nat /\ from <= after[n - 1]
    BY <1>6, <2>2
  <2>4. Start(n, after[n - 1]) \in Nat /\ after[n - 1] <= Start(n, after[n - 1])
    BY <1>6
  <2>5. Part(k, secs, from).offsets[i] = Start(n, after[n - 1])
    BY <1>6, <2>1
  <2> QED BY <2>3, <2>4, <2>5
<1>5. /\ PageUp(after[Len(order)]) \in Nat /\ from <= PageUp(after[Len(order)])
      /\ PageUp(after[Len(order)]) % PageSize = 0
  <2>1. PICK e \in Nat : e = after[Len(order)] /\ from <= e
    BY <1>2, <1>6
  <2>2. PageUp(e) \in Int /\ e <= PageUp(e) /\ PageUp(e) % PageSize = 0
    <3>1. e \in Int
      BY <2>1
    <3> QED BY ONLY <3>1, PageFacts
  <2>3. PICK u \in Int : u = PageUp(e)
    BY <2>2
  <2>4. u \in Nat /\ from <= u /\ u % PageSize = 0
    BY <2>1, <2>2, <2>3
  <2> QED BY <2>1, <2>3, <2>4
<1> QED BY <1>6, <1>4, <1>5

\* The layout of a module places its core sections, writable ones behind the rest.
LEMMA LayoutFacts ==
  ASSUME NEW k, k.sections \in Seq(Sec)
  PROVE  LET l == compute_core_layout(k) IN
         /\ l.ro_start \in Nat /\ l.ro_end \in Nat /\ l.data_start \in Nat /\ l.data_end \in Nat
         /\ l.data_start <= l.data_end /\ l.data_start % PageSize = 0
         /\ DOMAIN l.offsets \subseteq DOMAIN k.sections /\ DataSecs(k) \subseteq DOMAIN l.offsets
         /\ \A i \in DOMAIN l.offsets : l.offsets[i] \in Nat
         /\ \A i \in DataSecs(k) : l.data_start <= l.offsets[i]
<1> DEFINE text == Part(k, TextSecs(k), 0)
           ro   == Part(k, RoSecs(k), text.end)
           data == Part(k, DataSecs(k), ro.end)
           Of(i) == IF i \in DataSecs(k) THEN data ELSE IF i \in RoSecs(k) THEN ro ELSE text
           all  == [i \in Core(k) |-> Of(i).offsets[i]]
<1>1. TextSecs(k) \in SUBSET DOMAIN k.sections /\ RoSecs(k) \in SUBSET DOMAIN k.sections
      /\ DataSecs(k) \in SUBSET DOMAIN k.sections
  BY DEF TextSecs, RoSecs, DataSecs, Core
<1>2. /\ text.end \in Nat /\ DOMAIN text.offsets = TextSecs(k)
      /\ \A i \in TextSecs(k) : text.offsets[i] \in Nat
  BY <1>1, PartFacts
<1>3. /\ ro.end \in Nat /\ ro.end % PageSize = 0 /\ DOMAIN ro.offsets = RoSecs(k)
      /\ \A i \in RoSecs(k) : ro.offsets[i] \in Nat
  <2> HIDE DEF text
  <2> QED BY <1>1, <1>2, PartFacts
<1>4. /\ data.end \in Nat /\ ro.end <= data.end /\ DOMAIN data.offsets = DataSecs(k)
      /\ \A i \in DataSecs(k) : data.offsets[i] \in Nat /\ ro.end <= data.offsets[i]
  <2> HIDE DEF ro
  <2> QED BY <1>1, <1>3, PartFacts
<1>5. compute_core_layout(k) = [offsets |-> all, ro_start |-> text.end, ro_end |-> ro.end,
                                data_start |-> ro.end, data_end |-> data.end]
  BY DEF compute_core_layout
<1> HIDE DEF text, ro, data
<1>6. /\ DOMAIN all = Core(k)
      /\ \A i \in Core(k) : all[i] = IF i \in DataSecs(k) THEN data.offsets[i]
                                       ELSE IF i \in RoSecs(k) THEN ro.offsets[i] ELSE text.offsets[i]
  OBVIOUS
<1> HIDE DEF all
<1>7. /\ \A i \in DOMAIN all : all[i] \in Nat
      /\ \A i \in DataSecs(k) : i \in DOMAIN all /\ ro.end <= all[i]
      /\ DOMAIN all \subseteq DOMAIN k.sections
  <2>1. Core(k) \subseteq DOMAIN k.sections /\ DataSecs(k) \subseteq Core(k)
        /\ \A i \in Core(k) : i \in DataSecs(k) \/ i \in RoSecs(k) \/ i \in TextSecs(k)
    BY DEF TextSecs, RoSecs, DataSecs, Core
  <2> QED BY <1>2, <1>3, <1>4, <1>6, <2>1
<1> QED BY <1>2, <1>3, <1>4, <1>5, <1>7

-----------------------------------------------------------------------------
(* The module loader *)

\* Sections that the loader has placed one after the other stand where the layout has them.
LEMMA LoaderPart ==
  ASSUME NEW k, k.sections \in Seq(Sec), NEW secs \in SUBSET DOMAIN k.sections, NEW from \in Nat, NEW b \in Nat,
         \A i \in secs : k.kernel[i] \in Nat, PlacedNext(k, b, secs, from)
  PROVE  /\ \A i \in secs : k.kernel[i] = b + Part(k, secs, from).offsets[i]
         /\ PageUp(EndIn(k, b, secs, from)) = Part(k, secs, from).end
<1> DEFINE order == InOrder(secs)
           len == Len(order)
           At(i) == k.kernel[i] - b
           Size(n) == k.sections[order[n]].size
           Start(n, a) == StartAt(k, secs, n, a)
<1>1. Len(k.sections) \in Nat /\ DOMAIN k.sections = 1 .. Len(k.sections) /\ secs \in SUBSET (1 .. Len(k.sections))
  OBVIOUS
<1>2. /\ len \in Nat /\ DOMAIN order = 1 .. len /\ \A n \in 1 .. len : order[n] \in secs
      /\ \A i \in secs : \E n \in 1 .. len : order[n] = i
  BY <1>1, OrderFacts
<1>3. PICK after : Runs(k, secs, from, after)
  BY PartRuns
<1>4. /\ \A n \in 0 .. len : after[n] \in Nat
      /\ after[0] = from
      /\ \A n \in 1 .. len :
           /\ Start(n, after[n - 1]) \in Nat
           /\ after[n] = Start(n, after[n - 1]) + Size(n)
           /\ Part(k, secs, from).offsets[order[n]] = Start(n, after[n - 1])
      /\ Part(k, secs, from).end = PageUp(after[len])
  BY <1>3 DEF Runs
<1>5. \A i \in secs : At(i) = align(EndIn(k, b, Earlier(secs, i), from), Larger(1, k.sections[i].align))
  BY DEF PlacedNext
<1>6. ASSUME NEW n \in 1 .. len, EndIn(k, b, Earlier(secs, order[n]), from) = after[n - 1]
      PROVE  At(order[n]) = Start(n, after[n - 1])
  BY <1>2, <1>5, <1>6 DEF StartAt
<1>7. ASSUME NEW n \in 1 .. len
      PROVE  IF n = 1 THEN Earlier(secs, order[n]) = {}
             ELSE Earlier(secs, order[n]) # {} /\ Max(Earlier(secs, order[n])) = order[n - 1]
  BY <1>1, OrderAscends
<1> HIDE DEF order, len, At, Size, Start
<1>8. \A n \in 1 .. len : At(order[n]) = Start(n, after[n - 1])
  <2> DEFINE Bad == {n \in 1 .. len : At(order[n]) # Start(n, after[n - 1])}
  <2>1. SUFFICES ASSUME Bad # {} PROVE FALSE
    OBVIOUS
  <2>2. Bad \in SUBSET Nat
    BY <1>2
  <2>3. PICK n \in Bad : \A j \in Bad : n <= j
    <3> HIDE DEF Bad
    <3> QED BY <2>1, <2>2, LeastNat
  <2>4. n \in 1 .. len /\ At(order[n]) # Start(n, after[n - 1])
    OBVIOUS
  <2>5. CASE n = 1
    <3>1. Earlier(secs, order[n]) = {}
      BY <1>7, <2>4, <2>5
    <3>2. EndIn(k, b, Earlier(secs, order[n]), from) = after[n - 1]
      BY <1>4, <2>5, <3>1 DEF EndIn
    <3> QED BY <1>6, <2>4, <3>2
  <2>6. CASE n # 1
    <3>1. n - 1 \in 1 .. len /\ n - 1 < n
      BY <1>2, <2>4, <2>6
    <3>2. n - 1 \notin Bad
      <4> HIDE DEF Bad
      <4> QED BY <1>2, <2>3, <2>4, <3>1
    <3>3. At(order[n - 1]) = Start(n - 1, after[n - 1 - 1])
      BY <3>1, <3>2
    <3>4. Earlier(secs, order[n]) # {} /\ Max(Earlier(secs, order[n])) = order[n - 1]
      BY <1>7, <2>4, <2>6
    <3>5. EndIn(k, b, Earlier(secs, order[n]), from) = At(order[n - 1]) + Size(n - 1)
      BY <3>4 DEF EndIn, At, Size
    <3>6. after[n - 1] = Start(n - 1, after[n - 1 - 1]) + Size(n - 1)
      BY <1>4, <3>1
    <3>7. EndIn(k, b, Earlier(secs, order[n]), from) = after[n - 1]
      BY <3>3, <3>5, <3>6
    <3> QED BY <1>6, <2>4, <3>7
  <2> QED BY <2>5, <2>6
<1>9. ASSUME NEW i \in secs PROVE k.kernel[i] = b + Part(k, secs, from).offsets[i]
  <2>1. PICK n \in 1 .. len : order[n] = i
    BY <1>2
  <2>2. PICK v \in Nat : v = Part(k, secs, from).offsets[i] /\ v = At(i)
    BY <1>4, <1>8, <2>1
  <2>3. v = k.kernel[i] - b /\ k.kernel[i] \in Nat
    BY <2>2 DEF At
  <2> QED BY <2>2, <2>3
<1>10. EndIn(k, b, secs, from) = after[len]
  <2>1. CASE secs = {}
    <3>1. len = 0
      BY <1>2, <2>1
    <3> QED BY <1>4, <2>1, <3>1 DEF EndIn
  <2>2. CASE secs # {}
    <3>1. len \in 1 .. len /\ Max(secs) = order[len]
      BY <1>1, <2>2, OrderEnds DEF order, len
    <3>2. EndIn(k, b, secs, from) = At(order[len]) + Size(len)
      BY <2>2, <3>1 DEF EndIn, At, Size
    <3> QED BY <1>4, <1>8, <3>1, <3>2
  <2> QED BY <2>1, <2>2
<1> QED BY <1>4, <1>9, <1>10

\* The layout of a module is the one of the kernel's loader, from a page of the kernel on.
LEMMA LoaderLayout ==
  ASSUME NEW k, k.sections \in Seq(Sec), LoaderPlaces(k), CoreKept(k)
  PROVE  /\ DOMAIN k.kernel = Core(k) /\ DOMAIN compute_core_layout(k).offsets = Core(k)
         /\ \E b \in Nat \ {0} : b % PageSize = 0
                                 /\ \A i \in Core(k) : k.kernel[i] = b + compute_core_layout(k).offsets[i]
<1> DEFINE text == Part(k, TextSecs(k), 0)
           ro   == Part(k, RoSecs(k), text.end)
           data == Part(k, DataSecs(k), ro.end)
           Of(i) == IF i \in DataSecs(k) THEN data ELSE IF i \in RoSecs(k) THEN ro ELSE text
           all  == [i \in Core(k) |-> Of(i).offsets[i]]
<1>1. TextSecs(k) \in SUBSET DOMAIN k.sections /\ RoSecs(k) \in SUBSET DOMAIN k.sections
      /\ DataSecs(k) \in SUBSET DOMAIN k.sections /\ Core(k) = TextSecs(k) \cup RoSecs(k) \cup DataSecs(k)
  BY DEF TextSecs, RoSecs, DataSecs, Core
<1>2. LoadedCode(k) = TextSecs(k) /\ LoadedRo(k) = RoSecs(k) /\ LoadedData(k) = DataSecs(k)
  BY DEF CoreKept, LoadedCode, LoadedRo, LoadedData, TextSecs, RoSecs, DataSecs
<1>3. DOMAIN k.kernel = Core(k) /\ \A i \in Core(k) : k.kernel[i] \in Nat
  BY DEF CoreKept, LoaderPlaces
<1>4. PICK b \in Nat \ {0} :
         LET r == PageUp(EndIn(k, b, TextSecs(k), 0))
             w == PageUp(EndIn(k, b, RoSecs(k), r))
         IN  /\ b % PageSize = 0
             /\ PlacedNext(k, b, TextSecs(k), 0) /\ PlacedNext(k, b, RoSecs(k), r) /\ PlacedNext(k, b, DataSecs(k), w)
  BY <1>2, <1>3 DEF LoaderPlaces
<1>5. /\ text.end \in Nat /\ \A i \in TextSecs(k) : k.kernel[i] = b + text.offsets[i]
      /\ PageUp(EndIn(k, b, TextSecs(k), 0)) = text.end
  <2>1. \A i \in TextSecs(k) : k.kernel[i] \in Nat
    BY <1>1, <1>3
  <2>2. PlacedNext(k, b, TextSecs(k), 0) /\ 0 \in Nat /\ b \in Nat
    BY <1>4
  <2>3. text.end \in Nat
    BY <1>1, <2>2, PartFacts
  <2> QED BY ZenonT(60), <1>1, <2>1, <2>2, <2>3, LoaderPart
<1> HIDE DEF text
<1>6. PlacedNext(k, b, RoSecs(k), text.end)
  BY <1>4, <1>5
<1>7. /\ ro.end \in Nat /\ \A i \in RoSecs(k) : k.kernel[i] = b + ro.offsets[i]
      /\ PageUp(EndIn(k, b, RoSecs(k), text.end)) = ro.end
  <2>1. \A i \in RoSecs(k) : k.kernel[i] \in Nat
    BY <1>1, <1>3
  <2>2. text.end \in Nat /\ b \in Nat
    BY <1>5
  <2>3. ro.end \in Nat
    BY <1>1, <2>2, PartFacts
  <2>4. RoSecs(k) \in SUBSET DOMAIN k.sections
    BY <1>1
  <2>5. /\ \A i \in RoSecs(k) : k.kernel[i] = b + Part(k, RoSecs(k), text.end).offsets[i]
        /\ PageUp(EndIn(k, b, RoSecs(k), text.end)) = Part(k, RoSecs(k), text.end).end
    <3> HIDE DEF ro
    <3> QED BY <1>6, <2>1, <2>2, <2>4, LoaderPart
  <2> QED BY <2>3, <2>5
<1> HIDE DEF ro
<1>8. PlacedNext(k, b, DataSecs(k), ro.end)
  BY <1>4, <1>5, <1>7
<1>9. \A i \in DataSecs(k) : k.kernel[i] = b + data.offsets[i]
  <2>1. DataSecs(k) \in SUBSET DOMAIN k.sections /\ b \in Nat /\ \A i \in DataSecs(k) : k.kernel[i] \in Nat
    BY <1>1, <1>3
  <2> QED BY ZenonT(60), <1>7, <1>8, <2>1, LoaderPart
<1>10. compute_core_layout(k).offsets = all
  BY DEF compute_core_layout, text, ro
<1> HIDE DEF data
<1>11. /\ DOMAIN all = Core(k)
       /\ \A i \in Core(k) : all[i] = IF i \in DataSecs(k) THEN data.offsets[i]
                                       ELSE IF i \in RoSecs(k) THEN ro.offsets[i] ELSE text.offsets[i]
  OBVIOUS
<1> HIDE DEF all
<1>12. \A i \in Core(k) : k.kernel[i] = b + all[i]
  BY <1>1, <1>5, <1>7, <1>9, <1>11
<1> QED BY <1>4, <1>3, <1>10, <1>11, <1>12

-----------------------------------------------------------------------------
(* The graph *)

LEMMA JobFacts ==
  ASSUME job \in Jobs
  PROVE  /\ nodes \in Seq(Node) /\ Len(nodes) \in Nat /\ DOMAIN nodes = 1 .. Len(nodes)
         /\ \A i \in DOMAIN nodes : /\ nodes[i].name \in Names /\ nodes[i].address \in Nat /\ nodes[i].size \in Nat
                                    /\ nodes[i].func \in BOOLEAN
         /\ \A i \in DOMAIN nodes : krg.edges[i] \subseteq DOMAIN nodes
         /\ job.lines \in Seq(Names \cup {NoName}) /\ job.shims \subseteq Names /\ NoName \notin Names
<1>1. nodes \in Seq(Node) /\ krg.modules \in Seq(STRING) /\ krg.edges \in [DOMAIN nodes -> SUBSET DOMAIN nodes]
  BY BuildJobs DEF krg, nodes
<1>2. \A i \in DOMAIN nodes : nodes[i] \in Node
  BY <1>1
<1>3. \A i \in DOMAIN nodes : /\ nodes[i].name \in Names /\ nodes[i].address \in Nat /\ nodes[i].size \in Nat
                              /\ nodes[i].func \in BOOLEAN
  BY <1>2 DEF Node
<1>4. job.lines \in Seq(Names \cup {NoName}) /\ job.shims \subseteq Names /\ NoName \notin Names
  BY BuildJobs
<1>5. Len(nodes) \in Nat /\ DOMAIN nodes = 1 .. Len(nodes)
  BY <1>1
<1>7. \A i \in DOMAIN nodes : krg.edges[i] \subseteq DOMAIN nodes
  BY <1>1
<1> QED BY <1>1, <1>3, <1>4, <1>5, <1>7

\* A set of numbers up to n has a greatest one, which is Max.
LEMMA MaxUpto ==
  ASSUME NEW n \in Nat, NEW S \in SUBSET (0 .. n), S # {}
  PROVE  Max(S) \in S /\ \A x \in S : x <= Max(S)
<1> DEFINE D == {n - x : x \in S}
<1>1. D \in SUBSET Nat /\ D # {}
  <2>1. \A x \in S : n - x \in Nat
    OBVIOUS
  <2> QED BY <2>1
<1>2. PICK d \in D : \A e \in D : d <= e
  <2> HIDE DEF D
  <2> QED BY <1>1, LeastNat
<1>3. PICK x \in S : d = n - x
  OBVIOUS
<1>4. ASSUME NEW y \in S PROVE y <= x
  <2>1. d <= n - y
    BY <1>2
  <2> QED BY <1>3, <2>1
<1>5. \E z \in S : \A y \in S : z >= y
  <2>1. \A y \in S : x >= y
    BY <1>4
  <2> QED BY <2>1
<1>6. Max(S) \in S /\ \A y \in S : Max(S) >= y
  BY <1>5 DEF Max
<1> QED BY <1>6

\* lookup finds a node of the name if there is one.
LEMMA LookupFacts ==
  ASSUME job \in Jobs, NEW n
  PROVE  /\ lookup(n) # 0 => lookup(n) \in DOMAIN nodes /\ nodes[lookup(n)].name = n
         /\ lookup(n) = 0 => \A i \in DOMAIN nodes : nodes[i].name # n
<1> DEFINE S == {0} \cup {i \in DOMAIN nodes : nodes[i].name = n}
<1>1. S \in SUBSET (0 .. Len(nodes)) /\ S # {} /\ Len(nodes) \in Nat
  BY JobFacts
<1>2. Max(S) \in S /\ \A x \in S : x <= Max(S)
  <2> HIDE DEF S
  <2> QED BY <1>1, MaxUpto
<1>3. lookup(n) = Max(S)
  BY DEF lookup
<1>4. \A i \in DOMAIN nodes : i > 0
  BY JobFacts
<1> QED BY <1>2, <1>3, <1>4, JobFacts

\* With one node of each name it finds that one.
LEMMA LookupOne ==
  ASSUME job \in Jobs, NodesNamed, NEW i \in DOMAIN nodes
  PROVE  lookup(nodes[i].name) = i
<1>1. lookup(nodes[i].name) \in DOMAIN nodes /\ nodes[lookup(nodes[i].name)].name = nodes[i].name
  BY LookupFacts
<1>2. \A a, b \in DOMAIN nodes : a # b => nodes[a].name # nodes[b].name
  BY DEF NodesNamed, nodes, krg
<1> QED BY <1>1, <1>2

\* The closure has the root and is closed under the edges of nodes it goes through.
LEMMA ClosureFacts ==
  ASSUME job \in Jobs, NEW root \in DOMAIN nodes, NEW stop
  PROVE  /\ root \in closure(root, stop) /\ closure(root, stop) \subseteq DOMAIN nodes
         /\ \A i \in closure(root, stop) :
              nodes[i].name \notin stop => krg.edges[i] \subseteq closure(root, stop)
<1> DEFINE Closed(S) == root \in S /\ \A j \in S : nodes[j].name \notin stop => krg.edges[j] \subseteq S
<1>1. closure(root, stop) = {i \in DOMAIN nodes : \A S \in SUBSET DOMAIN nodes : Closed(S) => i \in S}
  BY DEF closure
<1>2. \A i \in DOMAIN nodes : krg.edges[i] \subseteq DOMAIN nodes
  BY JobFacts
<1>3. root \in closure(root, stop) /\ closure(root, stop) \subseteq DOMAIN nodes
  BY <1>1
<1>4. ASSUME NEW i \in closure(root, stop), nodes[i].name \notin stop, NEW m \in krg.edges[i]
      PROVE  m \in closure(root, stop)
  <2>1. m \in DOMAIN nodes
    BY <1>2, <1>3
  <2>2. ASSUME NEW S \in SUBSET DOMAIN nodes, Closed(S) PROVE m \in S
    <3>1. i \in S
      BY <1>1, <2>2
    <3> QED BY <1>4, <2>2, <3>1
  <2> HIDE DEF Closed
  <2> QED BY <1>1, <2>1, <2>2
<1> QED BY <1>3, <1>4

-----------------------------------------------------------------------------
(* Resolved symbols *)

Modules == {Shim, Thunk, "kernel"} \cup UNION {ToSet(j.krg.modules) : j \in Jobs}
Reuses  == {NoReg, "text", "rodata", "data"}

Resolved == [name : Names, module : Modules, defined : BOOLEAN, exported : BOOLEAN, func : BOOLEAN, address : Nat,
             size : Nat, reuse : Reuses, export_order : Nat, original_order : Nat]

LEMMA OrderIs ==
  ASSUME requested \in Seq(Names), NEW n, NEW k \in Nat
  PROVE  OrderOf(n, k) \in Nat
<1>1. CASE Contains(requested, n)
  <2>1. PICK i \in DOMAIN requested : requested[i] = n
    BY <1>1 DEF Contains
  <2>2. (CHOOSE r \in DOMAIN requested : requested[r] = n) \in DOMAIN requested
    BY <2>1
  <2>3. DOMAIN requested = 1 .. Len(requested)
    OBVIOUS
  <2> QED BY <1>1, <2>2, <2>3 DEF OrderOf
<1>2. CASE ~Contains(requested, n)
  BY <1>2 DEF OrderOf
<1> QED BY <1>1, <1>2

LEMMA FromNodeIs ==
  ASSUME job \in Jobs, requested \in Seq(Names), NEW i \in DOMAIN nodes, NEW k \in Nat, NEW s, s = FromNode(i, k)
  PROVE  /\ s \in Resolved /\ s.name = nodes[i].name /\ s.address = nodes[i].address
         /\ s.exported = Contains(requested, nodes[i].name)
         /\ s.defined = (module_for_entry(i) # Shim)
<1>1. module_for_entry(i) \in Modules
  <2>1. Shim \in Modules /\ "kernel" \in Modules
    BY DEF Modules
  <2>2. ModuleName(i) \in Modules
    <3>1. CASE nodes[i].module \in DOMAIN krg.modules
      <4>1. krg.modules[nodes[i].module] \in ToSet(krg.modules)
        BY <3>1 DEF ToSet
      <4>2. ToSet(job.krg.modules) \in {ToSet(j.krg.modules) : j \in Jobs}
        OBVIOUS
      <4>3. krg.modules[nodes[i].module] \in Modules
        BY <4>1, <4>2 DEF Modules, krg
      <4> QED BY <3>1, <4>3 DEF ModuleName
    <3>2. CASE nodes[i].module \notin DOMAIN krg.modules
      BY <2>1, <3>2 DEF ModuleName
    <3> QED BY <3>1, <3>2
  <2> QED BY <2>1, <2>2 DEF module_for_entry
<1>2. /\ nodes[i].name \in Names /\ nodes[i].address \in Nat /\ nodes[i].size \in Nat /\ nodes[i].func \in BOOLEAN
      /\ Contains(requested, nodes[i].name) \in BOOLEAN
  BY JobFacts DEF Contains
<1>3. s = ResolvedSymbol(nodes[i].name, module_for_entry(i), nodes[i].func, nodes[i].address, nodes[i].size,
                         k, Contains(requested, nodes[i].name))
  BY DEF FromNode
<1> DEFINE n == nodes[i].name  m == module_for_entry(i)  fn == nodes[i].func  ad == nodes[i].address
           sz == nodes[i].size  ex == Contains(requested, nodes[i].name)
<1>4. /\ n \in Names /\ m \in Modules /\ fn \in BOOLEAN /\ ad \in Nat /\ sz \in Nat /\ ex \in BOOLEAN
      /\ s = ResolvedSymbol(n, m, fn, ad, sz, k, ex)
  BY <1>1, <1>2, <1>3
<1> DEFINE o == OrderOf(n, k)
<1>5. o \in Nat /\ NoReg \in Reuses
  BY OrderIs DEF Reuses
<1>6. s = [name |-> n, module |-> m, defined |-> m # Shim, exported |-> ex, func |-> fn, address |-> ad,
           size |-> sz, reuse |-> NoReg, export_order |-> IF ex THEN o ELSE k, original_order |-> k]
  BY <1>4 DEF ResolvedSymbol
<1> HIDE DEF n, m, fn, ad, sz, ex, o
<1>7. s \in Resolved /\ s.name = n /\ s.address = ad /\ s.exported = ex /\ s.defined = (m # Shim)
  BY <1>4, <1>5, <1>6 DEF Resolved
<1> QED BY <1>7 DEF n, m, ex, ad

\* Sequences put behind one another.
LEMMA JoinFacts ==
  ASSUME NEW S, NEW p \in Seq(S), NEW q \in Seq(S)
  PROVE  /\ p \o q \in Seq(S) /\ Len(p \o q) = Len(p) + Len(q) /\ DOMAIN (p \o q) = 1 .. (Len(p) + Len(q))
         /\ Len(p) \in Nat /\ Len(q) \in Nat /\ DOMAIN p = 1 .. Len(p) /\ DOMAIN q = 1 .. Len(q)
         /\ \A i \in DOMAIN p : i \in DOMAIN (p \o q) /\ (p \o q)[i] = p[i]
         /\ \A i \in DOMAIN q : Len(p) + i \in DOMAIN (p \o q) /\ (p \o q)[Len(p) + i] = q[i]
         /\ \A i \in DOMAIN (p \o q) : i \in DOMAIN p \/ (i - Len(p) \in DOMAIN q /\ (p \o q)[i] = q[i - Len(p)])
  OBVIOUS

\* What the closure of a root adds: its nodes whose names are new.
LEMMA WithClosureFacts ==
  ASSUME job \in Jobs, NodesNamed, requested \in Seq(Names), resolved \in Seq(Resolved), NEW root \in DOMAIN nodes
  PROVE  /\ WithClosure(root) \in Seq(Resolved)
         /\ \A i \in DOMAIN resolved : i \in DOMAIN WithClosure(root) /\ WithClosure(root)[i] = resolved[i]
         /\ \A i \in DOMAIN WithClosure(root) :
              \/ i \in DOMAIN resolved
              \/ \E m \in closure(root, shim_symbols) : \E k \in Nat : WithClosure(root)[i] = FromNode(m, k)
         /\ \A m \in closure(root, shim_symbols) :
              \E i \in DOMAIN WithClosure(root) : WithClosure(root)[i].name = nodes[m].name
<1> DEFINE all == closure(root, shim_symbols)
           N == {i \in all : /\ nodes[i].name \notin ResolvedNames
                             /\ \A j \in all : j < i => nodes[j].name # nodes[i].name}
           new == InOrder(N)
           added == [k \in DOMAIN new |-> FromNode(new[k], Len(resolved) + k - 1)]
<1>1. all \subseteq DOMAIN nodes
  BY ClosureFacts
<1>2. PICK w : w = WithClosure(root)
  OBVIOUS
<1>3. N \in SUBSET (1 .. Len(nodes)) /\ Len(nodes) \in Nat
  BY <1>1, JobFacts
<1>4. /\ Cardinality(N) \in Nat /\ DOMAIN new = 1 .. Cardinality(N)
      /\ \A k \in DOMAIN new : new[k] \in N
      /\ \A i \in N : \E k \in DOMAIN new : new[k] = i
  <2> HIDE DEF N
  <2> QED BY <1>3, OrderFacts
<1>5. Len(resolved) \in Nat
  OBVIOUS
<1> HIDE DEF new
<1>6. ASSUME NEW k \in DOMAIN new
      PROVE  /\ added[k] = FromNode(new[k], Len(resolved) + k - 1) /\ Len(resolved) + k - 1 \in Nat
             /\ added[k] \in Resolved /\ added[k].name = nodes[new[k]].name
  <2>1. Len(resolved) + k - 1 \in Nat /\ new[k] \in DOMAIN nodes
    BY <1>1, <1>4, <1>5
  <2> QED BY <2>1, FromNodeIs
<1>7. added \in Seq(Resolved) /\ DOMAIN added = DOMAIN new
  <2>1. added \in [1 .. Cardinality(N) -> Resolved] /\ DOMAIN added = DOMAIN new
    BY <1>4, <1>6
  <2> HIDE DEF added, N
  <2> QED BY <1>4, <2>1
<1>8. /\ w \in Seq(Resolved)
      /\ \A i \in DOMAIN resolved : i \in DOMAIN w /\ w[i] = resolved[i]
      /\ \A i \in DOMAIN added : Len(resolved) + i \in DOMAIN w /\ w[Len(resolved) + i] = added[i]
      /\ \A i \in DOMAIN w :
           i \in DOMAIN resolved \/ (i - Len(resolved) \in DOMAIN added /\ w[i] = added[i - Len(resolved)])
  <2>1. w = resolved \o added
    BY <1>2 DEF WithClosure, NewNodes, new
  <2> HIDE DEF added
  <2> QED BY SMTT(60), <1>7, <2>1, JoinFacts
<1>9. ASSUME NEW i \in DOMAIN w, i \notin DOMAIN resolved
      PROVE  \E m \in all : \E k \in Nat : w[i] = FromNode(m, k)
  <2>1. PICK k \in DOMAIN new : w[i] = added[k]
    <3> HIDE DEF added
    <3> QED BY <1>7, <1>8, <1>9
  <2>2. new[k] \in all
    BY <1>4
  <2> HIDE DEF added, all
  <2> QED BY <1>6, <2>1, <2>2
<1>10. ASSUME NEW m \in all PROVE \E i \in DOMAIN w : w[i].name = nodes[m].name
  <2>1. CASE nodes[m].name \in ResolvedNames
    <3>1. PICK i \in DOMAIN resolved : resolved[i].name = nodes[m].name
      BY <2>1 DEF ResolvedNames
    <3> HIDE DEF added
    <3> QED BY <1>8, <3>1
  <2>2. CASE nodes[m].name \notin ResolvedNames
    <3>1. \A a, b \in DOMAIN nodes : a # b => nodes[a].name # nodes[b].name
      BY DEF NodesNamed, nodes, krg
    <3>2. \A j \in all : j < m => nodes[j].name # nodes[m].name
      <4>1. \A a \in DOMAIN nodes : ~(a < a)
        BY JobFacts
      <4> QED BY <1>1, <3>1, <4>1
    <3>3. m \in N
      BY <2>2, <3>2
    <3>4. PICK k \in DOMAIN new : new[k] = m
      BY <1>4, <3>3
    <3>5. added[k].name = nodes[m].name /\ k \in DOMAIN added
      <4> HIDE DEF added
      <4> QED BY <1>6, <1>7, <3>4
    <3> HIDE DEF added
    <3> QED BY <1>8, <3>5
  <2> QED BY <2>1, <2>2
<1> HIDE DEF added, all
<1> QED BY <1>2, <1>8, <1>9, <1>10 DEF all

-----------------------------------------------------------------------------
(* The inputs *)

\* A .ko and the layout of its core.
LEMMA KoFacts ==
  ASSUME job \in Jobs, job.ko.given
  PROVE  /\ ko.sections \in Seq(Sec) /\ ko.symbols \in Seq(KoSym) /\ ko.relas \in Seq(Rela)
         /\ \A r \in DOMAIN ko.relas : ko.relas[r] \in Rela /\ ko.relas[r].sym \in DOMAIN ko.symbols
         /\ \A i \in DOMAIN ko.symbols :
              /\ ko.symbols[i].name \in Names \cup {NoName} /\ ko.symbols[i].shndx \in Nat /\ ko.symbols[i].value \in Nat
              /\ ko.symbols[i].shndx # Undef => ko.symbols[i].shndx \in DOMAIN ko.sections
         /\ DOMAIN ko.symbols = 1 .. Len(ko.symbols) /\ Len(ko.symbols) \in Nat
         /\ DOMAIN ko.relas = 1 .. Len(ko.relas) /\ Len(ko.relas) \in Nat
         /\ \A i \in DOMAIN ko.sections : ko.sections[i].exec \in BOOLEAN
<1>1. KoTyped(ko)
  BY BuildJobs DEF ko
<1>2. /\ ko.sections \in Seq(Sec) /\ ko.symbols \in Seq(KoSym) /\ ko.relas \in Seq(Rela)
      /\ \A r \in DOMAIN ko.relas : ko.relas[r].sym \in DOMAIN ko.symbols
      /\ \A i \in DOMAIN ko.symbols : ko.symbols[i].shndx # Undef => ko.symbols[i].shndx \in DOMAIN ko.sections
  BY <1>1 DEF KoTyped
<1>3. \A i \in DOMAIN ko.symbols : ko.symbols[i] \in KoSym
  BY <1>2
<1>4. \A i \in DOMAIN ko.symbols :
        /\ ko.symbols[i].name \in Names \cup {NoName} /\ ko.symbols[i].shndx \in Nat /\ ko.symbols[i].value \in Nat
  BY <1>3 DEF KoSym
<1>5. \A i \in DOMAIN ko.sections : ko.sections[i] \in Sec
  BY <1>2
<1>6. \A i \in DOMAIN ko.sections : ko.sections[i].exec \in BOOLEAN
  BY <1>5 DEF Sec
<1> QED BY <1>2, <1>4, <1>6

\* The layout of the module's core.
LEMMA CoreFacts ==
  ASSUME job \in Jobs, job.ko.given
  PROVE  /\ layout.ro_start \in Nat /\ layout.ro_end \in Nat /\ layout.data_start \in Nat /\ layout.data_end \in Nat
         /\ layout.data_start <= layout.data_end /\ layout.data_end - layout.data_start \in Nat
         /\ \A i \in DOMAIN layout.offsets : layout.offsets[i] \in Nat
         /\ DOMAIN layout.offsets \subseteq DOMAIN ko.sections
         /\ \A i \in DataSecs(ko) : layout.offsets[i] - layout.data_start \in Nat
<1> PICK k : k = ko
  OBVIOUS
<1>1. layout = compute_core_layout(k) /\ k.sections \in Seq(Sec)
  BY KoFacts DEF layout
<1> PICK l : l = compute_core_layout(k)
  OBVIOUS
<1>2. /\ l.ro_start \in Nat /\ l.ro_end \in Nat /\ l.data_start \in Nat /\ l.data_end \in Nat
      /\ l.data_start <= l.data_end
      /\ DOMAIN l.offsets \subseteq DOMAIN k.sections /\ DataSecs(k) \subseteq DOMAIN l.offsets
      /\ \A i \in DOMAIN l.offsets : l.offsets[i] \in Nat
      /\ \A i \in DataSecs(k) : l.data_start <= l.offsets[i]
  BY <1>1, LayoutFacts
<1>3. \A a, b \in Nat : a <= b => b - a \in Nat
  OBVIOUS
<1>4. l.data_end - l.data_start \in Nat /\ \A i \in DataSecs(k) : l.offsets[i] - l.data_start \in Nat
  BY <1>2, <1>3
<1> QED BY <1>1, <1>2, <1>4

\* The relocations of writable sections, their targets and the names of these.
LEMMA DataRelocFacts ==
  ASSUME job \in Jobs, job.ko.given, OwnNames
  PROVE  /\ DataRelocs \in Seq(Rela) /\ DOMAIN DataRelocs = 1 .. Len(DataRelocs) /\ Len(DataRelocs) \in Nat
         /\ \A r \in DOMAIN DataRelocs :
              /\ DataRelocs[r].offset \in Nat /\ DataRelocs[r].addend \in Int
              /\ DataRelocs[r].abs64 \in BOOLEAN /\ DataRelocs[r].sym \in DOMAIN ko.symbols
              /\ TargetName(DataRelocs[r]) \in Names
              /\ ~IsUndef(DataRelocs[r]) => TargetName(DataRelocs[r]) \notin job.shims
<1> DEFINE S == {r \in DOMAIN ko.relas : Read(ko.relas[r])}
           kept == InOrder(S)
           Moved(r) == [ko.relas[r] EXCEPT !.offset = layout.offsets[ko.relas[r].info] - layout.data_start + @]
<1>1. PICK d : d = DataRelocs
  OBVIOUS
<1>2. /\ Cardinality(S) \in Nat /\ DOMAIN kept = 1 .. Cardinality(S)
      /\ \A k \in DOMAIN kept : kept[k] \in S
  <2>1. S \in SUBSET (1 .. Len(ko.relas)) /\ Len(ko.relas) \in Nat
    BY KoFacts
  <2> HIDE DEF S
  <2> QED BY <2>1, OrderFacts
<1>3. d = [k \in DOMAIN kept |-> Moved(kept[k])]
  BY <1>1 DEF DataRelocs
<1>4. ASSUME NEW r \in S
      PROVE  Moved(r) \in Rela /\ Moved(r).sym = ko.relas[r].sym
  <2>1. ko.relas[r] \in Rela /\ layout.offsets[ko.relas[r].info] - layout.data_start \in Nat
    BY KoFacts, CoreFacts DEF Read
  <2>2. \A e \in Rela : \A n \in Nat : /\ [e EXCEPT !.offset = n + @] \in Rela
                                       /\ [e EXCEPT !.offset = n + @].sym = e.sym
    BY DEF Rela
  <2> HIDE DEF S
  <2> QED BY <2>1, <2>2
<1> HIDE DEF kept, Moved
<1>5. \A k \in 1 .. Cardinality(S) : d[k] \in Rela /\ \E r \in DOMAIN ko.relas : d[k].sym = ko.relas[r].sym
  BY <1>2, <1>3, <1>4
<1>6. d \in Seq(Rela) /\ DOMAIN d = 1 .. Len(d) /\ Len(d) \in Nat
  <2>1. d \in [1 .. Cardinality(S) -> Rela]
    BY <1>2, <1>3, <1>5
  <2> HIDE DEF S
  <2> QED BY <1>2, <2>1
<1>7. ASSUME NEW r \in DOMAIN d
      PROVE  /\ d[r].offset \in Nat /\ d[r].addend \in Int /\ d[r].abs64 \in BOOLEAN /\ d[r].sym \in DOMAIN ko.symbols
             /\ TargetName(d[r]) \in Names
             /\ ~IsUndef(d[r]) => TargetName(d[r]) \notin job.shims
  <2>1. r \in 1 .. Cardinality(S)
    BY <1>2, <1>3
  <2>2. d[r] \in Rela /\ d[r].sym \in DOMAIN ko.symbols
    BY <1>5, <2>1, KoFacts
  <2>3. d[r].offset \in Nat /\ d[r].addend \in Int /\ d[r].abs64 \in BOOLEAN
    BY <2>2 DEF Rela
  <2> PICK t : t = ko.symbols[d[r].sym]
    OBVIOUS
  <2>4. /\ t.name \in Names \cup {NoName}
        /\ t.name = NoName =>
             SlotName(IF t.shndx = Undef THEN ".internal" ELSE ko.sections[t.shndx].name, t.value) \in Names
    <3>1. KoTyped(ko)
      BY BuildJobs DEF ko
    <3>2. t.name = NoName =>
             SlotName(IF t.shndx = Undef THEN ".internal" ELSE ko.sections[t.shndx].name, t.value) \in Names
      BY <2>2, <3>1 DEF KoTyped
    <3> QED BY <2>2, <3>2, KoFacts
  <2>5. TargetName(d[r]) \in Names
    BY <2>4 DEF TargetName, Target, IsUndef
  <2>6. ASSUME ~IsUndef(d[r]) PROVE TargetName(d[r]) \notin job.shims
    <3>1. t.shndx # Undef
      BY <2>6 DEF IsUndef, Target
    <3>2. (IF t.name # NoName THEN t.name ELSE SlotName(ko.sections[t.shndx].name, t.value)) \notin job.shims
      BY <2>2, <3>1 DEF OwnNames, ko
    <3> QED BY <3>1, <3>2 DEF TargetName, Target, IsUndef
  <2> QED BY <2>2, <2>3, <2>5, <2>6
<1> QED BY <1>1, <1>6, <1>7

\* The requests are the names of the lines.
LEMMA RequestFacts ==
  ASSUME job \in Jobs
  PROVE  parse_symbol_requests(job.lines) \in Seq(Names)
<1> DEFINE ls == job.lines
           S == {k \in DOMAIN ls : ls[k] # NoName /\ \A j \in 1 .. k - 1 : ls[j] # ls[k]}
           kept == InOrder(S)
<1>1. ls \in Seq(Names \cup {NoName})
  BY JobFacts
<1> HIDE DEF ls
<1>2. DOMAIN ls = 1 .. Len(ls) /\ Len(ls) \in Nat /\ \A k \in DOMAIN ls : ls[k] \in Names \cup {NoName}
  BY <1>1
<1>3. /\ Cardinality(S) \in Nat /\ DOMAIN kept = 1 .. Cardinality(S)
      /\ \A k \in DOMAIN kept : kept[k] \in S
  <2>1. S \in SUBSET (1 .. Len(ls)) /\ Len(ls) \in Nat
    BY <1>2
  <2> HIDE DEF S
  <2> QED BY <2>1, OrderFacts
<1>4. parse_symbol_requests(ls) = [r \in DOMAIN kept |-> ls[kept[r]]]
  BY DEF parse_symbol_requests
<1>5. \A r \in DOMAIN kept : ls[kept[r]] \in Names
  BY <1>2, <1>3
<1> HIDE DEF S, kept
<1>6. [r \in DOMAIN kept |-> ls[kept[r]]] \in [1 .. Cardinality(S) -> Names]
  BY <1>3, <1>5
<1>7. [r \in DOMAIN kept |-> ls[kept[r]]] \in Seq(Names)
  BY <1>3, <1>6
<1> QED BY <1>4, <1>7 DEF ls

\* The core of the module starts somewhere in the kernel.
LEMMA BaseFacts ==
  ASSUME job \in Jobs, job.ko.given, AboveCore, requested \in Seq(Names), Anchors # {}, NEW n,
         n = requested[Min(Anchors)]
  PROVE  nodes[lookup(n)].address - (layout.offsets[ko.symbols[KoSymbol(n)].shndx] + ko.symbols[KoSymbol(n)].value) \in Nat
<1>1. Min(Anchors) \in Anchors
  <2>1. Anchors \in SUBSET Nat
    BY SMTT(60) DEF Anchors
  <2> QED BY <2>1, MinNat
<1>2. /\ \E i \in DOMAIN ko.symbols : ko.symbols[i].name = n
      /\ ko.symbols[KoSymbol(n)].shndx \in DOMAIN layout.offsets
      /\ lookup(n) # 0
  BY <1>1 DEF Anchors
<1> DEFINE Same == {i \in DOMAIN ko.symbols : ko.symbols[i].name = n}
<1>3. KoSymbol(n) \in Same
  <2>1. Same \in SUBSET Nat /\ Same # {}
    BY <1>2, KoFacts
  <2>2. Min(Same) \in Same
    <3> HIDE DEF Same
    <3> QED BY <2>1, MinNat
  <2> QED BY <2>2 DEF KoSymbol
<1>4. lookup(n) \in DOMAIN nodes /\ nodes[lookup(n)].name = n
  BY <1>2, LookupFacts
<1> PICK i : i = KoSymbol(n)
  OBVIOUS
<1> PICK m : m = lookup(n)
  OBVIOUS
<1>5. layout.offsets[ko.symbols[i].shndx] + ko.symbols[i].value <= nodes[m].address
  BY <1>2, <1>3, <1>4 DEF AboveCore, layout, ko, nodes, krg
<1>6. layout.offsets[ko.symbols[i].shndx] \in Nat /\ ko.symbols[i].value \in Nat /\ nodes[m].address \in Nat
  BY <1>2, <1>3, <1>4, KoFacts, CoreFacts, JobFacts
<1>7. \A a, b, c \in Nat : a + b <= c => c - (a + b) \in Nat
  OBVIOUS
<1> QED BY <1>5, <1>6, <1>7

-----------------------------------------------------------------------------
(* The inductive invariant *)

\* The types of what the builder will be called with.
Typed ==
  /\ job \in Jobs /\ requested \in Seq(Names) /\ shim_symbols \in SUBSET job.shims
  /\ ToSet(requested) \cap shim_symbols = {}
  /\ owner_module \in Modules \ {Shim}
  /\ resolved \in Seq(Resolved) /\ needs_shim \in BOOLEAN /\ base \in Nat
  /\ slots \in Seq(DataRelocation) /\ pages \in SUBSET Nat
  /\ phase \in {"load", "lists", "owner"} => resolved = << >>
  /\ phase \in {"ko", "extend", "slots"} => job.ko.given
  /\ phase = "resolve" => todo \in Seq(Names)
  /\ phase = "extend" => todo \in Seq(ToSet(DataRelocs))

\* Every request is missing, yet to be looked at, or an export.
Asked ==
  phase \notin {"load", "lists", "owner", "raised"} =>
    \A n \in ToSet(requested) :
      \/ n \in missing
      \/ phase = "resolve" /\ \E k \in DOMAIN todo : todo[k] = n
      \/ \E i \in DOMAIN resolved : resolved[i].name = n /\ resolved[i].exported

\* A request that the graph knows is there with all that it reaches.
ReachIn(n) ==
  /\ lookup(n) \in DOMAIN nodes
  /\ \A m \in closure(lookup(n), shim_symbols) : nodes[m].name \in ResolvedNames
Complete ==
  phase \notin {"load", "lists", "owner", "raised"} =>
    \A n \in ToSet(requested) :
      n \in missing \/ (phase = "resolve" /\ \E k \in DOMAIN todo : todo[k] = n) \/ ReachIn(n)

\* As long as all symbols come from the graph, requests are exports.
Exported == phase = "resolve" => \A i \in DOMAIN resolved : resolved[i].name \in ToSet(requested) => resolved[i].exported

\* A symbol is an import exactly if the shim provides its name.
Judged == \A i \in DOMAIN resolved : resolved[i].defined <=> resolved[i].name \notin shim_symbols

\* What a symbol from the graph refers to is there too.
CalleesThere ==
  \A i \in DOMAIN resolved :
    resolved[i].defined /\ resolved[i].name \notin SlotNames =>
      /\ lookup(resolved[i].name) \in DOMAIN nodes
      /\ \A m \in krg.edges[lookup(resolved[i].name)] : nodes[m].name \in ResolvedNames

\* The target of every slot is yet to be looked at or there.
Targets ==
  phase \in {"extend", "slots"} =>
    \A r \in DOMAIN DataRelocs :
      \/ ~DataRelocs[r].abs64
      \/ phase = "extend" /\ \E k \in DOMAIN todo : todo[k] = DataRelocs[r]
      \/ TargetName(DataRelocs[r]) \in ResolvedNames

\* The builder runs on what the steps before it have made.
HandedOver ==
  /\ phase = "built" <=> pc # "idle"
  /\ phase = "built" => args = Handed

FInv == Typed /\ Asked /\ Complete /\ Exported /\ Judged /\ CalleesThere /\ Targets

-----------------------------------------------------------------------------
(* How the list of resolved symbols grows *)

\* A symbol keeps what the graph and the shim say of it.
Kept(s, t) == t.name = s.name /\ t.defined = s.defined /\ t.exported = s.exported /\ t.address = s.address

\* A symbol from the closure of a node that has been added.
FromClosure(s) ==
  \E root \in DOMAIN nodes :
    /\ \E m \in closure(root, shim_symbols) : \E k \in Nat : s = FromNode(m, k)
    /\ \A m \in closure(root, shim_symbols) : \E i \in DOMAIN resolved' : resolved'[i].name = nodes[m].name

\* Where the module's symbols start from the base that LoadKo has found.
SlotAddress(e) ==
  base + (IF Target(e).shndx \in DOMAIN layout.offsets THEN layout.offsets[Target(e).shndx] ELSE 0) + Target(e).value

\* A symbol that is there for a slot.
ForSlot(s) ==
  /\ phase = "extend"
  /\ \E e \in ToSet(DataRelocs) :
       /\ s.name = TargetName(e)
       /\ \/ IsUndef(e) /\ s.name \in shim_symbols /\ ~s.defined
          \/ ~IsUndef(e) /\ s.defined /\ s.address = SlotAddress(e)

Grown ==
  /\ resolved' \in Seq(Resolved)
  /\ \A i \in DOMAIN resolved : i \in DOMAIN resolved' /\ Kept(resolved[i], resolved'[i])
  /\ \A i \in DOMAIN resolved' : i \in DOMAIN resolved \/ FromClosure(resolved'[i]) \/ ForSlot(resolved'[i])

\* Sequences that change in place.
LEMMA MapFacts ==
  ASSUME NEW S, NEW q \in Seq(S), NEW f \in [DOMAIN q -> S]
  PROVE  f \in Seq(S) /\ DOMAIN f = DOMAIN q
<1>1. DOMAIN q = 1 .. Len(q) /\ Len(q) \in Nat
  OBVIOUS
<1>2. f \in [1 .. Len(q) -> S]
  BY <1>1
<1> QED BY <1>1, <1>2

LEMMA SameGrown ==
  ASSUME resolved \in Seq(Resolved), resolved' = resolved
  PROVE  Grown
  BY DEF Grown, Kept

LEMMA ClosureGrown ==
  ASSUME job \in Jobs, NodesNamed, requested \in Seq(Names), resolved \in Seq(Resolved),
         NEW root \in DOMAIN nodes, resolved' = WithClosure(root)
  PROVE  Grown /\ nodes[root].name \in {resolved'[i].name : i \in DOMAIN resolved'}
<1> PICK w : w = WithClosure(root)
  OBVIOUS
<1> DEFINE all == closure(root, shim_symbols)
<1>1. /\ w \in Seq(Resolved)
      /\ \A i \in DOMAIN resolved : i \in DOMAIN w /\ w[i] = resolved[i]
      /\ \A i \in DOMAIN w : i \in DOMAIN resolved \/ \E m \in all : \E k \in Nat : w[i] = FromNode(m, k)
      /\ \A m \in all : \E i \in DOMAIN w : w[i].name = nodes[m].name
  BY WithClosureFacts
<1>2. resolved' = w
  OBVIOUS
<1>3. \A i \in DOMAIN resolved : i \in DOMAIN resolved' /\ Kept(resolved[i], resolved'[i])
  BY <1>1, <1>2 DEF Kept
<1>4. \A m \in all : \E i \in DOMAIN resolved' : resolved'[i].name = nodes[m].name
  BY <1>1, <1>2
<1>5. ASSUME NEW i \in DOMAIN resolved', i \notin DOMAIN resolved PROVE FromClosure(resolved'[i])
  <2>1. \E m \in all : \E k \in Nat : resolved'[i] = FromNode(m, k)
    BY <1>1, <1>2, <1>5
  <2> QED BY <1>4, <2>1 DEF FromClosure
<1>6. nodes[root].name \in {resolved'[i].name : i \in DOMAIN resolved'}
  <2>1. root \in all
    BY ClosureFacts
  <2>2. PICK i \in DOMAIN resolved' : resolved'[i].name = nodes[root].name
    BY <1>4, <2>1
  <2> QED BY <2>2
<1> QED BY <1>1, <1>2, <1>3, <1>5, <1>6 DEF Grown

LEMMA AppendGrown ==
  ASSUME resolved \in Seq(Resolved), NEW s \in Resolved, ForSlot(s), resolved' = Append(resolved, s)
  PROVE  Grown /\ s.name \in {resolved'[i].name : i \in DOMAIN resolved'}
<1>1. /\ Append(resolved, s) \in Seq(Resolved) /\ DOMAIN Append(resolved, s) = 1 .. (Len(resolved) + 1)
      /\ Append(resolved, s)[Len(resolved) + 1] = s
      /\ \A n \in DOMAIN resolved : Append(resolved, s)[n] = resolved[n]
      /\ DOMAIN resolved = 1 .. Len(resolved) /\ Len(resolved) \in Nat
  BY AppendFacts
<1>2. \A i \in DOMAIN resolved : i \in DOMAIN resolved' /\ Kept(resolved[i], resolved'[i])
  BY <1>1 DEF Kept
<1>3. \A i \in DOMAIN resolved' : i \in DOMAIN resolved \/ resolved'[i] = s
  BY <1>1
<1>4. s.name \in {resolved'[i].name : i \in DOMAIN resolved'}
  <2>1. Len(resolved) + 1 \in DOMAIN resolved' /\ resolved'[Len(resolved) + 1] = s
    BY <1>1
  <2> QED BY <2>1
<1> QED BY <1>1, <1>2, <1>3, <1>4 DEF Grown

LEMMA RelabelGrown ==
  ASSUME resolved \in Seq(Resolved), NEW f \in [DOMAIN resolved -> Resolved], resolved' = f,
         \A i \in DOMAIN resolved : Kept(resolved[i], f[i])
  PROVE  Grown
  BY MapFacts DEF Grown

\* The element of the list that a turn of the loop looks at.
LEMMA HeadFacts ==
  ASSUME NEW S, NEW q \in Seq(S), q # << >>
  PROVE  /\ Head(q) \in S /\ Tail(q) \in Seq(S)
         /\ \A k \in DOMAIN q : q[k] = Head(q) \/ \E j \in DOMAIN Tail(q) : Tail(q)[j] = q[k]
<1>1. Len(q) \in Nat /\ Len(q) > 0 /\ DOMAIN q = 1 .. Len(q)
  BY SeqFacts
<1>2. /\ Head(q) = q[1] /\ Tail(q) \in Seq(S) /\ Len(Tail(q)) = Len(q) - 1 /\ DOMAIN Tail(q) = 1 .. (Len(q) - 1)
      /\ \A k \in 1 .. (Len(q) - 1) : Tail(q)[k] = q[k + 1]
  BY <1>1
<1>3. Head(q) \in S
  BY <1>1, <1>2
<1>4. ASSUME NEW k \in DOMAIN q, k # 1 PROVE k - 1 \in DOMAIN Tail(q) /\ Tail(q)[k - 1] = q[k]
  <2>1. k - 1 \in 1 .. (Len(q) - 1) /\ (k - 1) + 1 = k
    BY <1>1, <1>4
  <2> QED BY <1>2, <2>1
<1> QED BY <1>2, <1>3, <1>4

\* An import, and a symbol of the module itself.
LEMMA ImportedIs ==
  ASSUME Typed, NEW n \in Names
  PROVE  Imported(n) \in Resolved /\ Imported(n).name = n /\ ~Imported(n).defined
<1>1. Shim \in Modules /\ Len(resolved) \in Nat /\ requested \in Seq(Names)
  BY DEF Typed, Modules
<1> PICK s : s = Imported(n)
  OBVIOUS
<1>2. s = [name |-> n, module |-> Shim, defined |-> FALSE, exported |-> FALSE, func |-> TRUE, address |-> 0,
           size |-> 0, reuse |-> NoReg, export_order |-> Len(resolved), original_order |-> Len(resolved)]
  BY DEF Imported, ResolvedSymbol
<1>3. NoReg \in Reuses
  BY DEF Reuses
<1> QED BY <1>1, <1>2, <1>3 DEF Resolved

LEMMA InternalIs ==
  ASSUME Typed, OwnNames, job.ko.given, NEW e \in ToSet(DataRelocs), ~IsUndef(e)
  PROVE  /\ Internal(e) \in Resolved /\ Internal(e).name = TargetName(e) /\ Internal(e).defined
         /\ Internal(e).address = SlotAddress(e)
<1>1. /\ owner_module \in Modules /\ owner_module # Shim /\ Len(resolved) \in Nat /\ requested \in Seq(Names)
      /\ base \in Nat /\ job \in Jobs
  BY DEF Typed
<1>2. PICK r \in DOMAIN DataRelocs : e = DataRelocs[r]
  BY DEF ToSet
<1>3. e.sym \in DOMAIN ko.symbols /\ TargetName(e) \in Names
  BY <1>1, <1>2, DataRelocFacts
<1> DEFINE t == ko.symbols[e.sym]
           off == IF t.shndx \in DOMAIN layout.offsets THEN layout.offsets[t.shndx] ELSE 0
<1>4. t.shndx \in DOMAIN ko.sections /\ t.value \in Nat
  BY <1>1, <1>3, KoFacts DEF IsUndef, Target
<1>5. off \in Nat /\ ko.sections[t.shndx].exec \in BOOLEAN
  BY <1>1, <1>4, KoFacts, CoreFacts
<1> PICK a : a = base + off + t.value
  OBVIOUS
<1>6. a \in Nat
  <2> HIDE DEF off
  <2> QED BY <1>1, <1>4, <1>5
<1> PICK s : s = Internal(e)
  OBVIOUS
<1> PICK n : n = TargetName(e)
  BY SMTT(60)
<1> DEFINE x == ko.sections[t.shndx].exec
<1>7. s = ResolvedSymbol(n, owner_module, x, a, 0, Len(resolved), FALSE)
  BY SMTT(60) DEF Internal, Target
<1>8. n \in Names /\ x \in BOOLEAN /\ owner_module \in Modules /\ resolved \in Seq(Resolved)
      /\ requested \in Seq(Names)
  BY <1>1, <1>3, <1>5 DEF Typed
<1>9. s \in Resolved /\ s.name = n /\ s.defined = (owner_module # Shim) /\ s.address = a
  <2> HIDE DEF t, x, off
  <2>1. Len(resolved) \in Nat /\ NoReg \in Reuses
    BY <1>8 DEF Reuses
  <2> QED BY <1>6, <1>7, <1>8, <2>1 DEF ResolvedSymbol, Resolved
<1>10. a = SlotAddress(e)
  BY DEF SlotAddress, Target
<1> QED BY <1>1, <1>9, <1>10

\* One relocation: its target is there afterwards, or the run has ended, or the
\* relocation is of another type.
LEMMA ExtendGrown ==
  ASSUME FInv, OneKernel, ExtendClosure
  PROVE  /\ Grown
         /\ Head(todo).abs64 => phase' = "raised" \/ TargetName(Head(todo)) \in {resolved'[i].name : i \in DOMAIN resolved'}
<1>1. /\ Typed /\ job \in Jobs /\ job.ko.given /\ requested \in Seq(Names) /\ resolved \in Seq(Resolved)
      /\ todo \in Seq(ToSet(DataRelocs)) /\ todo # << >> /\ phase = "extend"
  BY DEF FInv, Typed, ExtendClosure
<1> PICK e : e = Head(todo)
  OBVIOUS
<1> PICK n : n = TargetName(e)
  OBVIOUS
<1>2. e \in ToSet(DataRelocs)
  BY <1>1, HeadFacts
<1>3. n \in Names
  BY <1>1, <1>2, DataRelocFacts DEF OneKernel, ToSet
<1> DEFINE There(m) == m \in {resolved'[i].name : i \in DOMAIN resolved'}
<1>4. ASSUME resolved' = resolved PROVE Grown /\ (n \in ResolvedNames => There(n))
  <2>1. n \in ResolvedNames => There(n)
    BY <1>4 DEF ResolvedNames
  <2> QED BY <1>1, <1>4, <2>1, SameGrown
<1>5. CASE ~e.abs64 /\ resolved' = resolved
  BY <1>4, <1>5
<1>6. CASE n \in ResolvedNames /\ resolved' = resolved
  BY <1>4, <1>6
<1>7. CASE IsUndef(e) /\ n \in shim_symbols /\ n \notin ResolvedNames /\ resolved' = Append(resolved, Imported(n))
  <2> PICK s : s = Imported(n)
    OBVIOUS
  <2>1. s \in Resolved /\ s.name = n /\ ~s.defined
    BY <1>1, <1>3, ImportedIs
  <2>2. ForSlot(s)
    BY <1>1, <1>2, <1>7, <2>1 DEF ForSlot
  <2>3. Grown /\ There(s.name)
    BY <1>1, <1>7, <2>1, <2>2, AppendGrown
  <2> QED BY <2>1, <2>3
<1>8. CASE lookup(n) # 0 /\ resolved' = WithClosure(lookup(n))
  <2>1. lookup(n) \in DOMAIN nodes /\ nodes[lookup(n)].name = n
    BY <1>1, <1>8, LookupFacts
  <2> PICK root : root = lookup(n)
    OBVIOUS
  <2>2. Grown /\ There(nodes[root].name)
    BY <1>1, <1>8, <2>1, ClosureGrown DEF OneKernel
  <2> QED BY <2>1, <2>2
<1>9. CASE phase' = "raised" /\ resolved' = resolved
  BY <1>4, <1>9
<1>10. CASE ~IsUndef(e) /\ resolved' = Append(resolved, Internal(e))
  <2> PICK s : s = Internal(e)
    OBVIOUS
  <2>1. s \in Resolved /\ s.name = n /\ s.defined /\ s.address = SlotAddress(e)
    BY <1>1, <1>2, <1>10, InternalIs DEF OneKernel
  <2>2. ForSlot(s)
    BY <1>1, <1>2, <1>10, <2>1 DEF ForSlot
  <2>3. Grown /\ There(s.name)
    BY <1>1, <1>10, <2>1, <2>2, AppendGrown
  <2> QED BY <2>1, <2>3
<1>11. \/ ~e.abs64 /\ resolved' = resolved
       \/ n \in ResolvedNames /\ resolved' = resolved
       \/ IsUndef(e) /\ n \in shim_symbols /\ n \notin ResolvedNames /\ resolved' = Append(resolved, Imported(n))
       \/ lookup(n) # 0 /\ resolved' = WithClosure(lookup(n))
       \/ phase' = "raised" /\ resolved' = resolved
       \/ ~IsUndef(e) /\ resolved' = Append(resolved, Internal(e))
  BY DEF ExtendClosure
<1> QED BY <1>5, <1>6, <1>7, <1>8, <1>9, <1>10, <1>11

\* One request: if the graph knows it, it is there afterwards.
LEMMA ResolveGrown ==
  ASSUME FInv, OneKernel, ResolveName
  PROVE  /\ Grown
         /\ Head(todo) \in missing' \/ Head(todo) \in {resolved'[i].name : i \in DOMAIN resolved'}
<1>1. job \in Jobs /\ requested \in Seq(Names) /\ resolved \in Seq(Resolved)
  BY DEF FInv, Typed
<1> PICK n : n = Head(todo)
  OBVIOUS
<1>2. CASE lookup(n) = 0
  <2>1. resolved' = resolved /\ n \in missing'
    BY <1>2 DEF ResolveName
  <2> QED BY <1>1, <2>1, SameGrown
<1>3. CASE lookup(n) # 0
  <2>1. resolved' = WithClosure(lookup(n))
    BY <1>3 DEF ResolveName
  <2>2. lookup(n) \in DOMAIN nodes /\ nodes[lookup(n)].name = n
    BY <1>1, <1>3, LookupFacts
  <2> PICK root : root = lookup(n)
    OBVIOUS
  <2>3. Grown /\ nodes[root].name \in {resolved'[i].name : i \in DOMAIN resolved'}
    BY <1>1, <2>1, <2>2, ClosureGrown DEF OneKernel
  <2> QED BY <2>2, <2>3
<1> QED BY <1>2, <1>3

\* The other steps leave the list or change a field of its members that neither
\* the graph nor the shim decides.
LEMMA StepGrown ==
  ASSUME FInv, OneKernel, ResolveStep
  PROVE  Grown
<1>1. resolved \in Seq(Resolved)
  BY DEF FInv, Typed
<1>2. \A i \in DOMAIN resolved : resolved[i] \in Resolved
  BY <1>1
<1>3. CASE Classify
  <2> DEFINE f == [i \in DOMAIN resolved |-> [resolved[i] EXCEPT !.reuse = reuse_kind(resolved[i])]]
  <2>1. \A s \in Resolved : \A v \in Reuses : [s EXCEPT !.reuse = v] \in Resolved /\ Kept(s, [s EXCEPT !.reuse = v])
    BY DEF Resolved, Kept
  <2>2. \A s : reuse_kind(s) \in Reuses
    BY DEF reuse_kind, Reuses
  <2>3. \A i \in DOMAIN resolved : f[i] \in Resolved /\ Kept(resolved[i], f[i])
    BY <1>2, <2>1, <2>2
  <2>4. resolved' = f
    BY <1>3 DEF Classify
  <2>5. f \in [DOMAIN resolved -> Resolved]
    BY <2>3
  <2> HIDE DEF f
  <2> QED BY <1>1, <2>3, <2>4, <2>5, RelabelGrown
<1>4. CASE BuildThunkPages /\ ~ThunkError
  <2> DEFINE f == [i \in DOMAIN resolved |-> IF i \in OnThunkPage THEN [resolved[i] EXCEPT !.module = Thunk]
                                             ELSE resolved[i]]
  <2>1. \A s \in Resolved : /\ [s EXCEPT !.module = Thunk] \in Resolved /\ Kept(s, [s EXCEPT !.module = Thunk])
                            /\ Kept(s, s)
    <3>1. Thunk \in Modules
      BY DEF Modules
    <3> QED BY <3>1 DEF Resolved, Kept
  <2>2. \A i \in DOMAIN resolved : f[i] \in Resolved /\ Kept(resolved[i], f[i])
    BY <1>2, <2>1
  <2>3. resolved' = f
    BY <1>4 DEF BuildThunkPages
  <2>4. f \in [DOMAIN resolved -> Resolved]
    BY <2>2
  <2> HIDE DEF f
  <2> QED BY <1>1, <2>2, <2>3, <2>4, RelabelGrown
<1>5. ASSUME LoadGraph \/ ReadLists \/ CheckOwner \/ EndResolve \/ LoadKo \/ RebuildSlots
             \/ (BuildThunkPages /\ ThunkError) \/ DumpSymbols
      PROVE  resolved' = resolved
  BY <1>5 DEF LoadGraph, ReadLists, CheckOwner, EndResolve, LoadKo, RebuildSlots, BuildThunkPages, DumpSymbols
<1> QED BY <1>1, <1>3, <1>4, <1>5, SameGrown, ExtendGrown, ResolveGrown DEF ResolveStep

-----------------------------------------------------------------------------
(* Each step keeps the invariant *)

\* What the job says stays as it is.
LEMMA JobKept ==
  ASSUME ResolveStep
  PROVE  /\ job' = job /\ DataRelocs' = DataRelocs /\ (\A e : TargetName(e)' = TargetName(e))
         /\ SlotNames \subseteq SlotNames'
<1>1. job' = job
  BY DEF ResolveStep, LoadGraph, ReadLists, CheckOwner, ResolveName, EndResolve, LoadKo, ExtendClosure, Classify,
         RebuildSlots, BuildThunkPages, DumpSymbols
<1>2. ko' = ko /\ layout' = layout
  BY <1>1 DEF ko, layout
<1>3. DataRelocs' = DataRelocs
  BY <1>2 DEF DataRelocs, Read
<1>4. \A e : TargetName(e)' = TargetName(e) /\ IsUndef(e)' = IsUndef(e)
  BY <1>2 DEF TargetName, Target, IsUndef
<1>5. phase \notin {"load", "lists", "owner", "resolve", "ko"} => phase' \notin {"load", "lists", "owner", "resolve", "ko"}
  BY DEF ResolveStep, LoadGraph, ReadLists, CheckOwner, ResolveName, EndResolve, LoadKo, ExtendClosure, Classify,
         RebuildSlots, BuildThunkPages, DumpSymbols
<1>6. {TargetName(DataRelocs[r]) : r \in {r \in DOMAIN DataRelocs : ~IsUndef(DataRelocs[r])}}' =
      {TargetName(DataRelocs[r]) : r \in {r \in DOMAIN DataRelocs : ~IsUndef(DataRelocs[r])}}
  BY <1>3, <1>4
<1>7. SlotNames \subseteq SlotNames'
  BY <1>1, <1>5, <1>6 DEF SlotNames
<1> QED BY <1>1, <1>3, <1>4, <1>7

\* The names of a build only grow, and after ReadLists the shims are settled.
LEMMA NamesGrow ==
  ASSUME Grown
  PROVE  ResolvedNames \subseteq ResolvedNames'
<1>1. ASSUME NEW n \in ResolvedNames PROVE n \in ResolvedNames'
  <2>1. PICK i \in DOMAIN resolved : resolved[i].name = n
    BY DEF ResolvedNames
  <2>2. i \in DOMAIN resolved' /\ resolved'[i].name = n
    BY <2>1 DEF Grown, Kept
  <2> QED BY <2>2 DEF ResolvedNames
<1> QED BY <1>1

LEMMA ListsKept ==
  ASSUME ResolveStep, ~ReadLists
  PROVE  requested' = requested /\ shim_symbols' = shim_symbols
  BY DEF ResolveStep, LoadGraph, CheckOwner, ResolveName, EndResolve, LoadKo, ExtendClosure, Classify,
         RebuildSlots, BuildThunkPages, DumpSymbols, lists

\* reading the lists: no request is a shim.
LEMMA ReadListsTyped ==
  ASSUME FInv, ReadLists
  PROVE  /\ requested' \in Seq(Names) /\ shim_symbols' \in SUBSET job.shims
         /\ ToSet(requested') \cap shim_symbols' = {}
<1> DEFINE names == parse_symbol_requests(job.lines)  all == UnrequestedShims(names)
           builtin == {n \in all : indirect_thunk_register(n) # NoReg}
<1>1. requested' = names /\ shim_symbols' = all \ builtin
  BY DEF ReadLists
<1>2. names \in Seq(Names)
  BY RequestFacts DEF FInv, Typed
<1>3. all \subseteq job.shims \ ToSet(names)
  BY DEF UnrequestedShims
<1> HIDE DEF names, all, builtin
<1> QED BY <1>1, <1>2, <1>3

\* No node belongs to a module called shim.
LEMMA NotShim ==
  ASSUME job \in Jobs, NoShimModule, NEW i
  PROVE  ModuleName(i) # Shim
<1>1. CASE nodes[i].module \in DOMAIN krg.modules
  <2>1. krg.modules[nodes[i].module] \in ToSet(krg.modules)
    BY <1>1 DEF ToSet
  <2>2. Shim \notin ToSet(job.krg.modules)
    BY DEF NoShimModule
  <2> QED BY <1>1, <2>1, <2>2 DEF ModuleName, krg
<1>2. CASE nodes[i].module \notin DOMAIN krg.modules
  BY <1>2 DEF ModuleName, Shim
<1> QED BY <1>1, <1>2

LEMMA TypedStep ==
  ASSUME FInv, OneKernel, ResolveStep
  PROVE  Typed'
<1>0. Typed
  BY DEF FInv
<1>1. resolved' \in Seq(Resolved)
  BY StepGrown DEF Grown
<1>2. job' = job /\ DataRelocs' = DataRelocs
  BY JobKept
<1>3. CASE LoadGraph
  BY <1>0, <1>1, <1>2, <1>3 DEF LoadGraph, lists, Typed
<1>4. CASE ReadLists
  BY <1>0, <1>1, <1>2, <1>4, ReadListsTyped DEF ReadLists, Typed
<1>5. CASE CheckOwner
  <2> DEFINE first == IF requested = << >> THEN 0 ELSE lookup(requested[1])
  <2>1. CASE phase' = "raised" /\ UNCHANGED << owner_module, todo >>
    BY <1>0, <1>1, <1>2, <1>5, <2>1 DEF CheckOwner, lists, Typed
  <2>2. CASE first # 0 /\ phase' = "resolve" /\ owner_module' = module_for_entry(first) /\ todo' = requested
    <3>1. requested # << >> /\ first = lookup(requested[1])
      BY <2>2
    <3>2. requested[1] \in ToSet(requested)
      <4>1. requested \in Seq(Names)
        BY <1>0 DEF Typed
      <4>2. 1 \in DOMAIN requested
        BY <3>1, <4>1, SeqFacts
      <4> QED BY <4>2 DEF ToSet
    <3>3. first \in DOMAIN nodes /\ nodes[first].name = requested[1] /\ job \in Jobs /\ requested \in Seq(Names)
      BY <1>0, <2>2, <3>1, LookupFacts DEF Typed
    <3>4. module_for_entry(first) = ModuleName(first)
      BY <1>0, <3>2, <3>3 DEF module_for_entry, Typed
    <3>5. module_for_entry(first) \in Modules
      <4> PICK s : s = FromNode(first, 0)
        OBVIOUS
      <4>1. s \in Resolved
        BY <3>3, FromNodeIs
      <4>2. s.module = module_for_entry(first)
        BY DEF FromNode, ResolvedSymbol
      <4> QED BY <4>1, <4>2 DEF Resolved
    <3>6. ModuleName(first) # Shim
      BY <3>3, NotShim DEF OneKernel
    <3>7. owner_module' \in Modules \ {Shim}
      BY <2>2, <3>4, <3>5, <3>6
    <3> QED BY <1>0, <1>1, <1>2, <1>5, <2>2, <3>7 DEF CheckOwner, lists, Typed
  <2>3. \/ phase' = "raised" /\ UNCHANGED << owner_module, todo >>
        \/ first # 0 /\ phase' = "resolve" /\ owner_module' = module_for_entry(first) /\ todo' = requested
    BY <1>5 DEF CheckOwner
  <2> QED BY <2>1, <2>2, <2>3
<1>6. CASE ResolveName
  <2>1. todo' \in Seq(Names)
    BY <1>0, <1>6, HeadFacts DEF ResolveName, Typed
  <2>2. needs_shim' \in BOOLEAN
    BY <1>0, <1>6 DEF ResolveName, ClosureNeedsShim, Typed
  <2> QED BY <1>0, <1>1, <1>2, <1>6, <2>1, <2>2 DEF ResolveName, lists, Typed
<1>7. CASE EndResolve
  BY <1>0, <1>1, <1>2, <1>7 DEF EndResolve, lists, Typed
<1>8. CASE LoadKo
  <2>1. CASE phase' = "raised" /\ UNCHANGED << base, todo >>
    BY <1>0, <1>1, <1>2, <1>8, <2>1 DEF LoadKo, lists, Typed
  <2>2. CASE Anchors # {} /\ phase' = "extend" /\ todo' = DataRelocs
             /\ base' = LET n == requested[Min(Anchors)]  sym == ko.symbols[KoSymbol(n)] IN
                        nodes[lookup(n)].address - (layout.offsets[sym.shndx] + sym.value)
    <3>1. base' \in Nat
      <4>1. job \in Jobs /\ job.ko.given /\ AboveCore /\ requested \in Seq(Names)
        BY <1>0, <1>8 DEF Typed, LoadKo, OneKernel
      <4> PICK n : n = requested[Min(Anchors)]
        BY SMTT(60)
      <4>2. nodes[lookup(n)].address - (layout.offsets[ko.symbols[KoSymbol(n)].shndx] + ko.symbols[KoSymbol(n)].value) \in Nat
        BY <2>2, <4>1, BaseFacts
      <4> QED BY <2>2, <4>2
    <3>2. todo' \in Seq(ToSet(DataRelocs))
      <4>1. DataRelocs \in Seq(Rela)
        BY <1>0, <1>8, DataRelocFacts DEF Typed, LoadKo, OneKernel
      <4> PICK d : d = DataRelocs
        OBVIOUS
      <4>2. \A i \in DOMAIN d : d[i] \in ToSet(d)
        BY DEF ToSet
      <4>3. DOMAIN d = 1 .. Len(d) /\ Len(d) \in Nat /\ d = [i \in DOMAIN d |-> d[i]]
        BY <4>1
      <4>4. d \in [1 .. Len(d) -> ToSet(d)]
        BY <4>2, <4>3
      <4>5. d \in Seq(ToSet(d))
        BY <4>3, <4>4
      <4> QED BY <2>2, <4>5
    <3>3. todo' \in Seq(ToSet(DataRelocs')) /\ phase' = "extend"
      BY <1>2, <2>2, <3>2
    <3>4. UNCHANGED << job, requested, shim_symbols, owner_module, needs_shim, slots, pages >> /\ phase = "ko"
      BY <1>8 DEF LoadKo, lists
    <3> QED BY SMTT(60), <1>0, <1>1, <1>2, <3>1, <3>3, <3>4 DEF Typed
  <2>3. \/ phase' = "raised" /\ UNCHANGED << base, todo >>
        \/ Anchors # {} /\ phase' = "extend" /\ todo' = DataRelocs
             /\ base' = LET n == requested[Min(Anchors)]  sym == ko.symbols[KoSymbol(n)] IN
                        nodes[lookup(n)].address - (layout.offsets[sym.shndx] + sym.value)
    BY <1>8 DEF LoadKo
  <2> QED BY <2>1, <2>2, <2>3
<1>9. CASE ExtendClosure
  <2>1. todo' \in Seq(ToSet(DataRelocs')) /\ phase = "extend"
    BY <1>0, <1>2, <1>9, HeadFacts DEF ExtendClosure, Typed
  <2>2. needs_shim' \in BOOLEAN /\ phase' \in {"extend", "raised"}
    BY <1>0, <1>9 DEF ExtendClosure, ClosureNeedsShim, Typed
  <2>3. UNCHANGED << job, requested, shim_symbols, owner_module, base, slots, pages >>
    BY <1>9 DEF ExtendClosure, lists
  <2> QED BY <1>0, <1>1, <2>1, <2>2, <2>3 DEF Typed
<1>10. CASE Classify
  BY <1>0, <1>1, <1>2, <1>10 DEF Classify, lists, Typed
<1>11. CASE RebuildSlots
  <2>1. CASE phase' = "raised" /\ UNCHANGED slots
    BY <1>0, <1>1, <1>2, <1>11, <2>1 DEF RebuildSlots, lists, Typed
  <2>2. CASE /\ phase' = "thunks" /\ \A r \in DOMAIN DataRelocs : DataRelocs[r].abs64
             /\ slots' = [r \in DOMAIN DataRelocs |->
                           [offset |-> DataRelocs[r].offset, symbol |-> NamedHere(TargetName(DataRelocs[r])),
                            addend |-> DataRelocs[r].addend]]
    <3>1. /\ DOMAIN DataRelocs = 1 .. Len(DataRelocs) /\ Len(DataRelocs) \in Nat
          /\ \A r \in DOMAIN DataRelocs : DataRelocs[r].offset \in Nat /\ DataRelocs[r].addend \in Int
      BY <1>0, <1>11, DataRelocFacts DEF Typed, RebuildSlots, OneKernel
    <3>2. ASSUME NEW r \in DOMAIN DataRelocs PROVE NamedHere(TargetName(DataRelocs[r])) \in Nat
      <4>1. TargetName(DataRelocs[r]) \in ResolvedNames
        BY <1>11, <2>2 DEF FInv, Targets, RebuildSlots
      <4>2. \E i \in DOMAIN resolved : resolved[i].name = TargetName(DataRelocs[r])
        BY <4>1 DEF ResolvedNames
      <4>3. NamedHere(TargetName(DataRelocs[r])) \in DOMAIN resolved
        BY <4>2 DEF NamedHere
      <4> QED BY <1>0, <4>3 DEF Typed
    <3> DEFINE Slot(r) == [offset |-> DataRelocs[r].offset, symbol |-> NamedHere(TargetName(DataRelocs[r])),
                           addend |-> DataRelocs[r].addend]
    <3>3. \A r \in DOMAIN DataRelocs : Slot(r) \in DataRelocation
      BY <3>1, <3>2 DEF DataRelocation
    <3>4. slots' = [r \in 1 .. Len(DataRelocs) |-> Slot(r)]
      BY <2>2, <3>1
    <3>5. slots' \in Seq(DataRelocation)
      <4> HIDE DEF Slot
      <4>1. slots' \in [1 .. Len(DataRelocs) -> DataRelocation]
        BY <3>1, <3>3, <3>4
      <4> QED BY <3>1, <4>1
    <3> QED BY <1>0, <1>1, <1>2, <1>11, <2>2, <3>5 DEF RebuildSlots, lists, Typed
  <2> QED BY <1>11, <2>1, <2>2 DEF RebuildSlots
<1>12. CASE BuildThunkPages
  <2>1. ThunkPages \in SUBSET Nat
    <3>1. ASSUME NEW i \in Selected PROVE align_down(resolved[i].address) \in Nat
      <4>1. resolved[i] \in Resolved
        BY <1>0, <3>1 DEF Selected, Typed
      <4>2. resolved[i].address \in Nat
        BY <4>1 DEF Resolved
      <4> QED BY <4>2 DEF align_down, PageSize
    <3> QED BY <3>1 DEF ThunkPages
  <2>2. pages' \in SUBSET Nat /\ phase' \in {"dump", "raised"} /\ phase = "thunks"
    BY <1>0, <1>12, <2>1 DEF BuildThunkPages, Typed
  <2>3. UNCHANGED << job, requested, shim_symbols, owner_module, needs_shim, base, slots >>
    BY <1>12 DEF BuildThunkPages, lists
  <2> QED BY <1>0, <1>1, <2>2, <2>3 DEF Typed
<1>13. CASE DumpSymbols
  BY <1>0, <1>1, <1>2, <1>13 DEF DumpSymbols, lists, Typed
<1> QED BY <1>3, <1>4, <1>5, <1>6, <1>7, <1>8, <1>9, <1>10, <1>11, <1>12, <1>13 DEF ResolveStep

\* What a symbol of the closure is.
LEMMA ClosureSymbol ==
  ASSUME Typed, NoShimModule, NEW s, FromClosure(s)
  PROVE  /\ s.defined <=> s.name \notin shim_symbols
         /\ s.name \in ToSet(requested) => s.exported
<1>0. job \in Jobs /\ requested \in Seq(Names)
  BY DEF Typed
<1>1. PICK root \in DOMAIN nodes : \E m \in closure(root, shim_symbols) : \E k \in Nat : s = FromNode(m, k)
  BY DEF FromClosure
<1>2. PICK m \in closure(root, shim_symbols) : \E k \in Nat : s = FromNode(m, k)
  BY <1>1
<1>3. PICK k \in Nat : s = FromNode(m, k)
  BY <1>2
<1>4. m \in DOMAIN nodes
  BY <1>0, ClosureFacts
<1>5. /\ s.name = nodes[m].name /\ s.exported = Contains(requested, nodes[m].name)
      /\ s.defined = (module_for_entry(m) # Shim)
  BY <1>0, <1>3, <1>4, FromNodeIs
<1>6. module_for_entry(m) # Shim <=> nodes[m].name \notin shim_symbols
  BY <1>0, NotShim DEF module_for_entry
<1>7. s.name \in ToSet(requested) => Contains(requested, s.name)
  <2>1. DOMAIN requested = 1 .. Len(requested)
    BY <1>0
  <2> QED BY <2>1 DEF ToSet, Contains
<1> QED BY <1>5, <1>6, <1>7

LEMMA JudgedStep ==
  ASSUME FInv, OneKernel, ResolveStep
  PROVE  Judged'
<1>0. Typed /\ Judged
  BY DEF FInv
<1>1. CASE ReadLists
  <2>1. resolved' = << >>
    BY <1>0, <1>1 DEF ReadLists, Typed
  <2> QED BY <2>1 DEF Judged
<1>2. CASE ~ReadLists
  <2>1. shim_symbols' = shim_symbols
    BY <1>2, ListsKept
  <2>2. ASSUME NEW i \in DOMAIN resolved' PROVE resolved'[i].defined <=> resolved'[i].name \notin shim_symbols
    <3>1. CASE i \in DOMAIN resolved
      <4>1. Kept(resolved[i], resolved'[i])
        BY <3>1, StepGrown DEF Grown
      <4>2. resolved[i].defined <=> resolved[i].name \notin shim_symbols
        BY <1>0, <3>1 DEF Judged
      <4> QED BY <4>1, <4>2 DEF Kept
    <3>2. CASE FromClosure(resolved'[i])
      BY <1>0, <3>2, ClosureSymbol DEF OneKernel
    <3>3. CASE ForSlot(resolved'[i])
      <4>1. PICK e \in ToSet(DataRelocs) : /\ resolved'[i].name = TargetName(e)
                                           /\ \/ IsUndef(e) /\ resolved'[i].name \in shim_symbols /\ ~resolved'[i].defined
                                              \/ ~IsUndef(e) /\ resolved'[i].defined
        BY <3>3 DEF ForSlot
      <4>2. job \in Jobs /\ job.ko.given /\ shim_symbols \subseteq job.shims
        BY <1>0, <3>3 DEF Typed, ForSlot
      <4>3. ~IsUndef(e) => TargetName(e) \notin job.shims
        BY <4>2, DataRelocFacts DEF OneKernel, ToSet
      <4> QED BY <4>1, <4>2, <4>3
    <3> QED BY <3>1, <3>2, <3>3, StepGrown DEF Grown
  <2> QED BY <2>1, <2>2 DEF Judged
<1> QED BY <1>1, <1>2

LEMMA ExportedStep ==
  ASSUME FInv, OneKernel, ResolveStep
  PROVE  Exported'
<1>0. Typed /\ Exported
  BY DEF FInv
<1> SUFFICES ASSUME phase' = "resolve", NEW i \in DOMAIN resolved', resolved'[i].name \in ToSet(requested')
             PROVE  resolved'[i].exported
  BY DEF Exported
<1>1. CheckOwner \/ ResolveName
  BY DEF ResolveStep, LoadGraph, ReadLists, EndResolve, LoadKo, ExtendClosure, Classify, RebuildSlots, BuildThunkPages,
         DumpSymbols
<1>2. CASE CheckOwner
  BY <1>0, <1>2 DEF CheckOwner, Typed
<1>3. CASE ResolveName
  <2>1. phase = "resolve" /\ requested' = requested
    BY <1>3 DEF ResolveName, lists
  <2>2. ~ForSlot(resolved'[i])
    BY <2>1 DEF ForSlot
  <2>3. CASE i \in DOMAIN resolved
    BY <1>0, <2>1, <2>3, StepGrown DEF Exported, Grown, Kept
  <2>4. CASE FromClosure(resolved'[i])
    BY <1>0, <2>1, <2>4, ClosureSymbol DEF OneKernel
  <2> QED BY <2>2, <2>3, <2>4, StepGrown DEF Grown
<1> QED BY <1>1, <1>2, <1>3

LEMMA AskedStep ==
  ASSUME FInv, OneKernel, ResolveStep
  PROVE  Asked'
<1>0. Typed /\ Asked /\ Exported
  BY DEF FInv
<1> SUFFICES ASSUME phase' \notin {"load", "lists", "owner", "raised"}, NEW n \in ToSet(requested')
             PROVE  \/ n \in missing'
                    \/ phase' = "resolve" /\ \E k \in DOMAIN todo' : todo'[k] = n
                    \/ \E i \in DOMAIN resolved' : resolved'[i].name = n /\ resolved'[i].exported
  BY DEF Asked
<1>1. Grown
  BY StepGrown
<1>2. ASSUME \E i \in DOMAIN resolved : resolved[i].name = n /\ resolved[i].exported
      PROVE  \E i \in DOMAIN resolved' : resolved'[i].name = n /\ resolved'[i].exported
  <2>1. PICK i \in DOMAIN resolved : resolved[i].name = n /\ resolved[i].exported
    BY <1>2
  <2> QED BY <1>1, <2>1 DEF Grown, Kept
<1>3. CASE CheckOwner
  <2>1. phase' = "resolve" /\ todo' = requested /\ requested' = requested
    BY <1>3 DEF CheckOwner, lists
  <2> QED BY <2>1 DEF ToSet
<1>4. CASE ResolveName
  <2>1. /\ phase = "resolve" /\ phase' = "resolve" /\ requested' = requested /\ missing \subseteq missing'
        /\ todo # << >> /\ todo' = Tail(todo)
    BY <1>4 DEF ResolveName, lists
  <2>2. CASE \E k \in DOMAIN todo : todo[k] = n
    <3>1. PICK k \in DOMAIN todo : todo[k] = n
      BY <2>2
    <3>2. todo \in Seq(Names)
      BY <1>0, <2>1 DEF Typed
    <3>3. n = Head(todo) \/ \E j \in DOMAIN todo' : todo'[j] = n
      BY <2>1, <3>1, <3>2, HeadFacts
    <3>4. ASSUME n \in {resolved'[i].name : i \in DOMAIN resolved'}
          PROVE  \E i \in DOMAIN resolved' : resolved'[i].name = n /\ resolved'[i].exported
      <4>1. PICK i \in DOMAIN resolved' : resolved'[i].name = n
        BY <3>4
      <4> QED BY <2>1, <4>1, ExportedStep DEF Exported
    <3> QED BY <1>4, <2>1, <3>3, <3>4, ResolveGrown
  <2>3. \/ n \in missing \/ \E k \in DOMAIN todo : todo[k] = n
        \/ \E i \in DOMAIN resolved : resolved[i].name = n /\ resolved[i].exported
    BY <1>0, <2>1 DEF Asked
  <2> QED BY <1>2, <2>1, <2>2, <2>3
<1>5. CASE EndResolve
  <2>1. phase = "resolve" /\ todo = << >> /\ requested' = requested /\ missing' = missing
    BY <1>5 DEF EndResolve, lists
  <2> QED BY <1>0, <1>2, <2>1 DEF Asked
<1>6. CASE LoadKo \/ ExtendClosure \/ Classify \/ RebuildSlots \/ BuildThunkPages \/ DumpSymbols
  <2>1. phase \in {"ko", "extend", "slots", "thunks", "dump"} /\ requested' = requested /\ missing' = missing
    BY <1>6 DEF LoadKo, ExtendClosure, Classify, RebuildSlots, BuildThunkPages, DumpSymbols, lists
  <2> QED BY <1>0, <1>2, <2>1 DEF Asked
<1>7. CASE LoadGraph \/ ReadLists
  BY <1>7 DEF LoadGraph, ReadLists
<1> QED BY <1>3, <1>4, <1>5, <1>6, <1>7 DEF ResolveStep

\* What a request reaches does not shrink, nor do the names that are there.
LEMMA ReachKept ==
  ASSUME job' = job, shim_symbols' = shim_symbols, ResolvedNames \subseteq ResolvedNames', NEW n, ReachIn(n)
  PROVE  ReachIn(n)'
<1>1. krg' = krg /\ nodes' = nodes
  BY DEF krg, nodes
<1>2. lookup(n)' = lookup(n)
  BY <1>1 DEF lookup
<1>3. closure(lookup(n), shim_symbols)' = closure(lookup(n), shim_symbols)
  BY <1>1, <1>2 DEF closure
<1> QED BY <1>1, <1>2, <1>3 DEF ReachIn

LEMMA CompleteStep ==
  ASSUME FInv, OneKernel, ResolveStep
  PROVE  Complete'
<1>0. Typed /\ Complete /\ Grown /\ job' = job /\ job \in Jobs
  BY StepGrown, JobKept DEF FInv, Typed
<1> SUFFICES ASSUME phase' \notin {"load", "lists", "owner", "raised"}, NEW n \in ToSet(requested')
             PROVE  \/ n \in missing'
                    \/ phase' = "resolve" /\ \E k \in DOMAIN todo' : todo'[k] = n
                    \/ ReachIn(n)'
  BY DEF Complete
<1>1. ASSUME ReachIn(n), ~ReadLists PROVE ReachIn(n)'
  BY <1>0, <1>1, ListsKept, NamesGrow, ReachKept
<1>2. CASE CheckOwner
  <2>1. phase' = "resolve" /\ todo' = requested /\ requested' = requested
    BY <1>2 DEF CheckOwner, lists
  <2> QED BY <2>1 DEF ToSet
<1>3. CASE ResolveName
  <2>1. /\ phase = "resolve" /\ phase' = "resolve" /\ requested' = requested /\ missing \subseteq missing'
        /\ todo # << >> /\ todo' = Tail(todo) /\ shim_symbols' = shim_symbols
    BY <1>3 DEF ResolveName, lists
  <2>2. ~ReadLists
    BY <2>1 DEF ReadLists
  <2>3. CASE \E k \in DOMAIN todo : todo[k] = n
    <3>1. PICK k \in DOMAIN todo : todo[k] = n
      BY <2>3
    <3>2. todo \in Seq(Names)
      BY <1>0, <2>1 DEF Typed
    <3>3. n = Head(todo) \/ \E j \in DOMAIN todo' : todo'[j] = n
      BY <2>1, <3>1, <3>2, HeadFacts
    <3>4. CASE n = Head(todo) /\ lookup(n) = 0
      BY <1>3, <3>4 DEF ResolveName
    <3>5. CASE n = Head(todo) /\ lookup(n) # 0
      <4>1. resolved' = WithClosure(lookup(n))
        BY <1>3, <3>5 DEF ResolveName
      <4>2. lookup(n) \in DOMAIN nodes
        BY <1>0, <3>5, LookupFacts
      <4> PICK root : root = lookup(n)
        OBVIOUS
      <4>3. \A m \in closure(root, shim_symbols) : \E i \in DOMAIN WithClosure(root) : WithClosure(root)[i].name = nodes[m].name
        BY <1>0, <4>2, WithClosureFacts DEF Typed, OneKernel
      <4>4. ASSUME NEW m \in closure(root, shim_symbols) PROVE nodes[m].name \in ResolvedNames'
        <5>1. PICK i \in DOMAIN resolved' : resolved'[i].name = nodes[m].name
          BY <4>1, <4>3
        <5> QED BY <5>1 DEF ResolvedNames
      <4>5. krg' = krg /\ nodes' = nodes
        BY <1>0 DEF krg, nodes
      <4>6. lookup(n)' = root
        BY <4>5 DEF lookup
      <4>7. closure(lookup(n), shim_symbols)' = closure(root, shim_symbols)
        BY <2>1, <4>5, <4>6 DEF closure
      <4>8. ReachIn(n)'
        BY <4>2, <4>4, <4>5, <4>6, <4>7 DEF ReachIn
      <4> QED BY <4>8
    <3> QED BY <2>1, <3>3, <3>4, <3>5
  <2> QED BY <1>0, <1>1, <2>1, <2>2, <2>3 DEF Complete
<1>4. CASE EndResolve
  <2>1. phase = "resolve" /\ todo = << >> /\ requested' = requested /\ missing' = missing /\ ~ReadLists
    BY <1>4 DEF EndResolve, lists, ReadLists
  <2> QED BY <1>0, <1>1, <2>1 DEF Complete
<1>5. CASE LoadKo \/ ExtendClosure \/ Classify \/ RebuildSlots \/ BuildThunkPages \/ DumpSymbols
  <2>1. phase \in {"ko", "extend", "slots", "thunks", "dump"} /\ requested' = requested /\ missing' = missing
    BY <1>5 DEF LoadKo, ExtendClosure, Classify, RebuildSlots, BuildThunkPages, DumpSymbols, lists
  <2>2. ~ReadLists
    BY <2>1 DEF ReadLists
  <2> QED BY <1>0, <1>1, <2>1, <2>2 DEF Complete
<1>6. CASE LoadGraph \/ ReadLists
  BY <1>6 DEF LoadGraph, ReadLists
<1> QED BY <1>2, <1>3, <1>4, <1>5, <1>6 DEF ResolveStep

LEMMA CalleesStep ==
  ASSUME FInv, OneKernel, ResolveStep
  PROVE  CalleesThere'
<1>0. Typed /\ CalleesThere /\ Grown /\ job \in Jobs
  BY StepGrown DEF FInv, Typed
<1>1. job' = job /\ SlotNames \subseteq SlotNames' /\ ResolvedNames \subseteq ResolvedNames'
  BY <1>0, JobKept, NamesGrow
<1>2. krg' = krg /\ nodes' = nodes
  BY <1>1 DEF krg, nodes
<1>3. \A n : lookup(n)' = lookup(n)
  BY <1>2 DEF lookup
<1>4. ASSUME NEW i \in DOMAIN resolved', resolved'[i].defined, resolved'[i].name \notin SlotNames'
      PROVE  /\ lookup(resolved'[i].name) \in DOMAIN nodes
             /\ \A m \in krg.edges[lookup(resolved'[i].name)] : nodes[m].name \in ResolvedNames'
  <2> PICK s : s = resolved'[i]
    OBVIOUS
  <2>1. CASE i \in DOMAIN resolved
    <3>1. s.name = resolved[i].name /\ resolved[i].defined
      BY <1>0, <1>4, <2>1 DEF Grown, Kept
    <3>2. /\ lookup(resolved[i].name) \in DOMAIN nodes
          /\ \A m \in krg.edges[lookup(resolved[i].name)] : nodes[m].name \in ResolvedNames
      BY <1>0, <1>1, <1>4, <2>1, <3>1 DEF CalleesThere
    <3> QED BY <1>1, <3>1, <3>2
  <2>2. CASE FromClosure(s)
    <3>1. PICK root \in DOMAIN nodes :
            /\ \E m \in closure(root, shim_symbols) : \E k \in Nat : s = FromNode(m, k)
            /\ \A m \in closure(root, shim_symbols) : \E j \in DOMAIN resolved' : resolved'[j].name = nodes[m].name
      BY <2>2 DEF FromClosure
    <3>2. PICK m \in closure(root, shim_symbols) : \E k \in Nat : s = FromNode(m, k)
      BY <3>1
    <3>3. PICK k \in Nat : s = FromNode(m, k)
      BY <3>2
    <3>4. m \in DOMAIN nodes /\ requested \in Seq(Names)
      BY <1>0, ClosureFacts DEF Typed
    <3>5. s.name = nodes[m].name
      BY <1>0, <3>3, <3>4, FromNodeIs
    <3>6. lookup(s.name) = m
      BY <1>0, <3>4, <3>5, LookupOne DEF OneKernel
    <3>7. s.name \notin shim_symbols
      BY <1>0, <1>4, <2>2, ClosureSymbol DEF OneKernel
    <3>8. krg.edges[m] \subseteq closure(root, shim_symbols)
      BY <1>0, <3>5, <3>7, ClosureFacts
    <3>9. ASSUME NEW c \in krg.edges[m] PROVE nodes[c].name \in ResolvedNames'
      <4>1. PICK j \in DOMAIN resolved' : resolved'[j].name = nodes[c].name
        BY <3>1, <3>8, <3>9
      <4> QED BY <4>1 DEF ResolvedNames
    <3> QED BY <3>4, <3>6, <3>9
  <2>3. CASE ForSlot(s)
    <3>1. PICK e \in ToSet(DataRelocs) : s.name = TargetName(e) /\ ~IsUndef(e)
      BY <1>4, <2>3 DEF ForSlot
    <3>2. phase = "extend" /\ job.ko.given
      BY <1>0, <2>3 DEF ForSlot, Typed
    <3>3. s.name \in SlotNames
      BY <3>1, <3>2 DEF SlotNames, ToSet
    <3> QED BY <1>1, <1>4, <3>3
  <2> QED BY <1>0, <2>1, <2>2, <2>3 DEF Grown
<1> QED BY <1>2, <1>3, <1>4 DEF CalleesThere

LEMMA TargetsStep ==
  ASSUME FInv, OneKernel, ResolveStep
  PROVE  Targets'
<1>0. Typed /\ Targets /\ Grown
  BY StepGrown DEF FInv
<1>1. DataRelocs' = DataRelocs /\ (\A e : TargetName(e)' = TargetName(e)) /\ ResolvedNames \subseteq ResolvedNames'
  BY <1>0, JobKept, NamesGrow
<1>2. ASSUME phase' \in {"extend", "slots"}, NEW r \in DOMAIN DataRelocs, DataRelocs[r].abs64
      PROVE  \/ phase' = "extend" /\ \E k \in DOMAIN todo' : todo'[k] = DataRelocs[r]
             \/ TargetName(DataRelocs[r]) \in ResolvedNames'
  <2>1. LoadKo \/ ExtendClosure \/ Classify
    BY <1>2 DEF ResolveStep, LoadGraph, ReadLists, CheckOwner, ResolveName, EndResolve, RebuildSlots, BuildThunkPages,
                DumpSymbols
  <2>2. CASE LoadKo
    <3>1. todo' = DataRelocs /\ phase' = "extend"
      BY <1>2, <2>2 DEF LoadKo
    <3> QED BY <3>1
  <2>3. CASE ExtendClosure
    <3>1. phase = "extend" /\ todo # << >> /\ todo' = Tail(todo) /\ todo \in Seq(ToSet(DataRelocs))
      BY <1>0, <2>3 DEF ExtendClosure, Typed
    <3>2. phase' = "extend"
      BY <1>2, <2>3 DEF ExtendClosure
    <3>3. CASE TargetName(DataRelocs[r]) \in ResolvedNames
      BY <1>1, <3>3
    <3>4. CASE \E k \in DOMAIN todo : todo[k] = DataRelocs[r]
      <4>1. DataRelocs[r] = Head(todo) \/ \E j \in DOMAIN todo' : todo'[j] = DataRelocs[r]
        BY <3>1, <3>4, HeadFacts
      <4>2. CASE DataRelocs[r] = Head(todo)
        <5>1. TargetName(Head(todo)) \in {resolved'[i].name : i \in DOMAIN resolved'}
          BY <1>2, <2>3, <3>2, <4>2, ExtendGrown
        <5>2. TargetName(Head(todo)) \in ResolvedNames'
          BY <5>1 DEF ResolvedNames
        <5> QED BY <4>2, <5>2
      <4> QED BY <3>2, <4>1, <4>2
    <3> QED BY <1>0, <1>2, <3>1, <3>3, <3>4 DEF Targets
  <2>4. CASE Classify
    <3>1. phase = "extend" /\ todo = << >>
      BY <2>4 DEF Classify
    <3> QED BY <1>0, <1>1, <1>2, <3>1 DEF Targets
  <2> QED BY <2>1, <2>2, <2>3, <2>4
<1> QED BY <1>1, <1>2 DEF Targets

LEMMA FInvStep ==
  ASSUME FInv, OneKernel, ResolveStep
  PROVE  FInv'
  BY TypedStep, AskedStep, CompleteStep, ExportedStep, JudgedStep, CalleesStep, TargetsStep DEF FInv

-----------------------------------------------------------------------------
(* The builder gets what it is made for *)

LEMMA HandedType ==
  ASSUME FInv, OneKernel
  PROVE  Handed \in Argument
<1>0. Typed /\ job \in Jobs
  BY DEF FInv, Typed
<1>1. Handed.symbols \in Seq(Symbol)
  <2> DEFINE One(s) == [name |-> s.name, defined |-> s.defined, exported |-> s.exported, func |-> s.func,
                        rodata |-> s.reuse = "rodata" \/ s.name \in RodataNames, address |-> s.address, size |-> s.size,
                        export_order |-> s.export_order, original_order |-> s.original_order]
  <2>1. \A s \in Resolved : One(s) \in Symbol
    BY DEF Resolved, Symbol
  <2>2. resolved \in Seq(Resolved) /\ DOMAIN resolved = 1 .. Len(resolved) /\ Len(resolved) \in Nat
    BY <1>0 DEF Typed
  <2>3. \A i \in DOMAIN resolved : resolved[i] \in Resolved
    BY <2>2
  <2> HIDE DEF One
  <2>4. [i \in DOMAIN resolved |-> One(resolved[i])] \in [1 .. Len(resolved) -> Symbol]
    BY <2>1, <2>2, <2>3
  <2>5. [i \in DOMAIN resolved |-> One(resolved[i])] \in Seq(Symbol)
    BY <2>2, <2>4
  <2> QED BY <2>5 DEF Handed, One
<1>2. job.ko.given \in BOOLEAN
  BY <1>0, BuildJobs
<1>3. Handed.data \in Nat
  BY <1>0, <1>2, CoreFacts DEF Handed
<1>4. Handed.rw_base \in Int
  <2>1. BuildTextMin \in Int
    <3> DEFINE HasAddress(i) == resolved[i].defined /\ resolved[i].address # 0
               funcs == {i \in DOMAIN resolved : HasAddress(i) /\ resolved[i].func}
               some  == IF funcs # {} THEN funcs ELSE {i \in DOMAIN resolved : HasAddress(i)}
               as    == {resolved[i].address : i \in some}
    <3>1. \A i \in DOMAIN resolved : resolved[i].address \in Nat
      <4>1. \A i \in DOMAIN resolved : resolved[i] \in Resolved
        BY <1>0 DEF Typed
      <4> QED BY <4>1 DEF Resolved
    <3>2. as \in SUBSET Nat
      BY <3>1
    <3>3. BuildTextMin = IF some = {} THEN TextBase ELSE align_down(Min(as))
      BY DEF BuildTextMin
    <3>4. some # {} => Min(as) \in Nat
      <4>1. some # {} => as # {}
        OBVIOUS
      <4> HIDE DEF as, some
      <4> QED BY <3>2, <4>1, MinNat
    <3> HIDE DEF as, some
    <3>5. CASE some # {}
      <4>1. \A x \in Nat : align_down(x) \in Int
        BY PageFacts
      <4>2. Min(as) \in Nat
        BY ONLY <3>4, <3>5
      <4>3. BuildTextMin = align_down(Min(as))
        BY ONLY <3>3, <3>5
      <4> QED BY ONLY <4>1, <4>2, <4>3
    <3>6. CASE some = {}
      BY <3>3, <3>6 DEF TextBase
    <3> QED BY <3>5, <3>6
  <2>2. job.ko.given => rw_base_vaddr \in Int
    <3> PICK d : d = layout.data_start
      OBVIOUS
    <3>1. job.ko.given => d \in Nat
      BY <1>0, CoreFacts
    <3>2. base \in Nat
      BY <1>0 DEF Typed
    <3> QED BY <2>1, <3>1, <3>2 DEF rw_base_vaddr, TextBase
  <2> QED BY <1>2, <2>2 DEF Handed
<1>5. Handed.relocations \in Seq(DataRelocation) /\ Handed.shim \in BOOLEAN /\ Handed.synthetic \in SUBSET Nat
      /\ Handed.based \in BOOLEAN
  BY <1>0, <1>2 DEF Handed, Typed
<1>6. Handed = [symbols |-> Handed.symbols, shim |-> Handed.shim, data |-> Handed.data,
                relocations |-> Handed.relocations, based |-> Handed.based, rw_base |-> Handed.rw_base,
                synthetic |-> Handed.synthetic]
  BY DEF Handed
<1> QED BY <1>1, <1>3, <1>4, <1>5, <1>6 DEF Argument

\* While the builder runs, what it got stays.
LEMMA FInvFrame ==
  ASSUME FInv, phase' = phase \/ (phase = "build" /\ phase' = "built"),
         UNCHANGED << job, lists, owner_module, todo, missing, resolved, needs_shim, base, slots, pages, dump >>
  PROVE  FInv' /\ Handed' = Handed
<1>0. Typed /\ Asked /\ Complete /\ Exported /\ Judged /\ CalleesThere /\ Targets
  BY DEF FInv
<1>1. UNCHANGED << job, requested, shim_symbols, thunks, owner_module, todo, missing, resolved, needs_shim, base, slots,
                   pages, dump >>
  BY DEF lists
<1>2. ko' = ko /\ layout' = layout /\ krg' = krg /\ nodes' = nodes
  BY <1>1 DEF ko, layout, krg, nodes
<1>3. DataRelocs' = DataRelocs /\ (\A e : TargetName(e)' = TargetName(e) /\ IsUndef(e)' = IsUndef(e))
      /\ (\A n : lookup(n)' = lookup(n)) /\ ResolvedNames' = ResolvedNames
  BY <1>1, <1>2 DEF DataRelocs, Read, TargetName, Target, IsUndef, lookup, ResolvedNames
<1>4. SlotNames' = SlotNames
  <2>1. {TargetName(DataRelocs[r]) : r \in {r \in DOMAIN DataRelocs : ~IsUndef(DataRelocs[r])}}' =
        {TargetName(DataRelocs[r]) : r \in {r \in DOMAIN DataRelocs : ~IsUndef(DataRelocs[r])}}
    BY <1>3
  <2> QED BY <1>1, <2>1 DEF SlotNames
<1>5. Typed' /\ Asked' /\ Exported' /\ Judged'
  BY <1>0, <1>1, <1>3 DEF Typed, Asked, Exported, Judged
<1>6. CalleesThere'
  BY <1>0, <1>1, <1>2, <1>3, <1>4 DEF CalleesThere
<1>7. Targets'
  BY <1>0, <1>1, <1>3 DEF Targets
<1>8. rw_base_vaddr' = rw_base_vaddr
  <2>1. BuildTextMin' = BuildTextMin
    BY <1>1 DEF BuildTextMin
  <2> QED BY <1>1, <1>2, <2>1 DEF rw_base_vaddr
<1>9. Handed' = Handed
  BY <1>1, <1>2, <1>8 DEF Handed
<1>10. Complete'
  <2>1. \A n : ReachIn(n) => ReachIn(n)'
    BY <1>1, <1>3, ReachKept
  <2> QED BY <1>0, <1>1, <2>1 DEF Complete
<1> QED BY <1>5, <1>6, <1>7, <1>9, <1>10 DEF FInv

BuildInv == FInv /\ HandedOver /\ IInv /\ Origin /\ InMemory

LEMMA BuildInvInit == BuildInit => BuildInv
<1> SUFFICES ASSUME BuildInit PROVE BuildInv
  OBVIOUS
<1>1. IInv /\ Origin /\ InMemory /\ pc = "idle"
  BY InitInv DEF BuildInit, LayoutInit, Origin, InMemory, Kinds
<1>2. Typed
  <2>1. "kernel" \in Modules \ {Shim}
    BY DEF Modules, Shim
  <2>2. << >> \in Seq(Names) /\ << >> \in Seq(Resolved) /\ << >> \in Seq(DataRelocation) /\ ToSet(<< >>) = {}
    BY DEF ToSet
  <2> QED BY <2>1, <2>2 DEF BuildInit, Typed
<1>3. Asked /\ Complete /\ Exported /\ Judged /\ CalleesThere /\ Targets /\ HandedOver
  BY <1>1 DEF BuildInit, Asked, Complete, Exported, Judged, CalleesThere, Targets, HandedOver
<1> QED BY <1>1, <1>2, <1>3 DEF BuildInv, FInv

LEMMA BuildInvStep ==
  ASSUME BuildInv, OneKernel, [BuildNext]_<< fvars, lvars >>
  PROVE  BuildInv'
<1>0. FInv /\ HandedOver /\ IInv /\ Origin /\ InMemory
  BY DEF BuildInv
<1>1. CASE ResolveStep /\ UNCHANGED lvars
  <2>1. FInv' /\ IInv' /\ Origin' /\ InMemory'
    BY <1>0, <1>1, FInvStep, IInvStep, OriginStep, InMemoryStep
  <2>2. phase # "built" /\ phase' # "built"
    BY <1>1 DEF ResolveStep, LoadGraph, ReadLists, CheckOwner, ResolveName, EndResolve, LoadKo, ExtendClosure, Classify,
                RebuildSlots, BuildThunkPages, DumpSymbols
  <2>3. pc' = pc
    BY <1>1 DEF lvars
  <2> QED BY <1>0, <2>1, <2>2, <2>3 DEF BuildInv, HandedOver
<1>2. CASE StartBuilder
  <2>1. FInv' /\ Handed' = Handed
    BY <1>0, <1>2, FInvFrame DEF StartBuilder
  <2>2. BuilderStep
    BY <1>0, <1>2, HandedType DEF StartBuilder, BuilderStep
  <2>3. IInv' /\ Origin' /\ InMemory'
    BY <1>0, <2>2, IInvStep, OriginStep, InMemoryStep
  <2>4. phase' = "built" /\ pc' # "idle" /\ args' = Handed
    BY <1>2 DEF StartBuilder, Construct
  <2> QED BY <2>1, <2>3, <2>4 DEF BuildInv, HandedOver
<1>3. CASE LayoutStep /\ UNCHANGED fvars
  <2>1. FInv' /\ Handed' = Handed /\ phase' = phase
    <3>1. phase' = phase
          /\ UNCHANGED << job, lists, owner_module, todo, missing, resolved, needs_shim, base, slots, pages, dump >>
      BY <1>3 DEF fvars, lists
    <3> QED BY <1>0, <3>1, FInvFrame
  <2>2. IInv' /\ Origin' /\ InMemory'
    BY <1>0, <1>3, IInvStep, OriginStep, InMemoryStep DEF BuilderStep
  <2>3. pc # "idle" /\ pc' # "idle" /\ args' = args
    <3>1. pc # "idle" /\ args' = args
      BY SMTT(60), <1>3 DEF LayoutStep, input, prepare_symbol_virtual_addresses, MergeInterval, EndRegions,
                  AssignSections, EmitSymbol, EndEmit, PlaceRegion, EndRegionsPlaced, PlaceRw, Finish, MapRegion, EndMap
    <3>2. pc' # "idle"
      BY <1>3 DEF LayoutStep, prepare_symbol_virtual_addresses, MergeInterval, EndRegions, AssignSections, EmitSymbol,
                  EndEmit, PlaceRegion, EndRegionsPlaced, PlaceRw, Finish, MapRegion, EndMap
    <3> QED BY SMTT(60), <3>1, <3>2
  <2> QED BY <1>0, <2>1, <2>2, <2>3 DEF BuildInv, HandedOver
<1>4. CASE UNCHANGED << fvars, lvars >>
  <2>1. FInv' /\ Handed' = Handed /\ phase' = phase
    <3>1. phase' = phase
          /\ UNCHANGED << job, lists, owner_module, todo, missing, resolved, needs_shim, base, slots, pages, dump >>
      BY <1>4 DEF fvars, lists
    <3> QED BY <1>0, <3>1, FInvFrame
  <2>2. IInv' /\ Origin' /\ InMemory'
    BY <1>0, <1>4, IInvStep, OriginStep, InMemoryStep
  <2>3. pc' = pc /\ args' = args
    BY <1>4 DEF lvars, input
  <2> QED BY <1>0, <2>1, <2>2, <2>3 DEF BuildInv, HandedOver
<1> QED BY <1>1, <1>2, <1>3, <1>4 DEF BuildNext

-----------------------------------------------------------------------------
(* The slots of .data *)

\* A symbol has the address of its node, or the one that the kernel gave the target of a
\* slot, unless that target is gone.
AtHome(s) ==
  /\ s.address # 0
  /\ \/ \E m \in DOMAIN nodes : s.name = nodes[m].name /\ s.address = nodes[m].address
     \/ /\ job.ko.given
        /\ \E e \in ToSet(DataRelocs) : /\ ~IsUndef(e) /\ s.name = TargetName(e)
                                        /\ Gone(e) \/ s.address = KernelTarget(e)
SymbolsHome == \A i \in DOMAIN resolved : resolved[i].defined => AtHome(resolved[i])

\* LoadKo finds where the loader has put the core, a page of the kernel.
BaseKnown ==
  job.ko.given /\ phase \in {"extend", "slots", "thunks", "dump", "build", "built"} =>
    /\ base % PageSize = 0 /\ base # 0
    /\ DOMAIN ko.kernel = Core(ko) /\ \A i \in Core(ko) : ko.kernel[i] = base + layout.offsets[i]

\* Each relocation of .data has its slot, which names the symbol of its target.
SlotsKept ==
  job.ko.given /\ phase \in {"thunks", "dump", "build", "built"} =>
    /\ DOMAIN slots = DOMAIN DataRelocs
    /\ \A r \in DOMAIN slots :
         /\ slots[r].offset = DataRelocs[r].offset /\ slots[r].addend = DataRelocs[r].addend
         /\ slots[r].symbol \in DOMAIN resolved /\ resolved[slots[r].symbol].name = TargetName(DataRelocs[r])

\* Where a symbol is at home depends on the job only.
LEMMA HomeKept ==
  ASSUME job' = job
  PROVE  /\ nodes' = nodes /\ ko' = ko /\ layout' = layout /\ DataRelocs' = DataRelocs
         /\ \A e : TargetName(e)' = TargetName(e)
         /\ \A s : AtHome(s)' <=> AtHome(s)
<1>1. ko' = ko /\ layout' = layout /\ krg' = krg /\ nodes' = nodes
  BY DEF ko, layout, krg, nodes
<1>2. DataRelocs' = DataRelocs
  BY <1>1 DEF DataRelocs, Read
<1>3. \A e : Target(e)' = Target(e) /\ TargetName(e)' = TargetName(e) /\ IsUndef(e)' = IsUndef(e)
  BY <1>1 DEF TargetName, Target, IsUndef
<1>4. \A n : lookup(n)' = lookup(n)
  BY <1>1 DEF lookup
<1>5. \A e : Gone(e)' = Gone(e) /\ KernelTarget(e)' = KernelTarget(e)
  BY <1>1, <1>3, <1>4 DEF Gone, KernelTarget
<1>6. \A s : AtHome(s)' <=> AtHome(s)
  BY <1>1, <1>2, <1>3, <1>5 DEF AtHome
<1> QED BY <1>1, <1>2, <1>3, <1>6

\* A node of the graph enters with its address.
LEMMA NodeHome ==
  ASSUME Typed, AddressesKnown, NEW s, FromClosure(s)
  PROVE  AtHome(s)
<1>0. job \in Jobs /\ requested \in Seq(Names)
  BY DEF Typed
<1>1. PICK root \in DOMAIN nodes : \E m \in closure(root, shim_symbols) : \E k \in Nat : s = FromNode(m, k)
  BY DEF FromClosure
<1>2. PICK m \in closure(root, shim_symbols) : \E k \in Nat : s = FromNode(m, k)
  BY <1>1
<1>3. PICK k \in Nat : s = FromNode(m, k)
  BY <1>2
<1>4. m \in DOMAIN nodes
  BY <1>0, ClosureFacts
<1>5. s.name = nodes[m].name /\ s.address = nodes[m].address
  BY <1>0, <1>3, <1>4, FromNodeIs
<1>6. nodes[m].address # 0
  BY <1>0, <1>4 DEF AddressesKnown, nodes, krg
<1> QED BY <1>4, <1>5, <1>6 DEF AtHome

\* The layout has a place for each core section.
LEMMA CoreIs == DOMAIN layout.offsets = Core(ko)
  BY DEF layout, compute_core_layout

\* ExtendClosure gives the target of a slot the address where the kernel has it.
LEMMA SlotHome ==
  ASSUME Typed, OneKernel, BaseKnown, NEW s, ForSlot(s), s.defined
  PROVE  AtHome(s)
<1>1. phase = "extend" /\ job \in Jobs /\ job.ko.given /\ base \in Nat
  BY DEF ForSlot, Typed
<1>2. PICK e \in ToSet(DataRelocs) : s.name = TargetName(e) /\ ~IsUndef(e) /\ s.address = SlotAddress(e)
  BY DEF ForSlot
<1>3. base # 0 /\ DOMAIN ko.kernel = Core(ko) /\ \A i \in Core(ko) : ko.kernel[i] = base + layout.offsets[i]
  BY <1>1 DEF BaseKnown
<1>4. e.sym \in DOMAIN ko.symbols
  BY <1>1, DataRelocFacts DEF OneKernel, ToSet
<1> PICK t : t = Target(e)
  OBVIOUS
<1>5. t.value \in Nat
  BY <1>1, <1>4, KoFacts DEF Target
<1>6. CASE t.shndx \in DOMAIN layout.offsets
  <2>1. PICK o \in Nat : o = layout.offsets[t.shndx]
    BY <1>1, <1>6, CoreFacts
  <2>2. SlotAddress(e) = base + o + t.value
    BY <1>6, <2>1 DEF SlotAddress
  <2>3. ko.kernel[t.shndx] = base + o
    BY <1>3, <1>6, <2>1, CoreIs
  <2>4. KernelTarget(e) = base + o + t.value
    BY <1>2, <2>3 DEF KernelTarget
  <2>5. base + o + t.value # 0
    BY <1>1, <1>3, <1>5, <2>1
  <2> QED BY <1>1, <1>2, <2>2, <2>4, <2>5 DEF AtHome
<1>7. CASE t.shndx \notin DOMAIN layout.offsets
  <2>1. SlotAddress(e) = base + 0 + t.value
    BY <1>7 DEF SlotAddress
  <2>2. base + 0 + t.value # 0
    BY <1>1, <1>3, <1>5
  <2>3. Gone(e)
    BY <1>2, <1>3, <1>7, CoreIs DEF Gone
  <2> QED BY <1>1, <1>2, <2>1, <2>2, <2>3 DEF AtHome
<1> QED BY <1>6, <1>7

\* No step of the script moves a symbol away from home.
LEMMA HomeStep ==
  ASSUME FInv, OneKernel, InThatKernel, SymbolsHome, BaseKnown, ResolveStep
  PROVE  SymbolsHome'
<1>0. Typed /\ Grown
  BY StepGrown DEF FInv
<1>1. job' = job
  BY JobKept
<1>2. ASSUME NEW i \in DOMAIN resolved', resolved'[i].defined PROVE AtHome(resolved'[i])
  <2> PICK s : s = resolved'[i]
    OBVIOUS
  <2>1. CASE i \in DOMAIN resolved
    <3>1. Kept(resolved[i], s)
      BY <1>0, <2>1 DEF Grown
    <3>2. AtHome(resolved[i])
      BY <1>2, <2>1, <3>1 DEF SymbolsHome, Kept
    <3> QED BY <3>1, <3>2 DEF AtHome, Kept
  <2>2. CASE FromClosure(s)
    BY <1>0, <2>2, NodeHome DEF InThatKernel
  <2>3. CASE ForSlot(s)
    BY <1>0, <1>2, <2>3, SlotHome
  <2> QED BY <1>0, <2>1, <2>2, <2>3 DEF Grown
<1>3. \A s : AtHome(s)' <=> AtHome(s)
  BY <1>1, HomeKept
<1> QED BY <1>2, <1>3 DEF SymbolsHome

\* The first request that the .ko and the graph know.
LEMMA AnchorFound ==
  ASSUME job \in Jobs, requested \in Seq(Names), Anchors # {}
  PROVE  \E n \in Names \ {NoName} :
           /\ n = requested[Min(Anchors)] /\ \E i \in DOMAIN ko.symbols : ko.symbols[i].name = n
           /\ ko.symbols[KoSymbol(n)].shndx \in DOMAIN layout.offsets /\ lookup(n) # 0
<1>1. Anchors \subseteq DOMAIN requested
  BY ONLY Zenon DEF Anchors
<1>2. \A S : S \subseteq DOMAIN requested => S \in SUBSET Nat
  BY ONLY requested \in Seq(Names)
<1>3. Anchors \in SUBSET Nat
  BY ONLY <1>1, <1>2
<1>4. PICK x \in Anchors : x = Min(Anchors)
  BY ONLY <1>3, Anchors # {}, MinNat
<1>5. x \in DOMAIN requested
  BY ONLY <1>1
<1>6. requested[x] \in Names
  BY ONLY <1>5, requested \in Seq(Names)
<1>7. /\ \E i \in DOMAIN ko.symbols : ko.symbols[i].name = requested[x]
      /\ ko.symbols[KoSymbol(requested[x])].shndx \in DOMAIN layout.offsets /\ lookup(requested[x]) # 0
  BY Zenon, <1>4 DEF Anchors
<1>8. NoName \notin Names
  BY JobFacts
<1> QED BY Zenon, <1>4, <1>6, <1>7, <1>8

\* A symbol that the .ko and the graph know tells where the loader has put the core.
LEMMA BaseFound ==
  ASSUME job \in Jobs, job.ko.given, InThatKernel, NEW n \in Names \ {NoName}, lookup(n) # 0, NEW b,
         \E i \in DOMAIN ko.symbols : ko.symbols[i].name = n, ko.symbols[KoSymbol(n)].shndx \in DOMAIN layout.offsets,
         b = nodes[lookup(n)].address - (layout.offsets[ko.symbols[KoSymbol(n)].shndx] + ko.symbols[KoSymbol(n)].value)
  PROVE  /\ b % PageSize = 0 /\ b # 0
         /\ DOMAIN ko.kernel = Core(ko) /\ \A i \in Core(ko) : ko.kernel[i] = b + layout.offsets[i]
<1> PICK t : t = ko.symbols[KoSymbol(n)]
  BY Zenon
<1> PICK m : m = lookup(n)
  BY Zenon
<1>1. t.shndx \in DOMAIN layout.offsets
  BY Zenon
<1>2. b = nodes[m].address - (layout.offsets[t.shndx] + t.value)
  BY ZenonT(60)
<1> DEFINE Same == {i \in DOMAIN ko.symbols : ko.symbols[i].name = n}
<1>3. KoSymbol(n) \in Same
  <2>1. Same \in SUBSET Nat /\ Same # {}
    BY KoFacts
  <2>2. Min(Same) \in Same
    <3> HIDE DEF Same
    <3> QED BY <2>1, MinNat
  <2> QED BY <2>2 DEF KoSymbol
<1>4. m \in DOMAIN nodes /\ nodes[m].name = n
  BY LookupFacts
<1>5. t \in ToSet(ko.symbols) /\ t.name = n /\ nodes[m] \in ToSet(nodes) /\ t.value \in Nat
  BY SMTT(60), <1>3, <1>4, KoFacts DEF ToSet
<1>6. NameIn(ko, t) = n
  BY Zenon, <1>5 DEF NameIn
<1>7. PICK c \in Nat \ {0} : /\ c % PageSize = 0
                             /\ \A i \in Core(ko) : ko.kernel[i] = c + layout.offsets[i]
  BY SMTT(60), LoaderLayout, KoFacts DEF InThatKernel, ModuleLoaded, ko, layout
<1>8. DOMAIN ko.kernel = Core(ko)
  BY SMTT(60), LoaderLayout, KoFacts DEF InThatKernel, ModuleLoaded, ko, layout
<1>9. t.shndx \in Core(ko)
  BY Zenon, <1>1, CoreIs
<1>10. nodes[m].address = ko.kernel[t.shndx] + t.value
  BY <1>4, <1>5, <1>6, <1>8, <1>9 DEF InThatKernel, NodesLoaded, ko, nodes, krg
<1>11. PICK o \in Nat : o = layout.offsets[t.shndx]
  BY <1>1, CoreFacts
<1>12. PICK v \in Nat : v = t.value
  BY <1>5
<1>13. ko.kernel[t.shndx] = c + o
  BY SMTT(60), <1>7, <1>9, <1>11
<1>14. b = (c + o + v) - (o + v)
  BY <1>2, <1>10, <1>11, <1>12, <1>13
<1>15. b = c
  BY ONLY c \in Nat, o \in Nat, v \in Nat, <1>14
<1> QED BY <1>7, <1>8, <1>15

\* Once LoadKo has found the core, no step moves it.
LEMMA BaseStep ==
  ASSUME FInv, OneKernel, InThatKernel, BaseKnown, ResolveStep
  PROVE  BaseKnown'
<1>0. Typed /\ job \in Jobs
  BY DEF FInv, Typed
<1>1. job' = job
  BY JobKept
<1>2. ko' = ko /\ layout' = layout /\ Core(ko)' = Core(ko)
  BY <1>1, HomeKept DEF Core
<1>3. CASE LoadKo /\ phase' = "extend"
  <2>1. PICK n : n = requested[Min(Anchors)]
    BY Zenon
  <2>2. PICK b : b = base'
    BY Zenon
  <2>3. /\ Anchors # {}
        /\ b = nodes[lookup(n)].address - (layout.offsets[ko.symbols[KoSymbol(n)].shndx] + ko.symbols[KoSymbol(n)].value)
    BY Zenon, <1>3, <2>1, <2>2 DEF LoadKo
  <2>4. job.ko.given /\ requested \in Seq(Names)
    <3>1. phase = "ko"
      BY Zenon, <1>3 DEF LoadKo
    <3> QED BY ONLY <1>0, <3>1 DEF Typed
  <2>5. n \in Names \ {NoName} /\ lookup(n) # 0 /\ ko.symbols[KoSymbol(n)].shndx \in DOMAIN layout.offsets
        /\ \E i \in DOMAIN ko.symbols : ko.symbols[i].name = n
    BY Zenon, <1>0, <2>1, <2>3, <2>4, AnchorFound
  <2>6. /\ b % PageSize = 0 /\ b # 0
        /\ DOMAIN ko.kernel = Core(ko) /\ \A i \in Core(ko) : ko.kernel[i] = b + layout.offsets[i]
    BY Zenon, <1>0, <2>3, <2>4, <2>5, BaseFound
  <2> QED BY <1>2, <2>2, <2>6 DEF BaseKnown
<1>4. CASE /\ base' = base
           /\ phase \in {"extend", "slots", "thunks", "dump", "build", "built"}
  BY <1>1, <1>2, <1>4 DEF BaseKnown
<1>5. CASE phase' \notin {"extend", "slots", "thunks", "dump", "build", "built"} \/ ~job.ko.given
  BY <1>1, <1>5 DEF BaseKnown
<1>6. \/ LoadKo /\ phase' = "extend"
      \/ base' = base /\ phase \in {"extend", "slots", "thunks", "dump", "build", "built"}
      \/ phase' \notin {"extend", "slots", "thunks", "dump", "build", "built"} \/ ~job.ko.given
  BY DEF ResolveStep, LoadGraph, ReadLists, CheckOwner, ResolveName, EndResolve, LoadKo, ExtendClosure, Classify,
         RebuildSlots, BuildThunkPages, DumpSymbols
<1> QED BY <1>3, <1>4, <1>5, <1>6

\* The slots stay on the symbols that RebuildSlots found by name.
LEMMA SlotsStep ==
  ASSUME FInv, OneKernel, SlotsKept, ResolveStep
  PROVE  SlotsKept'
<1>0. Typed /\ Targets /\ Grown
  BY StepGrown DEF FInv
<1>1. job' = job /\ DataRelocs' = DataRelocs /\ \A e : TargetName(e)' = TargetName(e)
  BY JobKept
<1>2. CASE RebuildSlots /\ phase' = "thunks"
  <2>1. /\ phase = "slots" /\ resolved' = resolved /\ \A r \in DOMAIN DataRelocs : DataRelocs[r].abs64
        /\ slots' = [r \in DOMAIN DataRelocs |->
                       [offset |-> DataRelocs[r].offset, symbol |-> NamedHere(TargetName(DataRelocs[r])),
                        addend |-> DataRelocs[r].addend]]
    BY <1>2 DEF RebuildSlots
  <2>2. ASSUME NEW r \in DOMAIN DataRelocs
        PROVE  /\ NamedHere(TargetName(DataRelocs[r])) \in DOMAIN resolved
               /\ resolved[NamedHere(TargetName(DataRelocs[r]))].name = TargetName(DataRelocs[r])
    <3>1. TargetName(DataRelocs[r]) \in ResolvedNames
      BY <1>0, <2>1 DEF Targets
    <3>2. \E i \in DOMAIN resolved : resolved[i].name = TargetName(DataRelocs[r])
      BY <3>1 DEF ResolvedNames
    <3> QED BY <3>2 DEF NamedHere
  <2> QED BY <1>1, <2>1, <2>2 DEF SlotsKept
<1>3. CASE slots' = slots /\ phase \in {"thunks", "dump", "build", "built"}
  <2>1. CASE job.ko.given
    <3>1. /\ DOMAIN slots = DOMAIN DataRelocs
          /\ \A r \in DOMAIN slots :
               /\ slots[r].offset = DataRelocs[r].offset /\ slots[r].addend = DataRelocs[r].addend
               /\ slots[r].symbol \in DOMAIN resolved /\ resolved[slots[r].symbol].name = TargetName(DataRelocs[r])
      BY <1>3, <2>1 DEF SlotsKept
    <3>2. ASSUME NEW r \in DOMAIN slots
          PROVE  /\ slots[r].symbol \in DOMAIN resolved'
                 /\ resolved'[slots[r].symbol].name = TargetName(DataRelocs[r])
      <4>1. slots[r].symbol \in DOMAIN resolved /\ resolved[slots[r].symbol].name = TargetName(DataRelocs[r])
        BY <3>1
      <4> PICK i : i = slots[r].symbol
        OBVIOUS
      <4>2. i \in DOMAIN resolved' /\ Kept(resolved[i], resolved'[i])
        BY <1>0, <4>1 DEF Grown
      <4> QED BY <4>1, <4>2 DEF Kept
    <3> QED BY <1>1, <1>3, <3>1, <3>2 DEF SlotsKept
  <2>2. CASE ~job.ko.given
    BY <1>1, <2>2 DEF SlotsKept
  <2> QED BY <2>1, <2>2
<1>4. CASE phase' \notin {"thunks", "dump", "build", "built"} \/ ~job.ko.given
  BY <1>1, <1>4 DEF SlotsKept
<1>5. \/ RebuildSlots /\ phase' = "thunks"
      \/ slots' = slots /\ phase \in {"thunks", "dump", "build", "built"}
      \/ phase' \notin {"thunks", "dump", "build", "built"} \/ ~job.ko.given
  BY DEF ResolveStep, LoadGraph, ReadLists, CheckOwner, ResolveName, EndResolve, LoadKo, ExtendClosure, Classify,
         RebuildSlots, BuildThunkPages, DumpSymbols
<1> QED BY <1>2, <1>3, <1>4, <1>5

\* While the builder runs, what it got stays.
LEMMA SlotFrame ==
  ASSUME SymbolsHome, BaseKnown, SlotsKept, phase' = phase \/ (phase = "build" /\ phase' = "built"),
         UNCHANGED << job, resolved, base, slots >>
  PROVE  SymbolsHome' /\ BaseKnown' /\ SlotsKept'
<1>1. /\ ko' = ko /\ layout' = layout /\ DataRelocs' = DataRelocs
      /\ \A e : TargetName(e)' = TargetName(e)
      /\ \A s : AtHome(s)' <=> AtHome(s)
  BY HomeKept
<1>2. Core(ko)' = Core(ko)
  BY <1>1 DEF Core
<1>3. SymbolsHome'
  BY <1>1 DEF SymbolsHome
<1>4. BaseKnown'
  BY <1>1, <1>2 DEF BaseKnown
<1>5. SlotsKept'
  BY <1>1 DEF SlotsKept
<1> QED BY <1>3, <1>4, <1>5

\* With BuildInv, the tables that the builder writes and the three facts above.
SlotInv == BuildInv /\ SlotTables /\ SymbolsHome /\ BaseKnown /\ SlotsKept

LEMMA SlotInvStep ==
  ASSUME SlotInv, OneKernel, InThatKernel, [BuildNext]_<< fvars, lvars >>
  PROVE  SlotInv'
<1>0. FInv /\ IInv /\ SlotTables /\ SymbolsHome /\ BaseKnown /\ SlotsKept
  BY DEF SlotInv, BuildInv
<1>1. BuildInv'
  BY BuildInvStep DEF SlotInv
<1>2. CASE ResolveStep /\ UNCHANGED lvars
  BY <1>0, <1>1, <1>2, SlotTablesStep, HomeStep, BaseStep, SlotsStep DEF SlotInv
<1>3. CASE StartBuilder
  <2>1. BuilderStep
    BY <1>0, <1>3, HandedType DEF StartBuilder, BuilderStep
  <2>2. SymbolsHome' /\ BaseKnown' /\ SlotsKept'
    BY <1>0, <1>3, SlotFrame DEF StartBuilder
  <2> QED BY <1>0, <1>1, <2>1, <2>2, SlotTablesStep DEF SlotInv
<1>4. CASE LayoutStep /\ UNCHANGED fvars
  <2>1. SymbolsHome' /\ BaseKnown' /\ SlotsKept'
    BY <1>0, <1>4, SlotFrame DEF fvars
  <2> QED BY <1>0, <1>1, <1>4, <2>1, SlotTablesStep DEF SlotInv, BuilderStep
<1>5. CASE UNCHANGED << fvars, lvars >>
  <2>1. SymbolsHome' /\ BaseKnown' /\ SlotsKept'
    BY <1>0, <1>5, SlotFrame DEF fvars
  <2> QED BY <1>0, <1>1, <1>5, <2>1, SlotTablesStep DEF SlotInv
<1> QED BY <1>2, <1>3, <1>4, <1>5 DEF BuildNext

LEMMA SlotInvInit == BuildInit => SlotInv
<1> SUFFICES ASSUME BuildInit PROVE SlotInv
  OBVIOUS
<1>1. BuildInv /\ pc = "idle" /\ phase = "load" /\ resolved = << >>
  BY BuildInvInit DEF BuildInit, LayoutInit
<1>2. SymbolsHome /\ BaseKnown /\ SlotsKept
  BY <1>1 DEF SymbolsHome, BaseKnown, SlotsKept
<1>3. SlotTables
  BY <1>1 DEF SlotTables, Laid, SizesKnown
<1> QED BY <1>1, <1>2, <1>3 DEF SlotInv

\* The symbols of the library are the resolved ones, and all of them that are defined
\* keep the address that they have in the kernel.
LEMMA BuiltSymbols ==
  ASSUME SlotInv, SizesKnown
  PROVE  /\ phase = "built" /\ args = Handed /\ DOMAIN symbols = DOMAIN resolved
         /\ DOMAIN args.symbols = DOMAIN resolved
         /\ \A i \in DOMAIN symbols :
              /\ symbols[i].name = resolved[i].name /\ symbols[i].defined = resolved[i].defined
              /\ symbols[i].func = resolved[i].func
              /\ symbols[i].defined =>
                   symbols[i].address = resolved[i].address /\ symbols[i].address # 0 /\ AtHome(resolved[i])
<1>0. HandedOver /\ Origin /\ SymbolsHome
  BY DEF SlotInv, BuildInv
<1>1. phase = "built" /\ args = Handed /\ pc # "idle"
  BY <1>0 DEF HandedOver, SizesKnown
<1>2. /\ DOMAIN Handed.symbols = DOMAIN resolved
      /\ \A i \in DOMAIN resolved : /\ Handed.symbols[i].name = resolved[i].name
                                    /\ Handed.symbols[i].defined = resolved[i].defined
                                    /\ Handed.symbols[i].func = resolved[i].func
                                    /\ Handed.symbols[i].address = resolved[i].address
  BY DEF Handed
<1>3. /\ DOMAIN symbols = DOMAIN args.symbols
      /\ \A i \in DOMAIN symbols :
           /\ symbols[i].name = args.symbols[i].name /\ symbols[i].defined = args.symbols[i].defined
           /\ symbols[i].func = args.symbols[i].func
           /\ args.symbols[i].defined /\ args.symbols[i].address # 0 => symbols[i].address = args.symbols[i].address
  BY <1>0, <1>1 DEF Origin
<1>4. \A i \in DOMAIN resolved : resolved[i].defined => AtHome(resolved[i]) /\ resolved[i].address # 0
  BY <1>0 DEF SymbolsHome, AtHome
<1> QED BY <1>1, <1>2, <1>3, <1>4

\* The builder counts addresses from the page that rw_base_vaddr counts from.
LEMMA SameTextMin ==
  ASSUME SlotInv, SizesKnown
  PROVE  text_min_page = BuildTextMin /\ text_min_page % PageSize = 0 /\ text_min_page \in Nat
<1>0. LayoutTypeOK /\ SizesSet /\ SlotTables
  BY DEF SlotInv, BuildInv, IInv, Shaped
<1>1. text_min_page % PageSize = 0 /\ text_min_page \in Nat
  BY <1>0, TypeFacts DEF SizesSet
<1>2. text_min_page = TextMinPage(symbols)
  BY <1>0 DEF SlotTables
<1> DEFINE HasAddress(i) == resolved[i].defined /\ resolved[i].address # 0
           funcs == {i \in DOMAIN resolved : HasAddress(i) /\ resolved[i].func}
           all   == {i \in DOMAIN resolved : HasAddress(i)}
           some  == IF funcs # {} THEN funcs ELSE all
           anchors == IF Code # {} THEN Code ELSE Defined
<1>3. /\ DOMAIN symbols = DOMAIN resolved
      /\ \A i \in DOMAIN symbols :
           /\ symbols[i].defined = resolved[i].defined /\ symbols[i].func = resolved[i].func
           /\ symbols[i].defined => symbols[i].address = resolved[i].address /\ symbols[i].address # 0
  BY BuiltSymbols
<1>4. funcs = Code /\ all = Defined
  BY <1>3 DEF Code, Defined
<1>5. BuildTextMin = IF some = {} THEN TextBase ELSE align_down(Min({resolved[i].address : i \in some}))
  BY DEF BuildTextMin
<1>6. TextMinPage(symbols) = IF anchors = {} THEN TextBase ELSE align_down(Min({symbols[i].address : i \in anchors}))
  BY DEF TextMinPage
<1>7. some = anchors
  BY <1>4
<1>8. \A i \in anchors : symbols[i].address = resolved[i].address
  BY <1>3 DEF Code, Defined
<1> HIDE DEF some, anchors
<1>9. {symbols[i].address : i \in anchors} = {resolved[i].address : i \in some}
  BY <1>7, <1>8
<1>10. BuildTextMin = TextMinPage(symbols)
  BY <1>5, <1>6, <1>7, <1>9
<1> QED BY <1>1, <1>2, <1>10

\* .data of the library starts where the kernel has the module's data.
LEMMA DataStart ==
  ASSUME SlotInv, Laid, job.ko.given
  PROVE  placed["rw"][1].addr = TextBase + (base + layout.data_start - text_min_page)
<1>0. /\ LayoutTypeOK /\ PlacedRight /\ InMemory /\ BaseKnown /\ SizesKnown /\ job \in Jobs /\ base \in Nat
  BY DEF SlotInv, BuildInv, IInv, Shaped, FInv, Typed, SizesKnown, Laid
<1>1. phase = "built" /\ args = Handed
  BY <1>0, BuiltSymbols
<1>2. args.based /\ args.rw_base = rw_base_vaddr
  BY <1>1 DEF Handed
<1>3. placed["rw"] # << >>
  BY <1>0, RwFacts DEF PlacedRight, Laid
<1>4. placed["rw"][1].addr = PageUp(args.rw_base)
  BY <1>0, <1>2, <1>3 DEF InMemory, PrivateAt
<1>5. base % PageSize = 0
  BY <1>0, <1>1 DEF BaseKnown
<1>6. PICK d \in Nat : d = layout.data_start /\ d % PageSize = 0
  BY <1>0, KoFacts, LayoutFacts DEF layout
<1>7. PICK t \in Nat : t = text_min_page /\ t = BuildTextMin /\ t % PageSize = 0
  BY <1>0, SameTextMin
<1>8. rw_base_vaddr = TextBase + (base + d - t)
  BY <1>6, <1>7 DEF rw_base_vaddr
<1>9. PageUp(TextBase + (base + d - t)) = TextBase + (base + d - t)
  <2>1. \A x, y, z \in Nat :
          x % PageSize = 0 /\ y % PageSize = 0 /\ z % PageSize = 0 => (TextBase + (x + y - z)) % PageSize = 0
    BY DEF PageSize, TextBase
  <2>2. \A x \in Int : x % PageSize = 0 => PageUp(x) = x
    BY DEF PageUp, align, PageSize
  <2>3. TextBase + (base + d - t) \in Int
    BY <1>0 DEF TextBase
  <2> QED BY <1>0, <1>5, <1>6, <1>7, <2>1, <2>2, <2>3
<1> QED BY <1>2, <1>4, <1>6, <1>7, <1>8, <1>9

\* Each relocation that is read is one of the relocations of .data.
LEMMA RelocListed ==
  ASSUME job \in Jobs, job.ko.given, NEW e \in ToSet(ko.relas), Read(e)
  PROVE  /\ e.offset \in Nat /\ e.sym \in DOMAIN ko.symbols
         /\ \E r \in DOMAIN DataRelocs :
              /\ DataRelocs[r].offset = layout.offsets[e.info] - layout.data_start + e.offset
              /\ DataRelocs[r].addend = e.addend /\ DataRelocs[r].sym = e.sym
<1> DEFINE S == {r \in DOMAIN ko.relas : Read(ko.relas[r])}
           kept == InOrder(S)
           Moved(r) == [ko.relas[r] EXCEPT !.offset = layout.offsets[ko.relas[r].info] - layout.data_start + @]
<1>1. PICK i \in DOMAIN ko.relas : ko.relas[i] = e
  BY DEF ToSet
<1>2. e \in Rela /\ e.sym \in DOMAIN ko.symbols
  BY <1>1, KoFacts
<1>3. i \in S
  BY <1>1
<1>4. PICK n \in DOMAIN kept : kept[n] = i
  <2>1. S \in SUBSET (1 .. Len(ko.relas)) /\ Len(ko.relas) \in Nat
    BY KoFacts
  <2> HIDE DEF S
  <2> QED BY <1>3, <2>1, OrderFacts
<1>5. DataRelocs = [k \in DOMAIN kept |-> Moved(kept[k])]
  BY DEF DataRelocs
<1> HIDE DEF kept
<1>6. n \in DOMAIN DataRelocs /\ DataRelocs[n] = Moved(i)
  BY <1>4, <1>5
<1>7. Moved(i) = [e EXCEPT !.offset = layout.offsets[e.info] - layout.data_start + @]
  BY <1>1
<1> HIDE DEF Moved
<1>8. \A x : LET m == [e EXCEPT !.offset = x + @] IN m.offset = x + e.offset /\ m.addend = e.addend /\ m.sym = e.sym
  BY <1>2 DEF Rela
<1>9. /\ Moved(i).offset = layout.offsets[e.info] - layout.data_start + e.offset
      /\ Moved(i).addend = e.addend /\ Moved(i).sym = e.sym
  BY <1>7, <1>8
<1>10. e.offset \in Nat
  BY <1>2 DEF Rela
<1> QED BY <1>2, <1>6, <1>9, <1>10

\* What is named like the target of a relocation and is at home is the target.
LEMMA HomeIsTarget ==
  ASSUME job \in Jobs, job.ko.given, OneKernel, InThatKernel, DOMAIN ko.kernel = Core(ko),
         NEW e, e.sym \in DOMAIN ko.symbols, NEW s, AtHome(s), s.name = TargetName(e)
  PROVE  Gone(e) \/ s.address = KernelTarget(e)
<1> PICK t : t = Target(e)
  OBVIOUS
<1>1. t \in ToSet(ko.symbols)
  BY DEF Target, ToSet
<1>2. \A f : TargetName(f) = NameIn(ko, Target(f))
  BY DEF TargetName, NameIn, IsUndef
<1>3. CASE \E m \in DOMAIN nodes : s.name = nodes[m].name /\ s.address = nodes[m].address
  <2>1. PICK m \in DOMAIN nodes : s.name = nodes[m].name /\ s.address = nodes[m].address
    BY <1>3
  <2>2. lookup(s.name) = m
    BY <2>1, LookupOne DEF OneKernel
  <2>3. CASE IsUndef(e)
    BY <2>1, <2>2, <2>3 DEF KernelTarget
  <2>4. CASE ~IsUndef(e) /\ t.shndx \in DOMAIN ko.kernel
    <3>1. nodes[m] \in ToSet(nodes) /\ nodes[m].name = NameIn(ko, t)
      BY <1>2, <2>1 DEF ToSet
    <3>2. nodes[m].address = ko.kernel[t.shndx] + t.value
      BY <1>1, <2>4, <3>1 DEF InThatKernel, NodesLoaded, ko, nodes, krg
    <3> QED BY <2>1, <2>4, <3>2 DEF KernelTarget
  <2>5. CASE ~IsUndef(e) /\ t.shndx \notin DOMAIN ko.kernel
    BY <2>5 DEF Gone
  <2> QED BY <2>3, <2>4, <2>5
<1>4. CASE \E f \in ToSet(DataRelocs) : ~IsUndef(f) /\ s.name = TargetName(f) /\ (Gone(f) \/ s.address = KernelTarget(f))
  <2>1. PICK f \in ToSet(DataRelocs) : ~IsUndef(f) /\ s.name = TargetName(f) /\ (Gone(f) \/ s.address = KernelTarget(f))
    BY <1>4
  <2>2. f.sym \in DOMAIN ko.symbols
    BY DataRelocFacts DEF OneKernel, ToSet
  <2>3. Target(f) \in ToSet(ko.symbols)
    BY <2>2 DEF Target, ToSet
  <2>4. NameIn(ko, Target(f)) = NameIn(ko, t)
    BY <1>2, <2>1
  <2>5. Target(f).shndx = t.shndx /\ Target(f).value = t.value
    BY <1>1, <2>3, <2>4 DEF InThatKernel, OneTarget, ko
  <2> QED BY <2>1, <2>5 DEF IsUndef, Gone, KernelTarget
<1> QED BY <1>3, <1>4 DEF AtHome

\* Of a finished library, the invariant says where its slots stand and lead.
LEMMA SlotsNow ==
  ASSUME SlotInv, OneKernel, InThatKernel
  PROVE  SlotsInPlace
<1> SUFFICES ASSUME Laid, job.ko.given, NEW e \in ToSet(ko.relas), Read(e)
             PROVE  \E r \in DOMAIN rela :
                      LET sym == symbols[dynamic_symbols[rela[r].index]] IN
                      /\ rela[r].offset = virtual_address(ko.kernel[e.info] + e.offset)
                      /\ rela[r].addend = e.addend
                      /\ sym.name = TargetName(e)
                      /\ IF sym.defined THEN Gone(e) \/ sym.address = KernelTarget(e) ELSE sym.name \in shim_symbols
  BY DEF SlotsInPlace, Filled
<1>0. /\ SizesKnown /\ IInv /\ Origin /\ SlotTables /\ BaseKnown /\ SlotsKept /\ Judged /\ job \in Jobs /\ base \in Nat
  BY DEF SlotInv, BuildInv, FInv, Typed, SizesKnown, Laid
<1>1. /\ phase = "built" /\ args = Handed /\ DOMAIN symbols = DOMAIN resolved /\ DOMAIN args.symbols = DOMAIN resolved
      /\ \A i \in DOMAIN symbols :
           /\ symbols[i].name = resolved[i].name /\ symbols[i].defined = resolved[i].defined
           /\ symbols[i].defined => symbols[i].address = resolved[i].address /\ AtHome(resolved[i])
  BY <1>0, BuiltSymbols
<1>2. args.relocations = slots
  BY <1>1 DEF Handed
<1>3. PICK r \in DOMAIN DataRelocs :
        /\ DataRelocs[r].offset = layout.offsets[e.info] - layout.data_start + e.offset
        /\ DataRelocs[r].addend = e.addend /\ DataRelocs[r].sym = e.sym
  BY <1>0, RelocListed
<1>4. e.offset \in Nat /\ e.sym \in DOMAIN ko.symbols
  BY <1>0, RelocListed
<1>5. TargetName(DataRelocs[r]) = TargetName(e)
  BY <1>3 DEF TargetName, Target, IsUndef
<1>6. /\ r \in DOMAIN slots /\ slots[r].offset = DataRelocs[r].offset /\ slots[r].addend = DataRelocs[r].addend
      /\ slots[r].symbol \in DOMAIN resolved /\ resolved[slots[r].symbol].name = TargetName(DataRelocs[r])
  BY <1>0, <1>1 DEF SlotsKept
<1>7. /\ r \in DOMAIN rela /\ rela[r].offset = placed["rw"][1].addr + slots[r].offset
      /\ rela[r].addend = slots[r].addend
      /\ dynamic_symbols[rela[r].index] = slots[r].symbol
  BY <1>0, <1>1, <1>2, <1>6, EntryNames
<1>8. rela[r].offset = virtual_address(ko.kernel[e.info] + e.offset)
  <2>1. /\ placed["rw"][1].addr = TextBase + (base + layout.data_start - text_min_page)
        /\ text_min_page \in Nat
    BY <1>0, DataStart, SameTextMin
  <2>2. layout.data_start \in Nat /\ layout.offsets[e.info] \in Nat /\ e.info \in Core(ko)
    <3>1. e.info \in Core(ko)
      BY DEF Read, DataSecs
    <3> QED BY <1>0, <3>1, CoreFacts, CoreIs
  <2>3. ko.kernel[e.info] = base + layout.offsets[e.info]
    BY <1>0, <1>1, <2>2 DEF BaseKnown
  <2> PICK a \in Nat, d \in Nat, o \in Nat, t \in Nat :
        a = layout.offsets[e.info] /\ d = layout.data_start /\ o = e.offset /\ t = text_min_page
    BY <1>4, <2>1, <2>2
  <2>4. rela[r].offset = (TextBase + (base + d - t)) + (a - d + o)
    BY <1>3, <1>6, <1>7, <2>1
  <2>5. virtual_address(ko.kernel[e.info] + e.offset) = TextBase + (base + a + o - t)
    <3>1. ko.kernel[e.info] = base + a
      BY <2>3
    <3>2. \A x, u, v, w, z \in Int : x + (((u + v) + w) - z) = x + (u + v + w - z)
      OBVIOUS
    <3>3. TextBase \in Int /\ base \in Int /\ a \in Int /\ o \in Int /\ t \in Int
      BY <1>0 DEF TextBase
    <3> QED BY <3>1, <3>2, <3>3 DEF virtual_address
  <2>6. (TextBase + (base + d - t)) + (a - d + o) = TextBase + (base + a + o - t)
    <3>1. \A x, u, v, w, z, y \in Int : (x + (u + v - w)) + (z - v + y) = x + (u + z + y - w)
      OBVIOUS
    <3> QED BY <1>0, <3>1 DEF TextBase
  <2> QED BY <2>4, <2>5, <2>6
<1> PICK i : i = slots[r].symbol
  OBVIOUS
<1>9. /\ i \in DOMAIN symbols /\ symbols[i].name = TargetName(e) /\ dynamic_symbols[rela[r].index] = i
  BY <1>1, <1>5, <1>6, <1>7
<1>10. CASE symbols[i].defined
  <2>1. AtHome(resolved[i]) /\ resolved[i].name = TargetName(e) /\ symbols[i].address = resolved[i].address
    BY <1>1, <1>9, <1>10
  <2>2. DOMAIN ko.kernel = Core(ko)
    BY <1>0, <1>1 DEF BaseKnown
  <2>3. Gone(e) \/ symbols[i].address = KernelTarget(e)
    BY <1>0, <1>4, <2>1, <2>2, HomeIsTarget
  <2> QED BY <1>3, <1>6, <1>7, <1>8, <1>9, <1>10, <2>3
<1>11. CASE ~symbols[i].defined
  <2>1. symbols[i].name \in shim_symbols
    BY <1>0, <1>1, <1>9, <1>11 DEF Judged
  <2> QED BY <1>3, <1>6, <1>7, <1>8, <1>9, <1>11, <2>1
<1> QED BY <1>10, <1>11

-----------------------------------------------------------------------------
(* The theorems *)

LEMMA ClosurePagedNow ==
  ASSUME BuildInv
  PROVE  ClosurePaged
<1> SUFFICES ASSUME pc = "done" PROVE ClosurePaged
  BY DEF ClosurePaged
<1>0. Typed /\ Asked /\ Complete /\ Judged /\ CalleesThere /\ IInv /\ Origin /\ HandedOver
  BY DEF BuildInv, FInv
<1>1. phase = "built" /\ args = Handed
  BY <1>0 DEF HandedOver
<1>2. /\ DOMAIN symbols = DOMAIN resolved
      /\ \A i \in DOMAIN symbols : /\ symbols[i].name = resolved[i].name /\ symbols[i].defined = resolved[i].defined
                                   /\ symbols[i].exported = resolved[i].exported
  <2>1. /\ DOMAIN symbols = DOMAIN args.symbols
        /\ \A i \in DOMAIN symbols : /\ symbols[i].name = args.symbols[i].name
                                     /\ symbols[i].defined = args.symbols[i].defined
                                     /\ symbols[i].exported = args.symbols[i].exported
    BY <1>0 DEF Origin
  <2>2. /\ DOMAIN Handed.symbols = DOMAIN resolved
        /\ \A i \in DOMAIN resolved : /\ Handed.symbols[i].name = resolved[i].name
                                      /\ Handed.symbols[i].defined = resolved[i].defined
                                      /\ Handed.symbols[i].exported = resolved[i].exported
    BY DEF Handed
  <2> QED BY <1>1, <2>1, <2>2
<1>3. ASSUME NEW n \in ToSet(requested) \ missing
      PROVE  \E i \in DOMAIN symbols : symbols[i].name = n /\ symbols[i].defined /\ symbols[i].exported
  <2>1. PICK i \in DOMAIN resolved : resolved[i].name = n /\ resolved[i].exported
    BY <1>0, <1>1, <1>3 DEF Asked
  <2>2. n \notin shim_symbols
    BY <1>0, <1>3 DEF Typed
  <2>3. resolved[i].defined
    BY <1>0, <2>1, <2>2 DEF Judged
  <2> QED BY <1>2, <2>1, <2>3
<1>4. ASSUME NEW m, nodes[m].name \in ResolvedNames PROVE Linked(m)
  <2>1. PICK j \in DOMAIN resolved : resolved[j].name = nodes[m].name
    BY <1>4 DEF ResolvedNames
  <2>2. resolved[j].defined <=> resolved[j].name \notin shim_symbols
    BY <1>0 DEF Judged
  <2>3. {e.page : e \in page_map} = (UNION {PagesOf(symbols[i]) : i \in Code \cup Rodata}) \ args.synthetic
    BY <1>0, MapExactNow DEF MapExact
  <2>4. j \in Code \cup Rodata => PagesOf(symbols[j]) \subseteq UNION {PagesOf(symbols[i]) : i \in Code \cup Rodata}
    OBVIOUS
  <2>5. j \in Code \cup Rodata => PagesOf(symbols[j]) \subseteq Mapped
    BY <2>3, <2>4 DEF Mapped
  <2> QED BY <1>2, <2>1, <2>2, <2>5 DEF Linked
<1>5. ASSUME NEW n \in ToSet(requested) \ missing, NEW m \in ReachedFrom(lookup(n)) PROVE Linked(m)
  <2>1. ReachIn(n)
    BY <1>0, <1>1, <1>5 DEF Complete
  <2>2. ReachedFrom(lookup(n)) = closure(lookup(n), shim_symbols)
    BY DEF ReachedFrom, closure
  <2> QED BY <1>4, <1>5, <2>1, <2>2 DEF ReachIn
<1>6. ASSUME NEW i \in Defined, symbols[i].name \notin SlotNames, NEW m \in krg.edges[lookup(symbols[i].name)]
      PROVE  Linked(m)
  <2>1. i \in DOMAIN resolved /\ resolved[i].defined /\ resolved[i].name = symbols[i].name
    BY <1>2, <1>6 DEF Defined
  <2>2. nodes[m].name \in ResolvedNames
    BY <1>0, <1>6, <2>1 DEF CalleesThere
  <2> QED BY <1>4, <2>2
<1> QED BY <1>3, <1>5, <1>6 DEF ClosurePaged

LEMMA BuildInvAlways == ASSUME OneKernel PROVE BuildSpec => []BuildInv
  BY BuildInvInit, BuildInvStep, PTL DEF BuildSpec

\* Every request that the graph knows is exported from a finished library and all that
\* it reaches in the graph is linked, as an import or defined; so is what any symbol
\* refers to, but for those that only a slot of .data names. Functions and recognised
\* read-only data have all their pages; other data has none. This is so for any graph,
\* lists and module that come from one kernel.
THEOREM ClosureIsPaged == ASSUME OneKernel PROVE BuildSpec => []ClosurePaged
<1>1. BuildSpec => []BuildInv
  BY BuildInvAlways
<1> QED BY <1>1, ClosurePagedNow, PTL

\* What build_shared_object hands to the builder is what the builder is made for:
\* the page map of the library is faithful and exact, the hash table is right and finds
\* every symbol if the dynamic linker takes its number of words, the file can be mapped,
\* and its segments are apart unless a read-only object lies on a page of synthetic
\* thunks.
THEOREM BuildKeepsLayout ==
  ASSUME OneKernel
  PROVE  BuildSpec => []( /\ MapFaithful /\ MapExact /\ HashLookup /\ Loadable
                          /\ DataOffThunks(args) => ApartInMemory )
<1>1. BuildInv => MapFaithful /\ MapExact /\ HashLookup /\ Loadable
  BY MapFaithfulNow, MapExactNow, HashRightSuffices, LoadableNow DEF BuildInv
<1>2. BuildInv => (DataOffThunks(args) => ApartInMemory)
  <2> SUFFICES ASSUME BuildInv, DataOffThunks(args), pc = "done" PROVE ApartInMemory
    BY DEF ApartInMemory
  <2> QED BY DataStaysApart, ApartNow DEF BuildInv
<1>3. BuildSpec => []BuildInv
  BY BuildInvAlways
<1> QED BY <1>1, <1>2, <1>3, PTL

\* A slot of .data whose relocation is read stands where the kernel has it relative to
\* the module's code, and ld.so fills it with the import of its name or with the address
\* of what the kernel has there, after all the sorting of .dynsym: for any module and
\* graph of one kernel in which the loader has placed the module by its rules and has
\* kept what KoFile takes for the core. It says nothing of sections whose name has no
\* dot in front, nor of a kernel that keeps .exit.text (CoreKept).
THEOREM SlotsAreInPlace == ASSUME OneKernel, InThatKernel PROVE BuildSpec => []SlotsInPlace
<1>1. SlotInv /\ [BuildNext]_<< fvars, lvars >> => SlotInv'
  BY SlotInvStep
<1>2. SlotInv => SlotsInPlace
  BY SlotsNow
<1> QED BY <1>1, <1>2, SlotInvInit, PTL DEF BuildSpec
=============================================================================
