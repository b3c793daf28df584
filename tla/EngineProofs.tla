---------------------------- MODULE EngineProofs ----------------------------
(***************************************************************************)
(* What is proved about the allocation engine and the design it ends in,   *)
(* for any instruments, anchors, scans, markets and days: that no strategy *)
(* holds two funds of one index, and that its anchors outlive the passes.  *)
(***************************************************************************)
EXTENDS DesignFinish, FiniteSetTheorems, WellFoundedInduction, TLAPS

-----------------------------------------------------------------------------
(***************************************************************************)
(* Orders.  Sorted takes, for each place, the element that has as many     *)
(* others before it; in a finite set ordered by scores, and by a number    *)
(* where they are equal, there is one for each place.                      *)
(***************************************************************************)

\* An induction up to n, as a fact about sets: what is in P at 0 and stays in it from
\* each number to the next is in it up to n.
LEMMA UpTo ==
    ASSUME NEW n \in Nat, NEW P, 0 \in P, \A k \in 1 .. n : k - 1 \in P => k \in P
    PROVE  0 .. n \subseteq P
<1> DEFINE R == {ss \in Nat \X Nat : ss[1] < ss[2]}
           T == (0 .. n) \ P
<1>1. IsWellFoundedOn(R, Nat)
  BY NatLessThanWellFounded DEF OpToRel
<1>2. SUFFICES ASSUME T # {} PROVE FALSE
  OBVIOUS
<1>3. T \subseteq Nat
  OBVIOUS
<1>4. PICK m \in T : \A k \in T : ~ (<<k, m>> \in R)
  <2> HIDE DEF T, R
  <2> QED BY <1>1, <1>2, <1>3, WFMin
<1>5. m \in 1 .. n /\ m - 1 \in 0 .. n /\ m - 1 \in Nat /\ m \in Nat
  OBVIOUS
<1>6. m - 1 \notin T
  <2>1. <<m - 1, m>> \in Nat \X Nat /\ m - 1 < m
    BY <1>5
  <2>2. <<m - 1, m>> \in R
    BY <2>1
  <2> HIDE DEF T, R
  <2> QED BY <1>4, <2>2
<1> QED BY <1>5, <1>6

\* What comes before x in S, by falling v and then by rising t.
Before(S, v, t, x) == {y \in S : v[y] > v[x] \/ (v[y] = v[x] /\ t[y] < t[x])}
Distinct(f, S) == \A x, y \in S : f[x] = f[y] => x = y

\* The numbers of those before are different, and smaller than the size of S.
LEMMA Ranks ==
    ASSUME NEW S, IsFiniteSet(S), NEW v \in [S -> Int], NEW t \in [S -> Int], Distinct(t, S)
    PROVE  /\ Cardinality(S) \in Nat
           /\ \A x \in S : Cardinality(Before(S, v, t, x)) \in 0 .. Cardinality(S) - 1
           /\ \A x, y \in S :
                 Cardinality(Before(S, v, t, x)) = Cardinality(Before(S, v, t, y)) => x = y
<1> DEFINE B(x) == Before(S, v, t, x)
<1>1. Cardinality(S) \in Nat
  BY FS_CardinalityType
<1>2. \A x \in S : B(x) \in SUBSET S /\ x \notin B(x)
  BY DEF Before
<1>3. \A x, y \in S : x # y => \/ x \in B(y) /\ B(x) \subseteq B(y)
                               \/ y \in B(x) /\ B(y) \subseteq B(x)
  BY DEF Before, Distinct
<1>4. \A x \in S : IsFiniteSet(B(x)) /\ Cardinality(B(x)) \in Nat
  <2> HIDE DEF B
  <2> QED BY <1>2, FS_Subset, FS_CardinalityType
<1>5. ASSUME NEW x \in S PROVE Cardinality(B(x)) \in 0 .. Cardinality(S) - 1
  <2> HIDE DEF B
  <2>1. Cardinality(B(x)) <= Cardinality(S) /\ (Cardinality(S) = Cardinality(B(x)) => S = B(x))
    BY <1>2, FS_Subset
  <2>2. Cardinality(S) # Cardinality(B(x))
    BY <2>1, <1>2
  <2> QED BY <2>1, <2>2, <1>1, <1>4
<1>6. ASSUME NEW x \in S, NEW y \in S, Cardinality(B(x)) = Cardinality(B(y)), x # y PROVE FALSE
  <2> HIDE DEF B
  <2>1. \A a, b \in S : a \in B(b) /\ B(a) \subseteq B(b) /\ Cardinality(B(a)) = Cardinality(B(b))
                           => FALSE
    <3>1. SUFFICES ASSUME NEW a \in S, NEW b \in S, a \in B(b), B(a) \in SUBSET B(b),
                          Cardinality(B(b)) = Cardinality(B(a))
                   PROVE  FALSE
      OBVIOUS
    <3>2. IsFiniteSet(B(b))
      BY <1>4
    <3>3. B(b) = B(a)
      BY <3>1, <3>2, FS_Subset
    <3> QED BY <3>1, <3>3, <1>2
  <2> QED BY <2>1, <1>3, <1>6
<1> HIDE DEF B
<1>7. \A x, y \in S : Cardinality(B(x)) = Cardinality(B(y)) => x = y
  BY <1>6
<1> QED BY <1>1, <1>5, <1>7 DEF B

LEMMA RankExists ==
    ASSUME NEW S, IsFiniteSet(S), NEW v \in [S -> Int], NEW t \in [S -> Int], Distinct(t, S)
    PROVE  \A i \in 1 .. Cardinality(S) : \E x \in S : Cardinality(Before(S, v, t, x)) = i - 1
<1> DEFINE n == Cardinality(S)
           T == 0 .. n - 1
           f == [x \in S |-> Cardinality(Before(S, v, t, x))]
<1>1. n \in Nat /\ \A x \in S : f[x] \in T
  BY Ranks
<1>2. \A x, y \in S : f[x] = f[y] => x = y
  BY Ranks
<1>3. f \in Injection(S, T)
  BY <1>1, <1>2 DEF Injection, IsInjective
<1>4. IsFiniteSet(T) /\ Cardinality(T) = n
  <2> HIDE DEF n
  <2>1. 0 \in Int /\ n - 1 \in Int /\ (0 > n - 1 => n = 0)
    BY <1>1
  <2> DEFINE m == n - 1
  <2> HIDE DEF m
  <2>2. IsFiniteSet(0 .. m) /\ Cardinality(0 .. m) = IF 0 > m THEN 0 ELSE m - 0 + 1
    BY <2>1, FS_Interval DEF m
  <2> QED BY <2>1, <2>2, <1>1 DEF m
<1>5. f \in Surjection(S, T)
  <2> HIDE DEF f, T
  <2> QED BY <1>3, <1>4, FS_Injection DEF n
<1>6. \A k \in T : \E x \in S : f[x] = k
  BY <1>5 DEF Surjection
<1>7. \A i \in 1 .. n : i - 1 \in T
  BY <1>1
<1> QED BY <1>6, <1>7

\* p takes each element of S once; it is chosen by the numbers of those before.
Picks(p, n, S) ==
    /\ p \in [1 .. n -> S] /\ Distinct(p, 1 .. n)
    /\ \A x \in S : \E i \in 1 .. n : p[i] = x
ByRank(p, S, v, t) ==
    /\ p = [i \in 1 .. Cardinality(S) |-> p[i]]
    /\ \A i \in 1 .. Cardinality(S) :
          (\E x \in S : Cardinality(Before(S, v, t, x)) = i - 1)
              => p[i] \in S /\ Cardinality(Before(S, v, t, p[i])) = i - 1

LEMMA SortedIsList ==
    ASSUME NEW S, IsFiniteSet(S), NEW v \in [S -> Int], NEW t \in [S -> Int], Distinct(t, S),
           NEW p, ByRank(p, S, v, t)
    PROVE  Cardinality(S) \in Nat /\ Picks(p, Cardinality(S), S)
<1> DEFINE n == Cardinality(S)  rank(x) == Cardinality(Before(S, v, t, x))
<1>1. n \in Nat /\ \A x \in S : rank(x) \in 0 .. n - 1
  BY Ranks
<1>2. \A x, y \in S : rank(x) = rank(y) => x = y
  BY Ranks
<1>3. \A i \in 1 .. n : p[i] \in S /\ rank(p[i]) = i - 1
  <2>1. \A i \in 1 .. n : \E x \in S : rank(x) = i - 1
    BY RankExists
  <2>2. \A i \in 1 .. n : (\E x \in S : rank(x) = i - 1) => p[i] \in S /\ rank(p[i]) = i - 1
    BY DEF ByRank
  <2> HIDE DEF rank, n
  <2> QED BY <2>1, <2>2
<1>33. p = [i \in 1 .. n |-> p[i]]
  BY DEF ByRank
<1> HIDE DEF n, rank
<1>4. p \in [1 .. n -> S]
  BY <1>3, <1>33
<1>5. Distinct(p, 1 .. n)
  BY <1>1, <1>3 DEF Distinct
<1>6. ASSUME NEW x \in S PROVE \E i \in 1 .. n : p[i] = x
  <2>1. rank(x) + 1 \in 1 .. n
    BY <1>1
  <2> DEFINE i == rank(x) + 1
  <2>2. i \in 1 .. n /\ i - 1 = rank(x)
    BY <2>1, <1>1
  <2> HIDE DEF i
  <2>3. p[i] \in S /\ rank(p[i]) = rank(x)
    BY <2>2, <1>3
  <2> QED BY <2>2, <2>3, <1>2
<1> QED BY <1>1, <1>4, <1>5, <1>6 DEF n, Picks

\* The first of a set that is not empty.
LEMMA FirstExists ==
    ASSUME NEW S, IsFiniteSet(S), S # {}, NEW v \in [S -> Int], NEW t \in [S -> Int], Distinct(t, S)
    PROVE  \E x \in S : \A y \in S : v[x] > v[y] \/ (v[x] = v[y] /\ t[x] <= t[y])
<1>1. Cardinality(S) \in Nat /\ Cardinality(S) # 0
  BY FS_CardinalityType, FS_EmptySet
<1>2. 1 \in 1 .. Cardinality(S) /\ 1 - 1 = 0
  BY <1>1
<1>3. PICK x \in S : Cardinality(Before(S, v, t, x)) = 0
  BY <1>2, RankExists
<1> DEFINE B == Before(S, v, t, x)
<1>4. B \in SUBSET S
  BY DEF Before
<1>5. IsFiniteSet(B)
  <2> HIDE DEF B
  <2> QED BY <1>4, FS_Subset
<1>6. B = {}
  <2> HIDE DEF B
  <2> QED BY <1>3, <1>5, FS_EmptySet DEF B
<1>7. ASSUME NEW y \in S PROVE v[x] > v[y] \/ (v[x] = v[y] /\ t[x] <= t[y])
  BY <1>6 DEF Before
<1> QED BY <1>7

LEMMA NumbersSorted ==
    ASSUME NEW S \in SUBSET Int, IsFiniteSet(S)
    PROVE  Cardinality(S) \in Nat /\ Picks(Ascending(S), Cardinality(S), S)
<1> DEFINE v == [x \in S |-> 0]  t == [x \in S |-> x]  p == Ascending(S)
           Place(i) == CHOOSE x \in S : Cardinality({y \in S : y < x}) = i - 1
<1>1. v \in [S -> Int] /\ t \in [S -> Int] /\ Distinct(t, S)
  BY DEF Distinct
<1>2. p = [i \in 1 .. Cardinality(S) |-> p[i]] /\ \A i \in 1 .. Cardinality(S) : p[i] = Place(i)
  <2>1. p = [i \in 1 .. Cardinality(S) |-> Place(i)]
    BY DEF Ascending, Sorted
  <2> HIDE DEF p, Place
  <2> QED BY <2>1
<1>3. \A x \in S : Before(S, v, t, x) = {y \in S : y < x}
  BY DEF Before
<1>4. ASSUME NEW i \in 1 .. Cardinality(S), NEW z \in S, Cardinality(Before(S, v, t, z)) = i - 1
      PROVE  p[i] \in S /\ Cardinality(Before(S, v, t, p[i])) = i - 1
  <2>1. p[i] = CHOOSE x \in S : Cardinality({y \in S : y < x}) = i - 1
    <3> HIDE DEF p
    <3> QED BY <1>2
  <2>2. Cardinality({y \in S : y < z}) = i - 1
    <3> HIDE DEF v, t
    <3> QED BY <1>3, <1>4
  <2>3. p[i] \in S /\ Cardinality({y \in S : y < p[i]}) = i - 1
    <3> HIDE DEF p
    <3> QED BY <2>1, <2>2
  <2> HIDE DEF v, t, p
  <2> QED BY <2>3, <1>3
<1> HIDE DEF v, t, p
<1>5. \A i \in 1 .. Cardinality(S) :
         (\E x \in S : Cardinality(Before(S, v, t, x)) = i - 1)
             => p[i] \in S /\ Cardinality(Before(S, v, t, p[i])) = i - 1
  BY <1>4
<1>6. ByRank(p, S, v, t)
  BY <1>2, <1>5 DEF ByRank
<1>7. Cardinality(S) \in Nat /\ Picks(p, Cardinality(S), S)
  BY <1>1, <1>6, SortedIsList
<1> QED BY <1>7 DEF p

LEMMA PickIs ==
    ASSUME NEW q, NEW I \in SUBSET Int, IsFiniteSet(I)
    PROVE  \E n \in Nat : \E f : Picks(f, n, I) /\ Pick(q, I) = [i \in 1 .. n |-> q[f[i]]]
<1> DEFINE n == Cardinality(I)  f == Ascending(I)
<1>1. n \in Nat /\ Picks(f, n, I) /\ DOMAIN f = 1 .. n
  BY NumbersSorted DEF Picks
<1>2. Pick(q, I) = [i \in DOMAIN f |-> q[f[i]]]
  BY DEF Pick
<1> HIDE DEF n, f
<1> QED BY <1>1, <1>2

LEMMA DomainIsFinite ==
    ASSUME NEW n \in Nat, NEW I \in SUBSET (1 .. n)
    PROVE  I \in SUBSET Int /\ IsFiniteSet(I)
<1>1. IsFiniteSet(1 .. n)
  <2>1. 1 \in Int /\ n \in Int
    OBVIOUS
  <2> QED BY <2>1, FS_Interval
<1>2. IsFiniteSet(I)
  BY <1>1, FS_Subset
<1>3. I \in SUBSET Int
  OBVIOUS
<1> QED BY <1>2, <1>3

LEMMA PickSeq ==
    ASSUME NEW T, NEW q \in Seq(T), NEW I \in SUBSET DOMAIN q
    PROVE  Pick(q, I) \in Seq(T) /\ Elems(Pick(q, I)) = {q[i] : i \in I}
<1>1. Len(q) \in Nat /\ DOMAIN q = 1 .. Len(q) /\ \A i \in DOMAIN q : q[i] \in T
  OBVIOUS
<1>2. I \in SUBSET Int /\ IsFiniteSet(I)
  BY <1>1, DomainIsFinite
<1>3. PICK n \in Nat : \E f : Picks(f, n, I) /\ Pick(q, I) = [i \in 1 .. n |-> q[f[i]]]
  BY <1>2, PickIs
<1>4. PICK f : Picks(f, n, I) /\ Pick(q, I) = [i \in 1 .. n |-> q[f[i]]]
  BY <1>3
<1> DEFINE p == [i \in 1 .. n |-> q[f[i]]]
<1>5. \A i \in 1 .. n : f[i] \in I /\ p[i] = q[f[i]] /\ p[i] \in T
  BY <1>1, <1>4 DEF Picks
<1>6. p \in [1 .. n -> T]
  BY <1>5
<1>7. p \in Seq(T) /\ DOMAIN p = 1 .. n
  <2> HIDE DEF p
  <2> QED BY <1>6
<1> HIDE DEF p
<1>8. Elems(p) = {q[i] : i \in I}
  BY <1>4, <1>5, <1>7 DEF Elems, Picks
<1> QED BY <1>4, <1>7, <1>8 DEF p

LEMMA AmongSeq ==
    ASSUME NEW T, NEW q \in Seq(T), NEW S
    PROVE  /\ Among(q, S) \in Seq(T) /\ Elems(Among(q, S)) = Elems(q) \cap S
<1> DEFINE I == {i \in DOMAIN q : q[i] \in S}
<1>1. I \in SUBSET DOMAIN q
  OBVIOUS
<1>2. Pick(q, I) \in Seq(T) /\ Elems(Pick(q, I)) = {q[i] : i \in I}
  <2> HIDE DEF I
  <2> QED BY <1>1, PickSeq
<1>3. {q[i] : i \in I} = Elems(q) \cap S
  BY DEF Elems
<1> QED BY <1>2, <1>3 DEF Among

-----------------------------------------------------------------------------
(***************************************************************************)
(* The candidate pool: a list of instruments for each layer, whatever the  *)
(* scan holds and whatever is injected, balanced away and found again.     *)
(***************************************************************************)

\* The first of some positions by a score of each.
LEMMA BestPosition ==
    ASSUME NEW n \in Nat, NEW I \in SUBSET (1 .. n), I # {}, NEW v \in [I -> Int]
    PROVE  \E j \in I : \A k \in I : v[j] > v[k] \/ (v[j] = v[k] /\ j <= k)
<1> DEFINE t == [k \in I |-> k]
<1>1. IsFiniteSet(I)
  BY DomainIsFinite
<1>2. t \in [I -> Int] /\ Distinct(t, I)
  BY DEF Distinct
<1>3. \A k \in I : t[k] = k
  OBVIOUS
<1> HIDE DEF t
<1>4. \E j \in I : \A k \in I : v[j] > v[k] \/ (v[j] = v[k] /\ t[j] <= t[k])
  BY <1>1, <1>2, FirstExists
<1> QED BY <1>3, <1>4

LEMMA SeqIsList ==
    ASSUME NEW T, NEW q \in Seq(T)
    PROVE  /\ Len(q) \in Nat /\ DOMAIN q = 1 .. Len(q)
           /\ q \in [1 .. Len(q) -> Elems(q)] /\ Elems(q) \subseteq T
<1>1. Len(q) \in Nat /\ DOMAIN q = 1 .. Len(q) /\ q \in [1 .. Len(q) -> T]
  OBVIOUS
<1> QED BY <1>1 DEF Elems

LEMMA ConcatSeq ==
    ASSUME NEW T, NEW a \in Seq(T), NEW b \in Seq(T)
    PROVE  /\ a \o b \in Seq(T) /\ Len(a \o b) = Len(a) + Len(b)
           /\ Elems(a \o b) = Elems(a) \cup Elems(b)
<1>1. a \o b \in Seq(T) /\ Len(a \o b) = Len(a) + Len(b) /\ Len(a) \in Nat /\ Len(b) \in Nat
  OBVIOUS
<1>2. /\ \A i \in 1 .. Len(a) : (a \o b)[i] = a[i]
      /\ \A i \in 1 .. Len(b) : (a \o b)[Len(a) + i] = b[i]
  OBVIOUS
<1>3. \A i \in 1 .. Len(a) + Len(b) :
         i \in 1 .. Len(a) \/ \E j \in 1 .. Len(b) : i = Len(a) + j
  <2>1. SUFFICES ASSUME NEW i \in 1 .. Len(a) + Len(b), i \notin 1 .. Len(a)
                 PROVE  \E j \in 1 .. Len(b) : i = Len(a) + j
    OBVIOUS
  <2>2. i - Len(a) \in 1 .. Len(b) /\ i = Len(a) + (i - Len(a))
    BY <1>1, <2>1
  <2> QED BY <2>2
<1> DEFINE c == a \o b  n == Len(a)  m == Len(b)
<1>4. /\ DOMAIN a = 1 .. n /\ DOMAIN b = 1 .. m /\ DOMAIN c = 1 .. n + m
      /\ n \in Nat /\ m \in Nat
  BY <1>1
<1>5. \A j \in 1 .. m : n + j \in 1 .. n + m
  BY <1>4
<1>6. \A j \in 1 .. n : j \in 1 .. n + m
  BY <1>4
<1>7. /\ \A i \in 1 .. n : c[i] = a[i]
      /\ \A i \in 1 .. m : c[n + i] = b[i]
      /\ \A i \in 1 .. n + m : i \in 1 .. n \/ \E j \in 1 .. m : i = n + j
  BY <1>2, <1>3
<1> HIDE DEF c, n, m
<1>8. Elems(c) = Elems(a) \cup Elems(b)
  <2>1. Elems(c) \subseteq Elems(a) \cup Elems(b)
    <3>1. SUFFICES ASSUME NEW i \in 1 .. n + m PROVE c[i] \in Elems(a) \cup Elems(b)
      BY <1>4 DEF Elems
    <3>2. CASE i \in 1 .. n
      BY <3>2, <1>4, <1>7 DEF Elems
    <3>3. CASE \E j \in 1 .. m : i = n + j
      BY <3>3, <1>4, <1>7 DEF Elems
    <3> QED BY <3>2, <3>3, <1>7
  <2>2. Elems(a) \subseteq Elems(c)
    BY <1>4, <1>6, <1>7 DEF Elems
  <2>3. Elems(b) \subseteq Elems(c)
    BY <1>4, <1>5, <1>7 DEF Elems
  <2> QED BY <2>1, <2>2, <2>3
<1> QED BY <1>1, <1>8 DEF c

LEMMA DedupSeq ==
    ASSUME NEW q \in Seq(Instruments), NEW scale \in [Instruments -> Nat]
    PROVE  deduplicate_by_index(q, scale) \in Seq(Instruments)
<1> DEFINE same(i) == {j \in DOMAIN q : Info[q[j]].index = Info[q[i]].index}
           first == {i \in DOMAIN q : \A j \in same(i) : i <= j}
           largest(i) == CHOOSE j \in same(i) : \A k \in same(i) :
                             scale[q[j]] > scale[q[k]] \/ (scale[q[j]] = scale[q[k]] /\ j <= k)
           p == Ascending(first)
           d == [i \in DOMAIN p |-> q[largest(p[i])]]
<1>1. Len(q) \in Nat /\ DOMAIN q = 1 .. Len(q) /\ \A i \in DOMAIN q : q[i] \in Instruments
  OBVIOUS
<1>2. ASSUME NEW i \in DOMAIN q PROVE largest(i) \in DOMAIN q
  <2> DEFINE v == [k \in same(i) |-> scale[q[k]]]
  <2>1. same(i) \in SUBSET (1 .. Len(q)) /\ i \in same(i) /\ v \in [same(i) -> Int]
    BY <1>1
  <2>2. same(i) # {}
    BY <2>1
  <2>3. \A k \in same(i) : v[k] = scale[q[k]]
    OBVIOUS
  <2>4. \E j \in same(i) : \A k \in same(i) : v[j] > v[k] \/ (v[j] = v[k] /\ j <= k)
    <3> HIDE DEF same, v
    <3> QED BY <1>1, <2>1, <2>2, BestPosition
  <2>5. \E j \in same(i) : \A k \in same(i) :
            scale[q[j]] > scale[q[k]] \/ (scale[q[j]] = scale[q[k]] /\ j <= k)
    <3> HIDE DEF same, v
    <3> QED BY <2>3, <2>4
  <2>6. largest(i) \in same(i)
    <3> HIDE DEF same
    <3> QED BY <2>5
  <2> QED BY <2>6
<1>3. first \in SUBSET Int /\ IsFiniteSet(first)
  <2>1. first \in SUBSET (1 .. Len(q))
    BY <1>1
  <2> HIDE DEF first
  <2> QED BY <1>1, <2>1, DomainIsFinite
<1>4. Cardinality(first) \in Nat /\ Picks(p, Cardinality(first), first)
  <2> HIDE DEF first
  <2> QED BY <1>3, NumbersSorted
<1>5. first \subseteq DOMAIN q
  OBVIOUS
<1>6. deduplicate_by_index(q, scale) = d
  BY DEF deduplicate_by_index
<1> DEFINE n == Cardinality(first)
<1> HIDE DEF largest, p, first, same, n
<1>7. DOMAIN p = 1 .. n /\ n \in Nat /\ \A i \in 1 .. n : p[i] \in DOMAIN q
  BY <1>4, <1>5 DEF Picks, n
<1>8. d \in [1 .. n -> Instruments]
  BY <1>1, <1>2, <1>7
<1> HIDE DEF d
<1>9. d \in Seq(Instruments)
  BY <1>7, <1>8
<1> QED BY <1>6, <1>9

LEMMA BalanceSeq ==
    ASSUME NEW q \in Seq(Instruments), NEW max \in Nat, NEW appeal \in [Instruments -> Int]
    PROVE  balance_by_industry(q, max, appeal) \in Seq(Instruments)
<1> DEFINE before(i, j) == appeal[q[i]] > appeal[q[j]] \/ (appeal[q[i]] = appeal[q[j]] /\ i < j)
           same(i) == {j \in DOMAIN q : Info[q[j]].segment = Info[q[i]].segment}
           heads == {i \in DOMAIN q : \A j \in same(i) : i <= j}
           first == Ascending(heads)
           best(i) == CHOOSE j \in same(i) : \A k \in same(i) : k # j => before(j, k)
           tops == [i \in DOMAIN first |-> best(first[i])]
           others == DOMAIN q \ Elems(tops)
           rest == Sorted(others, before)
           all == tops \o rest
<1>1. Len(q) \in Nat /\ DOMAIN q = 1 .. Len(q) /\ \A i \in DOMAIN q : q[i] \in Instruments
  OBVIOUS
<1>2. ASSUME NEW i \in DOMAIN q PROVE best(i) \in DOMAIN q
  <2> DEFINE v == [k \in same(i) |-> appeal[q[k]]]
  <2>1. same(i) \in SUBSET (1 .. Len(q)) /\ i \in same(i) /\ v \in [same(i) -> Int]
    BY <1>1
  <2>2. same(i) # {}
    BY <2>1
  <2>3. \A k \in same(i) : v[k] = appeal[q[k]]
    OBVIOUS
  <2>4. \E j \in same(i) : \A k \in same(i) : v[j] > v[k] \/ (v[j] = v[k] /\ j <= k)
    <3> DEFINE I == same(i)  n == Len(q)
    <3>1. n \in Nat /\ I \in SUBSET (1 .. n) /\ I # {} /\ v \in [I -> Int]
      BY <1>1, <2>1, <2>2
    <3> HIDE DEF I, n, v
    <3>2. \E j \in I : \A k \in I : v[j] > v[k] \/ (v[j] = v[k] /\ j <= k)
      BY <3>1, BestPosition
    <3> QED BY <3>2 DEF I
  <2>5. \E j \in same(i) : \A k \in same(i) : k # j => before(j, k)
    <3> HIDE DEF same, v
    <3> QED BY <1>1, <2>1, <2>3, <2>4
  <2>6. best(i) \in same(i)
    <3> HIDE DEF same, before
    <3> QED BY <2>5
  <2> QED BY <2>6
<1>3. heads \in SUBSET Int /\ IsFiniteSet(heads) /\ heads \subseteq DOMAIN q
  <2>1. heads \in SUBSET (1 .. Len(q))
    BY <1>1
  <2> HIDE DEF heads
  <2> QED BY <1>1, <2>1, DomainIsFinite
<1>4. Cardinality(heads) \in Nat /\ Picks(first, Cardinality(heads), heads)
  <2> HIDE DEF heads
  <2> QED BY <1>3, NumbersSorted
<1> DEFINE m == Cardinality(heads)
<1>5. tops \in Seq(DOMAIN q) /\ Len(tops) = m
  <2> HIDE DEF best, first, heads, same, m
  <2>1. DOMAIN first = 1 .. m /\ m \in Nat /\ \A i \in 1 .. m : first[i] \in DOMAIN q
    BY <1>3, <1>4 DEF Picks, m
  <2>2. tops \in [1 .. m -> DOMAIN q]
    BY <1>2, <2>1
  <2> HIDE DEF tops
  <2> QED BY <2>1, <2>2
<1>6. others \in SUBSET (1 .. Len(q)) /\ IsFiniteSet(others)
  <2>1. others \in SUBSET (1 .. Len(q))
    BY <1>1
  <2> HIDE DEF others
  <2> QED BY <1>1, <2>1, DomainIsFinite
<1>7. Cardinality(others) \in Nat /\ Picks(rest, Cardinality(others), others)
  <2> DEFINE v == [k \in others |-> appeal[q[k]]]  t == [k \in others |-> k]
             Place(i) == CHOOSE x \in others : Cardinality({y \in others : before(y, x)}) = i - 1
  <2>1. v \in [others -> Int] /\ t \in [others -> Int] /\ Distinct(t, others)
    <3> HIDE DEF others
    <3> QED BY <1>1, <1>6 DEF Distinct
  <2>2. rest = [i \in 1 .. Cardinality(others) |-> Place(i)]
    <3> HIDE DEF others
    <3> QED BY DEF Sorted
  <2>3. \A x \in others : Before(others, v, t, x) = {y \in others : before(y, x)}
    <3> HIDE DEF others
    <3> QED BY DEF Before
  <2>4. ASSUME NEW i \in 1 .. Cardinality(others), NEW z \in others,
               Cardinality(Before(others, v, t, z)) = i - 1
        PROVE  rest[i] \in others /\ Cardinality(Before(others, v, t, rest[i])) = i - 1
    <3>1. rest[i] = Place(i)
      <4> HIDE DEF rest, Place
      <4> QED BY <2>2
    <3> HIDE DEF v, t, others, rest, before
    <3>2. Cardinality({y \in others : before(y, z)}) = i - 1
      BY <2>3, <2>4
    <3>3. rest[i] \in others /\ Cardinality({y \in others : before(y, rest[i])}) = i - 1
      BY <3>1, <3>2
    <3> QED BY <3>3, <2>3
  <2> HIDE DEF v, t, others, rest
  <2>5. ByRank(rest, others, v, t)
    <3>1. rest = [i \in 1 .. Cardinality(others) |-> rest[i]]
      <4> HIDE DEF Place
      <4> QED BY <2>2
    <3> QED BY <3>1, <2>4 DEF ByRank
  <2> QED BY <1>6, <2>1, <2>5, SortedIsList
<1> HIDE DEF rest
<1> DEFINE r == Cardinality(others)
<1>8. rest \in Seq(DOMAIN q) /\ Len(rest) = r /\ r \in Nat
  <2>1. others \subseteq DOMAIN q
    OBVIOUS
  <2> HIDE DEF others
  <2>2. r \in Nat /\ rest \in [1 .. r -> others]
    BY <1>7 DEF Picks
  <2> HIDE DEF r
  <2> QED BY <2>1, <2>2
<1>9. m + r >= Len(q)
  <2> DEFINE E == Elems(tops)
  <2>1. E \subseteq DOMAIN q
    <3> HIDE DEF tops
    <3> QED BY <1>5 DEF Elems
  <2>2. IsFiniteSet(E) /\ Cardinality(E) \in Nat
    <3> HIDE DEF E
    <3>1. E \in SUBSET (1 .. Len(q))
      BY <1>1, <2>1
    <3> QED BY <1>1, <3>1, DomainIsFinite, FS_CardinalityType
  <2>3. Cardinality(E) <= m
    <3>1. tops \in [1 .. m -> E] /\ m \in Nat
      <4> DEFINE T == DOMAIN q
      <4>1. tops \in Seq(T) /\ Len(tops) = m
        BY <1>5
      <4> HIDE DEF tops, m, T
      <4> QED BY <4>1, SeqIsList
    <3>2. \A x \in E : \E i \in 1 .. m : tops[i] = x
      <4> HIDE DEF tops, m
      <4> QED BY <1>5 DEF Elems
    <3> HIDE DEF E, tops, m
    <3>3. tops \in Surjection(1 .. m, E)
      BY <3>1, <3>2 DEF Surjection
    <3>4. ExistsSurjection(1 .. m, E)
      BY <3>3 DEF ExistsSurjection
    <3> QED BY <3>1, <3>4, FS_SurjCardinalityBound
  <2>4. others = DOMAIN q \ E /\ DOMAIN q = E \cup others /\ E \cap others = {}
    <3> HIDE DEF tops
    <3> QED BY <2>1
  <2>5. Cardinality(DOMAIN q) = Len(q)
    <3>1. 1 \in Int /\ Len(q) \in Int
      BY <1>1
    <3> DEFINE k == Len(q)
    <3>2. k \in Nat /\ DOMAIN q = 1 .. k
      BY <1>1
    <3> HIDE DEF k
    <3>3. Cardinality(1 .. k) = IF 1 > k THEN 0 ELSE k - 1 + 1
      BY <3>2, FS_Interval
    <3>4. Cardinality(1 .. k) = k
      BY <3>2, <3>3
    <3> QED BY <3>2, <3>4 DEF k
  <2> HIDE DEF E, others
  <2>6. Cardinality(E \cup others) =
            Cardinality(E) + Cardinality(others) - Cardinality(E \cap others)
    BY <2>2, <1>6, FS_Union
  <2>7. Cardinality(E \cap others) = 0
    BY <2>4, FS_EmptySet
  <2>8. m \in Nat
    BY <1>4
  <2> HIDE DEF m
  <2>9. Len(q) = Cardinality(E) + r - 0
    BY <2>4, <2>5, <2>6, <2>7
  <2> HIDE DEF r
  <2> QED BY <1>1, <1>8, <2>2, <2>3, <2>8, <2>9
<1> DEFINE T == DOMAIN q
<1>10. all \in Seq(T) /\ Len(all) = m + r /\ m \in Nat
  <2>1. tops \in Seq(T) /\ rest \in Seq(T) /\ Len(tops) = m /\ Len(rest) = r
    BY <1>5, <1>8
  <2>2. m \in Nat
    BY <1>4
  <2> HIDE DEF tops, rest, m, r, T
  <2> QED BY <2>1, <2>2, ConcatSeq
<1> HIDE DEF tops, rest, m, r, all
<1>11. CASE Len(q) <= max
  <2>1. balance_by_industry(q, max, appeal) = q
    BY <1>11 DEF balance_by_industry
  <2> QED BY <2>1
<1>12. CASE ~(Len(q) <= max)
  <2> DEFINE b == [i \in 1 .. max |-> q[all[i]]]
  <2>1. balance_by_industry(q, max, appeal) = b
    BY <1>12 DEF balance_by_industry, all, tops, rest
  <2>2. \A i \in 1 .. max : all[i] \in DOMAIN q
    <3>1. \A i \in 1 .. Len(all) : all[i] \in T
      <4> HIDE DEF T
      <4> QED BY <1>10
    <3> QED BY <3>1, <1>1, <1>8, <1>9, <1>10, <1>12
  <2>3. b \in [1 .. max -> Instruments]
    BY <1>1, <2>2
  <2> HIDE DEF b
  <2> QED BY <2>1, <2>3
<1> QED BY <1>11, <1>12

LEMMA TruncateSeq ==
    ASSUME NEW q \in Seq(Instruments), NEW max \in Nat
    PROVE  truncate_with_mandatory_protection(q, max) \in Seq(Instruments)
<1> DEFINE T == Instruments
           others == T \ MANDATORY_CODES
           a == Among(q, MANDATORY_CODES)
           rest == Among(q, others)
           m == AtMost(max, Len(rest))
           b == SubSeq(rest, 1, m)
<1>1. a \in Seq(T) /\ rest \in Seq(T)
  <2>1. a \in Seq(T)
    BY AmongSeq
  <2> HIDE DEF others
  <2>2. rest \in Seq(T)
    BY AmongSeq
  <2> QED BY <2>1, <2>2
<1>2. truncate_with_mandatory_protection(q, max) = a \o b
  BY DEF truncate_with_mandatory_protection
<1> HIDE DEF a, rest, T
<1>3. m \in Nat /\ m <= Len(rest)
  BY <1>1 DEF AtMost
<1> HIDE DEF m
<1>4. b \in Seq(T)
  BY <1>1, <1>3
<1> HIDE DEF b
<1>5. a \o b \in Seq(T)
  BY <1>1, <1>4, ConcatSeq
<1> QED BY <1>2, <1>5 DEF T

PoolType == [Layers -> Seq(Instruments)]

LEMMA TruncatedType ==
    ASSUME NEW p \in PoolType, NEW appeal \in [Instruments -> Int]
    PROVE  Truncated(p, appeal) \in PoolType
<1> DEFINE row(l) == truncate_with_mandatory_protection(
                         balance_by_industry(p[l], MaxPerLayer[l], appeal), MaxPerLayer[l])
<1>1. ASSUME NEW l \in Layers PROVE row(l) \in Seq(Instruments)
  <2> DEFINE q == p[l]  max == MaxPerLayer[l]  b == balance_by_industry(q, max, appeal)
  <2>1. q \in Seq(Instruments) /\ max \in Nat
    BY PoolAssumption DEF PoolType
  <2> HIDE DEF q, max
  <2>2. b \in Seq(Instruments)
    BY <2>1, BalanceSeq
  <2> HIDE DEF b
  <2>3. truncate_with_mandatory_protection(b, max) \in Seq(Instruments)
    BY <2>1, <2>2, TruncateSeq
  <2> QED BY <2>3 DEF b, q, max
<1>2. Truncated(p, appeal) = [l \in Layers |-> row(l)]
  BY DEF Truncated
<1> HIDE DEF row
<1> QED BY <1>1, <1>2 DEF PoolType

\* The anchors that are missing come as a list, in whatever order.
LEMMA AnchorLists ==
    ASSUME NEW S \in SUBSET MANDATORY_CODES
    PROVE  /\ \A f \in InAnyOrder(S) : f \in Seq(Instruments)
           /\ InAnyOrder(S) # {}
<1>1. IsFiniteSet(S) /\ S \subseteq Instruments
  <2>1. IsFiniteSet(MANDATORY_CODES)
    BY PoolAssumption
  <2>2. IsFiniteSet(S)
    BY <2>1, FS_Subset
  <2> QED BY <2>2, PoolAssumption
<1> DEFINE n == Cardinality(S)
<1>2. n \in Nat /\ ExistsBijection(1 .. n, S)
  BY <1>1, FS_CardinalityType
<1>3. InAnyOrder(S) = {q \in [1 .. n -> S] : Elems(q) = S}
  BY DEF InAnyOrder
<1> HIDE DEF n
<1>4. ASSUME NEW f \in InAnyOrder(S) PROVE f \in Seq(Instruments)
  <2>1. f \in [1 .. n -> Instruments]
    BY <1>1, <1>3
  <2> QED BY <1>2, <2>1
<1>5. PICK f : f \in Bijection(1 .. n, S)
  BY <1>2 DEF ExistsBijection
<1>6. f \in [1 .. n -> S] /\ \A x \in S : \E i \in 1 .. n : f[i] = x
  BY <1>5 DEF Bijection, Surjection, Injection
<1>7. Elems(f) = S
  BY <1>6 DEF Elems
<1> QED BY <1>3, <1>4, <1>6, <1>7

LEMMA MissingAreAnchors == \A p : Missing(p) \subseteq MANDATORY_CODES
BY DEF Missing

LEMMA EnsureType ==
    ASSUME NEW p \in PoolType, NEW scan, NEW r \in ensure_mandatory(p, scan)
    PROVE  r \in PoolType
<1> DEFINE added(l) == {c \in Missing(p) : HomeOf(c) = l /\ (c \in Elems(scan) \cup CoreAnchors)}
           A == added("core")  B == added("defense")
<1>1. A \in SUBSET MANDATORY_CODES /\ B \in SUBSET MANDATORY_CODES
  BY MissingAreAnchors
<1> DEFINE Made(f, g) ==
              [l \in Layers |-> p[l] \o (IF l = "core" THEN f
                                         ELSE IF l = "defense" THEN g ELSE <<>>)]
<1>2. \E f \in InAnyOrder(A), g \in InAnyOrder(B) : r = Made(f, g)
  <2>1. ensure_mandatory(p, scan) = {Made(f, g) : f \in InAnyOrder(A), g \in InAnyOrder(B)}
    BY DEF ensure_mandatory
  <2> HIDE DEF Made, A, B
  <2> QED BY <2>1
<1> HIDE DEF A, B
<1>22. PICK f \in InAnyOrder(A), g \in InAnyOrder(B) : r = Made(f, g)
  BY <1>2
<1>3. f \in Seq(Instruments) /\ g \in Seq(Instruments)
  BY <1>1, AnchorLists
<1> DEFINE more(l) == IF l = "core" THEN f ELSE IF l = "defense" THEN g ELSE <<>>
<1>4. ASSUME NEW l \in Layers PROVE p[l] \o more(l) \in Seq(Instruments)
  <2> DEFINE a == p[l]  b == more(l)
  <2>1. a \in Seq(Instruments) /\ b \in Seq(Instruments)
    BY <1>3 DEF PoolType
  <2> HIDE DEF a, b
  <2>2. a \o b \in Seq(Instruments)
    BY <2>1, ConcatSeq
  <2> QED BY <2>2 DEF a, b
<1> QED BY <1>22, <1>4 DEF PoolType

LEMMA RecheckType ==
    ASSUME NEW p \in PoolType, NEW scan
    PROVE  recheck_mandatory_after_truncate(p, scan) \in PoolType
<1> DEFINE lost(l) == {c \in Missing(p) \cap Elems(scan) : HomeOf(c) = l}
           inOrder(S) == CHOOSE q \in InAnyOrder(S) : TRUE
<1>1. ASSUME NEW l \in Layers PROVE p[l] \o inOrder(lost(l)) \in Seq(Instruments)
  <2> DEFINE S == lost(l)  a == p[l]  b == inOrder(S)
  <2>1. S \in SUBSET MANDATORY_CODES
    BY MissingAreAnchors
  <2> HIDE DEF S
  <2>2. b \in InAnyOrder(S)
    BY <2>1, AnchorLists
  <2>3. a \in Seq(Instruments) /\ b \in Seq(Instruments)
    <3> HIDE DEF b
    <3> QED BY <2>1, <2>2, AnchorLists DEF PoolType
  <2> HIDE DEF a, b
  <2>4. a \o b \in Seq(Instruments)
    BY <2>3, ConcatSeq
  <2> QED BY <2>4 DEF a, b, S
<1>2. recheck_mandatory_after_truncate(p, scan) = [l \in Layers |-> p[l] \o inOrder(lost(l))]
  BY DEF recheck_mandatory_after_truncate
<1> HIDE DEF inOrder, lost
<1> QED BY <1>1, <1>2 DEF PoolType

LEMMA PoolsType ==
    ASSUME NEW scan \in Seq(Instruments), NEW scale \in [Instruments -> Nat],
           NEW appeal \in [Instruments -> Int], NEW p \in Pools(scan, scale, appeal)
    PROVE  p \in PoolType
<1> DEFINE layered == Assigned(scan)
           deduped == [l \in Layers |-> deduplicate_by_index(layered[l], scale)]
<1>1. ASSUME NEW l \in Layers PROVE layered[l] \in Seq(Instruments)
  <2> DEFINE S == {s \in Instruments : assign_layer(s) = l}
  <2>1. layered[l] = Among(scan, S)
    BY DEF Assigned
  <2> HIDE DEF S, layered
  <2>2. Among(scan, S) \in Seq(Instruments)
    BY AmongSeq
  <2> QED BY <2>1, <2>2
<1>2. deduped \in PoolType
  <2>1. ASSUME NEW l \in Layers PROVE deduplicate_by_index(layered[l], scale) \in Seq(Instruments)
    <3> DEFINE q == layered[l]
    <3>1. q \in Seq(Instruments)
      BY <1>1
    <3> HIDE DEF q
    <3>2. deduplicate_by_index(q, scale) \in Seq(Instruments)
      BY <3>1, DedupSeq
    <3> QED BY <3>2 DEF q
  <2> HIDE DEF layered
  <2> QED BY <2>1 DEF PoolType
<1> HIDE DEF layered, deduped
<1>3. CASE scan = <<>>
  <2>1. p = deduped
    BY <1>3 DEF Pools, layered, deduped
  <2> QED BY <1>2, <2>1
<1>4. CASE scan # <<>>
  <2>1. \E r \in ensure_mandatory(deduped, scan) :
            p = recheck_mandatory_after_truncate(Truncated(r, appeal), scan)
    BY <1>4 DEF Pools, layered, deduped
  <2>2. PICK r \in ensure_mandatory(deduped, scan) :
            p = recheck_mandatory_after_truncate(Truncated(r, appeal), scan)
    BY <2>1
  <2>3. r \in PoolType
    BY <1>2, EnsureType
  <2> DEFINE t == Truncated(r, appeal)
  <2>4. t \in PoolType
    BY <2>3, TruncatedType
  <2> HIDE DEF t
  <2>5. recheck_mandatory_after_truncate(t, scan) \in PoolType
    BY <2>4, RecheckType
  <2> QED BY <2>2, <2>5 DEF t
<1> QED BY <1>3, <1>4

-----------------------------------------------------------------------------
(***************************************************************************)
(* Rows.  A pass leaves the rows with other weights (SameRows), or some of *)
(* them (From); a weight may be any value, however it was rounded.         *)
(***************************************************************************)
IsRow(r) ==
    /\ r = Row(r.sym, r.layer, r.w, r.score)
    /\ r.sym \in Instruments /\ r.layer \in Layers /\ r.score \in Int
Typed(q) == q \in Seq(Elems(q)) /\ \A r \in Elems(q) : IsRow(r)

SameRows(p, q) == p = [i \in DOMAIN q |-> Weighing(q[i], p[i].w)]
From(p, q) ==
    \E f \in [DOMAIN p -> DOMAIN q] :
        Distinct(f, DOMAIN p) /\ \A i \in DOMAIN p : p[i].sym = q[f[i]].sym

LEMMA RowFields ==
    \A s, l, w, c : LET r == Row(s, l, w, c)
                    IN  r.sym = s /\ r.layer = l /\ r.w = w /\ r.score = c
BY DEF Row

LEMMA WeighingFields ==
    \A r, w : LET x == Weighing(r, w)
              IN  /\ x.sym = r.sym /\ x.layer = r.layer /\ x.w = w /\ x.score = r.score
                  /\ (IsRow(r) => IsRow(x) /\ Weighing(r, r.w) = r)
BY RowFields DEF Weighing, IsRow

LEMMA TypedIs ==
    ASSUME NEW q
    PROVE  /\ Typed(q) => /\ Len(q) \in Nat /\ DOMAIN q = 1 .. Len(q)
                          /\ q = [i \in 1 .. Len(q) |-> q[i]]
                          /\ \A i \in DOMAIN q : IsRow(q[i])
           /\ \A n \in Nat : q = [i \in 1 .. n |-> q[i]] /\ (\A i \in 1 .. n : IsRow(q[i]))
                                => Typed(q) /\ Len(q) = n
<1>1. ASSUME Typed(q)
      PROVE  /\ Len(q) \in Nat /\ DOMAIN q = 1 .. Len(q)
             /\ q = [i \in 1 .. Len(q) |-> q[i]]
             /\ \A i \in DOMAIN q : IsRow(q[i])
  <2> DEFINE T == Elems(q)
  <2>1. q \in Seq(T) /\ \A r \in T : IsRow(r)
    BY <1>1 DEF Typed
  <2> HIDE DEF T
  <2>2. Len(q) \in Nat /\ DOMAIN q = 1 .. Len(q) /\ q \in [1 .. Len(q) -> T]
    BY <2>1
  <2> QED BY <2>1, <2>2
<1>2. ASSUME NEW n \in Nat, q = [i \in 1 .. n |-> q[i]], \A i \in 1 .. n : IsRow(q[i])
      PROVE  Typed(q) /\ Len(q) = n
  <2>1. DOMAIN q = 1 .. n
    BY <1>2
  <2> DEFINE T == Elems(q)
  <2>2. \A i \in 1 .. n : q[i] \in T
    BY <2>1 DEF Elems
  <2>3. \A r \in T : IsRow(r)
    BY <1>2, <2>1 DEF Elems
  <2> HIDE DEF T
  <2>4. q \in [1 .. n -> T]
    BY <1>2, <2>2
  <2>5. q \in Seq(T) /\ Len(q) = n
    BY <2>4
  <2> QED BY <2>3, <2>5 DEF T, Typed
<1> QED BY <1>1, <1>2

LEMMA SameFacts ==
    ASSUME NEW q, Typed(q), NEW p, SameRows(p, q)
    PROVE  /\ Typed(p) /\ DOMAIN p = DOMAIN q /\ Len(p) = Len(q)
           /\ \A i \in DOMAIN q : /\ p[i].sym = q[i].sym /\ p[i].layer = q[i].layer
                                  /\ p[i].score = q[i].score
           /\ Symbols(p) = Symbols(q) /\ From(p, q)
<1>1. Len(q) \in Nat /\ DOMAIN q = 1 .. Len(q) /\ \A i \in DOMAIN q : IsRow(q[i])
  BY TypedIs
<1>2. DOMAIN p = DOMAIN q /\ \A i \in DOMAIN q : p[i] = Weighing(q[i], p[i].w)
  BY DEF SameRows
<1>3. \A i \in DOMAIN q : /\ p[i].sym = q[i].sym /\ p[i].layer = q[i].layer
                          /\ p[i].score = q[i].score /\ IsRow(p[i])
  BY <1>1, <1>2, WeighingFields
<1>4. Typed(p) /\ Len(p) = Len(q)
  <2> DEFINE n == Len(q)
  <2>1. n \in Nat /\ \A i \in 1 .. n : IsRow(p[i])
    BY <1>1, <1>3
  <2>2. p = [i \in 1 .. n |-> p[i]]
    <3>1. p = [i \in DOMAIN p |-> p[i]]
      BY DEF SameRows
    <3> QED BY <3>1, <1>1, <1>2
  <2> HIDE DEF n
  <2>3. Typed(p) /\ Len(p) = n
    BY <2>1, <2>2, TypedIs
  <2> QED BY <2>3 DEF n
<1>5. Symbols(p) = Symbols(q)
  BY <1>2, <1>3 DEF Symbols
<1>6. From(p, q)
  <2> DEFINE f == [i \in DOMAIN q |-> i]
  <2>1. f \in [DOMAIN p -> DOMAIN q] /\ Distinct(f, DOMAIN p) /\ \A i \in DOMAIN p : f[i] = i
    BY <1>2 DEF Distinct
  <2> HIDE DEF f
  <2> QED BY <2>1, <1>2, <1>3 DEF From
<1> QED BY <1>2, <1>3, <1>4, <1>5, <1>6

LEMMA SameTrans ==
    ASSUME NEW q, Typed(q), NEW p, SameRows(p, q), NEW r, SameRows(r, p)
    PROVE  SameRows(r, q)
<1>1. DOMAIN p = DOMAIN q /\ \A i \in DOMAIN q : p[i] = Weighing(q[i], p[i].w)
  BY DEF SameRows
<1>2. r = [i \in DOMAIN q |-> Weighing(p[i], r[i].w)]
  BY <1>1 DEF SameRows
<1>3. \A x, v, w : Weighing(Weighing(x, v), w) = Weighing(x, w)
  BY RowFields DEF Weighing
<1>4. \A i \in DOMAIN q : Weighing(p[i], r[i].w) = Weighing(q[i], r[i].w)
  BY <1>1, <1>3
<1> QED BY <1>2, <1>4 DEF SameRows

LEMMA SameSelf == ASSUME NEW q, Typed(q) PROVE SameRows(q, q)
<1>1. q = [i \in DOMAIN q |-> q[i]] /\ \A i \in DOMAIN q : IsRow(q[i])
  BY TypedIs
<1> QED BY <1>1, WeighingFields DEF SameRows

\* Any new weights for some of the rows; each Reweighted has this form.
LEMMA NewWeights ==
    ASSUME NEW q, Typed(q), NEW I, NEW h
    PROVE  SameRows([i \in DOMAIN q |-> IF i \in I THEN Weighing(q[i], h[i]) ELSE q[i]], q)
<1> DEFINE p == [i \in DOMAIN q |-> IF i \in I THEN Weighing(q[i], h[i]) ELSE q[i]]
<1>1. \A i \in DOMAIN q : IsRow(q[i])
  BY TypedIs
<1>2. \A i \in DOMAIN q : p[i] = Weighing(q[i], p[i].w)
  BY <1>1, WeighingFields
<1>3. p = [i \in DOMAIN q |-> p[i]]
  OBVIOUS
<1> HIDE DEF p
<1>4. SameRows(p, q)
  BY <1>2, <1>3 DEF SameRows
<1> QED BY <1>4 DEF p

LEMMA FromFrom ==
    ASSUME NEW p, NEW q, NEW r, From(p, q), From(q, r)
    PROVE  From(p, r)
<1>1. PICK f \in [DOMAIN p -> DOMAIN q] :
         Distinct(f, DOMAIN p) /\ \A i \in DOMAIN p : p[i].sym = q[f[i]].sym
  BY DEF From
<1>2. PICK g \in [DOMAIN q -> DOMAIN r] :
         Distinct(g, DOMAIN q) /\ \A i \in DOMAIN q : q[i].sym = r[g[i]].sym
  BY DEF From
<1> DEFINE h == [i \in DOMAIN p |-> g[f[i]]]
<1>3. h \in [DOMAIN p -> DOMAIN r] /\ \A i \in DOMAIN p : h[i] = g[f[i]] /\ f[i] \in DOMAIN q
  BY <1>1, <1>2
<1> HIDE DEF h
<1>4. Distinct(h, DOMAIN p)
  BY <1>1, <1>2, <1>3 DEF Distinct
<1>5. \A i \in DOMAIN p : p[i].sym = r[h[i]].sym
  BY <1>1, <1>2, <1>3
<1> QED BY <1>3, <1>4, <1>5 DEF From

LEMMA PickTyped ==
    ASSUME NEW q, Typed(q), NEW I \in SUBSET DOMAIN q
    PROVE  /\ Typed(Pick(q, I)) /\ From(Pick(q, I), q)
           /\ Symbols(Pick(q, I)) = {q[i].sym : i \in I}
           /\ \E f \in [DOMAIN Pick(q, I) -> I] :
                 /\ Distinct(f, DOMAIN Pick(q, I))
                 /\ \A i \in DOMAIN Pick(q, I) : Pick(q, I)[i] = q[f[i]]
<1>1. Len(q) \in Nat /\ DOMAIN q = 1 .. Len(q) /\ \A i \in DOMAIN q : IsRow(q[i])
  BY TypedIs
<1>2. I \in SUBSET Int /\ IsFiniteSet(I)
  BY <1>1, DomainIsFinite
<1>3. PICK n \in Nat : \E f : Picks(f, n, I) /\ Pick(q, I) = [i \in 1 .. n |-> q[f[i]]]
  BY <1>2, PickIs
<1>4. PICK f : Picks(f, n, I) /\ Pick(q, I) = [i \in 1 .. n |-> q[f[i]]]
  BY <1>3
<1> DEFINE p == Pick(q, I)
<1>5. DOMAIN p = 1 .. n /\ p = [i \in 1 .. n |-> p[i]] /\ \A i \in 1 .. n : p[i] = q[f[i]]
  BY <1>4
<1>6. f \in [1 .. n -> I] /\ Distinct(f, 1 .. n) /\ \A x \in I : \E i \in 1 .. n : f[i] = x
  BY <1>4 DEF Picks
<1> HIDE DEF p
<1>7. \A i \in 1 .. n : f[i] \in I /\ f[i] \in DOMAIN q /\ IsRow(p[i])
  BY <1>1, <1>5, <1>6
<1>8. Typed(p)
  BY <1>5, <1>7, TypedIs
<1>9. Symbols(p) = {q[i].sym : i \in I}
  BY <1>5, <1>6 DEF Symbols
<1>10. f \in [DOMAIN p -> I] /\ f \in [DOMAIN p -> DOMAIN q] /\ Distinct(f, DOMAIN p)
  BY <1>5, <1>6
<1>11. From(p, q)
  BY <1>5, <1>10 DEF From
<1>12. \E g \in [DOMAIN p -> I] :
          Distinct(g, DOMAIN p) /\ \A i \in DOMAIN p : p[i] = q[g[i]]
  BY <1>5, <1>10
<1> QED BY <1>8, <1>9, <1>11, <1>12 DEF p

LEMMA SpreadSame ==
    ASSUME NEW q, Typed(q), NEW I, NEW amount
    PROVE  SameRows(Spread(q, I, amount), q)
<1> DEFINE h == [i \in DOMAIN q |-> q[i].w + Share(amount, q[i].w, Weight(q, I))]
           p == [i \in DOMAIN q |-> IF i \in I THEN Weighing(q[i], h[i]) ELSE q[i]]
<1>1. Spread(q, I, amount) = q \/ Spread(q, I, amount) = p
  BY DEF Spread, Reweighted
<1>2. SameRows(p, q)
  <2> HIDE DEF h
  <2> QED BY NewWeights
<1> HIDE DEF p
<1> QED BY <1>1, <1>2, SameSelf

LEMMA WaterSame ==
    ASSUME NEW q, Typed(q), NEW amount
    PROVE  SameRows(WaterFilled(q, amount), q)
<1> DEFINE room(w) == AtLeast(0, MAX_WEIGHT - w)
           total == SumOf([i \in DOMAIN q |-> room(q[i].w)])
           I == DOMAIN q
           h == [i \in DOMAIN q |-> q[i].w + Share(AtMost(amount, total), room(q[i].w), total)]
           p == [i \in DOMAIN q |-> IF i \in I THEN Weighing(q[i], h[i]) ELSE q[i]]
<1>1. WaterFilled(q, amount) = q \/ WaterFilled(q, amount) = p
  BY DEF WaterFilled, Reweighted
<1>2. SameRows(p, q)
  <2> HIDE DEF h, I
  <2> QED BY NewWeights
<1> HIDE DEF p
<1> QED BY <1>1, <1>2, SameSelf

LEMMA NewWeightSame ==
    ASSUME NEW q, Typed(q), NEW I, NEW part, NEW whole
    PROVE  /\ SameRows(Clipped(q, I), q) /\ SameRows(Raised(q, I, part), q)
           /\ SameRows(Scaled(q, I, part, whole), q)
<1> DEFINE h == [i \in DOMAIN q |-> AtMost(q[i].w, MAX_WEIGHT)]
           p == [i \in DOMAIN q |-> IF i \in I THEN Weighing(q[i], h[i]) ELSE q[i]]
           g == [i \in DOMAIN q |-> Share(q[i].w, part, whole)]
           r == [i \in DOMAIN q |-> IF i \in I THEN Weighing(q[i], g[i]) ELSE q[i]]
           u == [i \in DOMAIN q |-> q[i].w + part]
           m == [i \in DOMAIN q |-> IF i \in I THEN Weighing(q[i], u[i]) ELSE q[i]]
<1>1. Clipped(q, I) = p
  BY Zenon DEF Clipped, Reweighted
<1>2. Scaled(q, I, part, whole) = r /\ Raised(q, I, part) = m
  BY Zenon DEF Scaled, Raised, Reweighted
<1>3. SameRows(p, q) /\ SameRows(r, q) /\ SameRows(m, q)
  <2> HIDE DEF h, g, u
  <2> QED BY NewWeights
<1> HIDE DEF p, r, m
<1> QED BY <1>1, <1>2, <1>3

LEMMA ScaledSame ==
    ASSUME NEW q, Typed(q), NEW I, NEW cap
    PROVE  SameRows(ScaledTo(q, cap), q) /\ SameRows(ScaledDown(q, I, cap), q)
<1> DEFINE D == DOMAIN q  d == Weight(q, D)  total == Weight(q, I)
<1>1. ScaledTo(q, cap) = q \/ ScaledTo(q, cap) = Scaled(q, D, cap, d)
  BY DEF ScaledTo
<1>2. ScaledDown(q, I, cap) = q \/ ScaledDown(q, I, cap) = Scaled(q, I, cap, total)
  BY DEF ScaledDown
<1> HIDE DEF D, d, total
<1>3. SameRows(Scaled(q, D, cap, d), q) /\ SameRows(Scaled(q, I, cap, total), q)
  BY NewWeightSame
<1> QED BY <1>1, <1>2, <1>3, SameSelf

-----------------------------------------------------------------------------
(***************************************************************************)
(* Passes that go on one row after the other.  What a recursive function   *)
(* is after k rows exists by induction, and is of the rows it began with   *)
(* by another.                                                             *)
(***************************************************************************)

\* The removed rows of one index, shared out.
LEMMA ShareOutsRun ==
    ASSUME NEW kept, NEW removed, Len(removed) \in Nat
    PROVE  /\ ShareOuts(kept, removed)[0] = kept
           /\ \A k \in 1 .. Len(removed) :
                 ShareOuts(kept, removed)[k] =
                     Spread(ShareOuts(kept, removed)[k - 1],
                            In(ShareOuts(kept, removed)[k - 1], removed[k].layer), removed[k].w)
<1> DEFINE n == Len(removed)
           Out(x, k) == Spread(x, In(x, removed[k].layer), removed[k].w)
           Step(f, k) == IF k = 0 THEN kept ELSE Out(f[k - 1], k)
           Run(f, k) == f[0] = kept /\ \A i \in 1 .. k : f[i] = Out(f[i - 1], i)
           Full(f) == f = [k \in 0 .. n |-> Step(f, k)]
           P == {k \in 0 .. n : \E f : Run(f, k)}
           A == ShareOuts(kept, removed)
<1> HIDE DEF Out
<1>1. n \in Nat
  OBVIOUS
<1>2. 0 \in P
  <2> DEFINE f == [i \in {0} |-> kept]
  <2>1. Run(f, 0)
    OBVIOUS
  <2> HIDE DEF f, Run, n
  <2> QED BY <1>1, <2>1
<1>3. ASSUME NEW k \in 1 .. n, k - 1 \in P PROVE k \in P
  <2>1. PICK f : Run(f, k - 1)
    <3> HIDE DEF Run
    <3> QED BY <1>3
  <2> DEFINE v == Out(f[k - 1], k)
             g == [i \in 0 .. k |-> IF i = k THEN v ELSE f[i]]
  <2>2. k \in Nat /\ k # 0 /\ k - 1 # k /\ k - 1 \in 0 .. k /\ 0 \in 0 .. k /\ k \in 0 .. k
        /\ k \in 0 .. n
    BY <1>1, <1>3
  <2>3. g[k] = v /\ \A i \in 0 .. k : i # k => g[i] = f[i]
    <3> HIDE DEF v
    <3> QED BY <2>2
  <2> HIDE DEF g
  <2>4. g[0] = kept
    BY <2>1, <2>2, <2>3
  <2>5. ASSUME NEW i \in 1 .. k PROVE g[i] = Out(g[i - 1], i)
    <3>1. CASE i = k
      <4>1. g[k - 1] = f[k - 1]
        BY <2>2, <2>3
      <4> QED BY <3>1, <4>1, <2>3
    <3>2. CASE i # k
      <4>1. i \in 1 .. k - 1 /\ i \in 0 .. k /\ i - 1 \in 0 .. k /\ i - 1 # k
        BY <3>2, <2>2
      <4>2. g[i] = f[i] /\ g[i - 1] = f[i - 1]
        BY <4>1, <3>2, <2>3
      <4>3. f[i] = Out(f[i - 1], i)
        BY <4>1, <2>1
      <4> QED BY <4>2, <4>3
    <3> QED BY <3>1, <3>2
  <2>6. Run(g, k)
    BY <2>4, <2>5
  <2> HIDE DEF Run
  <2> QED BY <2>2, <2>6
<1>4. PICK f : Run(f, n)
  <2>1. 0 .. n \subseteq P
    <3> HIDE DEF P, n
    <3> QED BY <1>1, <1>2, <1>3, UpTo
  <2>2. n \in P
    <3> HIDE DEF P
    <3> QED BY <1>1, <2>1
  <2> HIDE DEF Run
  <2> QED BY <2>2
<1> DEFINE h == [k \in 0 .. n |-> f[k]]
<1>5. Full(h)
  <2>1. ASSUME NEW k \in 0 .. n PROVE f[k] = Step(h, k)
    <3>1. CASE k = 0
      BY <3>1, <1>4
    <3>2. CASE k # 0
      <4>1. k \in 1 .. n /\ k - 1 \in 0 .. n
        BY <3>2, <1>1
      <4>2. h[k - 1] = f[k - 1]
        <5> HIDE DEF n
        <5> QED BY <4>1
      <4> HIDE DEF h
      <4> QED BY <3>2, <4>1, <4>2, <1>4
    <3> QED BY <3>1, <3>2
  <2> DEFINE g == [k \in 0 .. n |-> Step(h, k)]
  <2>2. h = g
    <3> HIDE DEF Step, n
    <3> QED BY <2>1
  <2> QED BY <2>2
<1>6. A = CHOOSE g : Full(g)
  BY DEF ShareOuts, Out
<1>7. Full(A)
  <2> HIDE DEF Full, A, h
  <2> QED BY <1>5, <1>6
<1>8. \A k \in 0 .. n : A[k] = Step(A, k)
  <2> HIDE DEF A, Step, n
  <2> QED BY <1>7
<1>9. A[0] = kept /\ \A k \in 1 .. n : A[k] = Out(A[k - 1], k)
  <2> HIDE DEF A, n
  <2> QED BY <1>1, <1>8
<1> HIDE DEF A
<1> QED BY <1>9 DEF A, Out

\* Growth funds that go, the lowest first.
LEMMA GrowthRun ==
    ASSUME NEW q, NEW cap, Len(q) \in Nat
    PROVE  /\ GrowthRounds(q, cap)[0] = [rows |-> q, growth |-> Weight(q, Growth(q))]
           /\ \A k \in 1 .. Len(q) :
                 GrowthRounds(q, cap)[k] = OneLess(GrowthRounds(q, cap)[k - 1], cap)
<1> DEFINE n == Len(q)
           Out(x, k) == OneLess(x, cap)
           b == [rows |-> q, growth |-> Weight(q, Growth(q))]
           Step(f, k) == IF k = 0 THEN b ELSE Out(f[k - 1], k)
           Run(f, k) == f[0] = b /\ \A i \in 1 .. k : f[i] = Out(f[i - 1], i)
           Full(f) == f = [k \in 0 .. n |-> Step(f, k)]
           P == {k \in 0 .. n : \E f : Run(f, k)}
           A == GrowthRounds(q, cap)
<1> HIDE DEF Out, b
<1>1. n \in Nat
  OBVIOUS
<1>2. 0 \in P
  <2> DEFINE f == [i \in {0} |-> b]
  <2>1. Run(f, 0)
    OBVIOUS
  <2> HIDE DEF f, Run, n
  <2> QED BY <1>1, <2>1
<1>3. ASSUME NEW k \in 1 .. n, k - 1 \in P PROVE k \in P
  <2>1. PICK f : Run(f, k - 1)
    <3> HIDE DEF Run
    <3> QED BY <1>3
  <2> DEFINE v == Out(f[k - 1], k)
             g == [i \in 0 .. k |-> IF i = k THEN v ELSE f[i]]
  <2>2. k \in Nat /\ k # 0 /\ k - 1 # k /\ k - 1 \in 0 .. k /\ 0 \in 0 .. k /\ k \in 0 .. k
        /\ k \in 0 .. n
    BY <1>1, <1>3
  <2>3. g[k] = v /\ \A i \in 0 .. k : i # k => g[i] = f[i]
    <3> HIDE DEF v
    <3> QED BY <2>2
  <2> HIDE DEF g
  <2>4. g[0] = b
    BY <2>1, <2>2, <2>3
  <2>5. ASSUME NEW i \in 1 .. k PROVE g[i] = Out(g[i - 1], i)
    <3>1. CASE i = k
      <4>1. g[k - 1] = f[k - 1]
        BY <2>2, <2>3
      <4> QED BY <3>1, <4>1, <2>3
    <3>2. CASE i # k
      <4>1. i \in 1 .. k - 1 /\ i \in 0 .. k /\ i - 1 \in 0 .. k /\ i - 1 # k
        BY <3>2, <2>2
      <4>2. g[i] = f[i] /\ g[i - 1] = f[i - 1]
        BY <4>1, <3>2, <2>3
      <4>3. f[i] = Out(f[i - 1], i)
        BY <4>1, <2>1
      <4> QED BY <4>2, <4>3
    <3> QED BY <3>1, <3>2
  <2>6. Run(g, k)
    BY <2>4, <2>5
  <2> HIDE DEF Run
  <2> QED BY <2>2, <2>6
<1>4. PICK f : Run(f, n)
  <2>1. 0 .. n \subseteq P
    <3> HIDE DEF P, n
    <3> QED BY <1>1, <1>2, <1>3, UpTo
  <2>2. n \in P
    <3> HIDE DEF P
    <3> QED BY <1>1, <2>1
  <2> HIDE DEF Run
  <2> QED BY <2>2
<1> DEFINE h == [k \in 0 .. n |-> f[k]]
<1>5. Full(h)
  <2>1. ASSUME NEW k \in 0 .. n PROVE f[k] = Step(h, k)
    <3>1. CASE k = 0
      BY <3>1, <1>4
    <3>2. CASE k # 0
      <4>1. k \in 1 .. n /\ k - 1 \in 0 .. n
        BY <3>2, <1>1
      <4>2. h[k - 1] = f[k - 1]
        <5> HIDE DEF n
        <5> QED BY <4>1
      <4> HIDE DEF h
      <4> QED BY <3>2, <4>1, <4>2, <1>4
    <3> QED BY <3>1, <3>2
  <2> DEFINE g == [k \in 0 .. n |-> Step(h, k)]
  <2>2. h = g
    <3> HIDE DEF Step, n
    <3> QED BY <2>1
  <2> QED BY <2>2
<1>6. A = CHOOSE g : Full(g)
  BY DEF GrowthRounds, Out, b
<1>7. Full(A)
  <2> HIDE DEF Full, A, h
  <2> QED BY <1>5, <1>6
<1>8. \A k \in 0 .. n : A[k] = Step(A, k)
  <2> HIDE DEF A, Step, n
  <2> QED BY <1>7
<1>9. A[0] = b /\ \A k \in 1 .. n : A[k] = Out(A[k - 1], k)
  <2> HIDE DEF A, n
  <2> QED BY <1>1, <1>8
<1> HIDE DEF A
<1> QED BY <1>9 DEF A, Out, b

\* Anchors that are lifted.
LEMMA LiftsRun ==
    ASSUME NEW q, NEW low, Len(low) \in Nat
    PROVE  /\ Lifts(q, low)[0] = q
           /\ \A k \in 1 .. Len(low) :
                 Lifts(q, low)[k] = Lifted(Lifts(q, low)[k - 1], low[k])
<1> DEFINE n == Len(low)
           Out(x, k) == Lifted(x, low[k])
           b == q
           Step(f, k) == IF k = 0 THEN b ELSE Out(f[k - 1], k)
           Run(f, k) == f[0] = b /\ \A i \in 1 .. k : f[i] = Out(f[i - 1], i)
           Full(f) == f = [k \in 0 .. n |-> Step(f, k)]
           P == {k \in 0 .. n : \E f : Run(f, k)}
           A == Lifts(q, low)
<1> HIDE DEF Out, b
<1>1. n \in Nat
  OBVIOUS
<1>2. 0 \in P
  <2> DEFINE f == [i \in {0} |-> b]
  <2>1. Run(f, 0)
    OBVIOUS
  <2> HIDE DEF f, Run, n
  <2> QED BY <1>1, <2>1
<1>3. ASSUME NEW k \in 1 .. n, k - 1 \in P PROVE k \in P
  <2>1. PICK f : Run(f, k - 1)
    <3> HIDE DEF Run
    <3> QED BY <1>3
  <2> DEFINE v == Out(f[k - 1], k)
             g == [i \in 0 .. k |-> IF i = k THEN v ELSE f[i]]
  <2>2. k \in Nat /\ k # 0 /\ k - 1 # k /\ k - 1 \in 0 .. k /\ 0 \in 0 .. k /\ k \in 0 .. k
        /\ k \in 0 .. n
    BY <1>1, <1>3
  <2>3. g[k] = v /\ \A i \in 0 .. k : i # k => g[i] = f[i]
    <3> HIDE DEF v
    <3> QED BY <2>2
  <2> HIDE DEF g
  <2>4. g[0] = b
    BY <2>1, <2>2, <2>3
  <2>5. ASSUME NEW i \in 1 .. k PROVE g[i] = Out(g[i - 1], i)
    <3>1. CASE i = k
      <4>1. g[k - 1] = f[k - 1]
        BY <2>2, <2>3
      <4> QED BY <3>1, <4>1, <2>3
    <3>2. CASE i # k
      <4>1. i \in 1 .. k - 1 /\ i \in 0 .. k /\ i - 1 \in 0 .. k /\ i - 1 # k
        BY <3>2, <2>2
      <4>2. g[i] = f[i] /\ g[i - 1] = f[i - 1]
        BY <4>1, <3>2, <2>3
      <4>3. f[i] = Out(f[i - 1], i)
        BY <4>1, <2>1
      <4> QED BY <4>2, <4>3
    <3> QED BY <3>1, <3>2
  <2>6. Run(g, k)
    BY <2>4, <2>5
  <2> HIDE DEF Run
  <2> QED BY <2>2, <2>6
<1>4. PICK f : Run(f, n)
  <2>1. 0 .. n \subseteq P
    <3> HIDE DEF P, n
    <3> QED BY <1>1, <1>2, <1>3, UpTo
  <2>2. n \in P
    <3> HIDE DEF P
    <3> QED BY <1>1, <2>1
  <2> HIDE DEF Run
  <2> QED BY <2>2
<1> DEFINE h == [k \in 0 .. n |-> f[k]]
<1>5. Full(h)
  <2>1. ASSUME NEW k \in 0 .. n PROVE f[k] = Step(h, k)
    <3>1. CASE k = 0
      BY <3>1, <1>4
    <3>2. CASE k # 0
      <4>1. k \in 1 .. n /\ k - 1 \in 0 .. n
        BY <3>2, <1>1
      <4>2. h[k - 1] = f[k - 1]
        <5> HIDE DEF n
        <5> QED BY <4>1
      <4> HIDE DEF h
      <4> QED BY <3>2, <4>1, <4>2, <1>4
    <3> QED BY <3>1, <3>2
  <2> DEFINE g == [k \in 0 .. n |-> Step(h, k)]
  <2>2. h = g
    <3> HIDE DEF Step, n
    <3> QED BY <2>1
  <2> QED BY <2>2
<1>6. A = CHOOSE g : Full(g)
  BY DEF Lifts, Out, b
<1>7. Full(A)
  <2> HIDE DEF Full, A, h
  <2> QED BY <1>5, <1>6
<1>8. \A k \in 0 .. n : A[k] = Step(A, k)
  <2> HIDE DEF A, Step, n
  <2> QED BY <1>7
<1>9. A[0] = b /\ \A k \in 1 .. n : A[k] = Out(A[k - 1], k)
  <2> HIDE DEF A, n
  <2> QED BY <1>1, <1>8
<1> HIDE DEF A
<1> QED BY <1>9 DEF A, Out, b

\* Rows that take up the room of their layer.
LEMMA FillsRun ==
    ASSUME NEW q, NEW order, NEW room, Len(order) \in Nat
    PROVE  /\ Fills(q, order, room)[0] = [rows |-> q, filled |-> 0]
           /\ \A k \in 1 .. Len(order) :
                 Fills(q, order, room)[k] =
                     FillOne(Fills(q, order, room)[k - 1], order[k], room,
                             Share(room, 1, Len(order)))
<1> DEFINE n == Len(order)
           Out(x, k) == FillOne(x, order[k], room, Share(room, 1, Len(order)))
           b == [rows |-> q, filled |-> 0]
           Step(f, k) == IF k = 0 THEN b ELSE Out(f[k - 1], k)
           Run(f, k) == f[0] = b /\ \A i \in 1 .. k : f[i] = Out(f[i - 1], i)
           Full(f) == f = [k \in 0 .. n |-> Step(f, k)]
           P == {k \in 0 .. n : \E f : Run(f, k)}
           A == Fills(q, order, room)
<1> HIDE DEF Out, b
<1>1. n \in Nat
  OBVIOUS
<1>2. 0 \in P
  <2> DEFINE f == [i \in {0} |-> b]
  <2>1. Run(f, 0)
    OBVIOUS
  <2> HIDE DEF f, Run, n
  <2> QED BY <1>1, <2>1
<1>3. ASSUME NEW k \in 1 .. n, k - 1 \in P PROVE k \in P
  <2>1. PICK f : Run(f, k - 1)
    <3> HIDE DEF Run
    <3> QED BY <1>3
  <2> DEFINE v == Out(f[k - 1], k)
             g == [i \in 0 .. k |-> IF i = k THEN v ELSE f[i]]
  <2>2. k \in Nat /\ k # 0 /\ k - 1 # k /\ k - 1 \in 0 .. k /\ 0 \in 0 .. k /\ k \in 0 .. k
        /\ k \in 0 .. n
    BY <1>1, <1>3
  <2>3. g[k] = v /\ \A i \in 0 .. k : i # k => g[i] = f[i]
    <3> HIDE DEF v
    <3> QED BY <2>2
  <2> HIDE DEF g
  <2>4. g[0] = b
    BY <2>1, <2>2, <2>3
  <2>5. ASSUME NEW i \in 1 .. k PROVE g[i] = Out(g[i - 1], i)
    <3>1. CASE i = k
      <4>1. g[k - 1] = f[k - 1]
        BY <2>2, <2>3
      <4> QED BY <3>1, <4>1, <2>3
    <3>2. CASE i # k
      <4>1. i \in 1 .. k - 1 /\ i \in 0 .. k /\ i - 1 \in 0 .. k /\ i - 1 # k
        BY <3>2, <2>2
      <4>2. g[i] = f[i] /\ g[i - 1] = f[i - 1]
        BY <4>1, <3>2, <2>3
      <4>3. f[i] = Out(f[i - 1], i)
        BY <4>1, <2>1
      <4> QED BY <4>2, <4>3
    <3> QED BY <3>1, <3>2
  <2>6. Run(g, k)
    BY <2>4, <2>5
  <2> HIDE DEF Run
  <2> QED BY <2>2, <2>6
<1>4. PICK f : Run(f, n)
  <2>1. 0 .. n \subseteq P
    <3> HIDE DEF P, n
    <3> QED BY <1>1, <1>2, <1>3, UpTo
  <2>2. n \in P
    <3> HIDE DEF P
    <3> QED BY <1>1, <2>1
  <2> HIDE DEF Run
  <2> QED BY <2>2
<1> DEFINE h == [k \in 0 .. n |-> f[k]]
<1>5. Full(h)
  <2>1. ASSUME NEW k \in 0 .. n PROVE f[k] = Step(h, k)
    <3>1. CASE k = 0
      BY <3>1, <1>4
    <3>2. CASE k # 0
      <4>1. k \in 1 .. n /\ k - 1 \in 0 .. n
        BY <3>2, <1>1
      <4>2. h[k - 1] = f[k - 1]
        <5> HIDE DEF n
        <5> QED BY <4>1
      <4> HIDE DEF h
      <4> QED BY <3>2, <4>1, <4>2, <1>4
    <3> QED BY <3>1, <3>2
  <2> DEFINE g == [k \in 0 .. n |-> Step(h, k)]
  <2>2. h = g
    <3> HIDE DEF Step, n
    <3> QED BY <2>1
  <2> QED BY <2>2
<1>6. A = CHOOSE g : Full(g)
  BY DEF Fills, Out, b
<1>7. Full(A)
  <2> HIDE DEF Full, A, h
  <2> QED BY <1>5, <1>6
<1>8. \A k \in 0 .. n : A[k] = Step(A, k)
  <2> HIDE DEF A, Step, n
  <2> QED BY <1>7
<1>9. A[0] = b /\ \A k \in 1 .. n : A[k] = Out(A[k - 1], k)
  <2> HIDE DEF A, n
  <2> QED BY <1>1, <1>8
<1> HIDE DEF A
<1> QED BY <1>9 DEF A, Out, b

\* Pairs that are cut.
LEMMA PairCutsRun ==
    ASSUME NEW q, NEW order, Len(order) \in Nat
    PROVE  /\ PairCuts(q, order)[0] = [rows |-> q, cut |-> {}, sum |-> 0]
           /\ \A k \in 1 .. Len(order) :
                 PairCuts(q, order)[k] = CutPair(PairCuts(q, order)[k - 1], order[k])
<1> DEFINE n == Len(order)
           Out(x, k) == CutPair(x, order[k])
           b == [rows |-> q, cut |-> {}, sum |-> 0]
           Step(f, k) == IF k = 0 THEN b ELSE Out(f[k - 1], k)
           Run(f, k) == f[0] = b /\ \A i \in 1 .. k : f[i] = Out(f[i - 1], i)
           Full(f) == f = [k \in 0 .. n |-> Step(f, k)]
           P == {k \in 0 .. n : \E f : Run(f, k)}
           A == PairCuts(q, order)
<1> HIDE DEF Out, b
<1>1. n \in Nat
  OBVIOUS
<1>2. 0 \in P
  <2> DEFINE f == [i \in {0} |-> b]
  <2>1. Run(f, 0)
    OBVIOUS
  <2> HIDE DEF f, Run, n
  <2> QED BY <1>1, <2>1
<1>3. ASSUME NEW k \in 1 .. n, k - 1 \in P PROVE k \in P
  <2>1. PICK f : Run(f, k - 1)
    <3> HIDE DEF Run
    <3> QED BY <1>3
  <2> DEFINE v == Out(f[k - 1], k)
             g == [i \in 0 .. k |-> IF i = k THEN v ELSE f[i]]
  <2>2. k \in Nat /\ k # 0 /\ k - 1 # k /\ k - 1 \in 0 .. k /\ 0 \in 0 .. k /\ k \in 0 .. k
        /\ k \in 0 .. n
    BY <1>1, <1>3
  <2>3. g[k] = v /\ \A i \in 0 .. k : i # k => g[i] = f[i]
    <3> HIDE DEF v
    <3> QED BY <2>2
  <2> HIDE DEF g
  <2>4. g[0] = b
    BY <2>1, <2>2, <2>3
  <2>5. ASSUME NEW i \in 1 .. k PROVE g[i] = Out(g[i - 1], i)
    <3>1. CASE i = k
      <4>1. g[k - 1] = f[k - 1]
        BY <2>2, <2>3
      <4> QED BY <3>1, <4>1, <2>3
    <3>2. CASE i # k
      <4>1. i \in 1 .. k - 1 /\ i \in 0 .. k /\ i - 1 \in 0 .. k /\ i - 1 # k
        BY <3>2, <2>2
      <4>2. g[i] = f[i] /\ g[i - 1] = f[i - 1]
        BY <4>1, <3>2, <2>3
      <4>3. f[i] = Out(f[i - 1], i)
        BY <4>1, <2>1
      <4> QED BY <4>2, <4>3
    <3> QED BY <3>1, <3>2
  <2>6. Run(g, k)
    BY <2>4, <2>5
  <2> HIDE DEF Run
  <2> QED BY <2>2, <2>6
<1>4. PICK f : Run(f, n)
  <2>1. 0 .. n \subseteq P
    <3> HIDE DEF P, n
    <3> QED BY <1>1, <1>2, <1>3, UpTo
  <2>2. n \in P
    <3> HIDE DEF P
    <3> QED BY <1>1, <2>1
  <2> HIDE DEF Run
  <2> QED BY <2>2
<1> DEFINE h == [k \in 0 .. n |-> f[k]]
<1>5. Full(h)
  <2>1. ASSUME NEW k \in 0 .. n PROVE f[k] = Step(h, k)
    <3>1. CASE k = 0
      BY <3>1, <1>4
    <3>2. CASE k # 0
      <4>1. k \in 1 .. n /\ k - 1 \in 0 .. n
        BY <3>2, <1>1
      <4>2. h[k - 1] = f[k - 1]
        <5> HIDE DEF n
        <5> QED BY <4>1
      <4> HIDE DEF h
      <4> QED BY <3>2, <4>1, <4>2, <1>4
    <3> QED BY <3>1, <3>2
  <2> DEFINE g == [k \in 0 .. n |-> Step(h, k)]
  <2>2. h = g
    <3> HIDE DEF Step, n
    <3> QED BY <2>1
  <2> QED BY <2>2
<1>6. A = CHOOSE g : Full(g)
  BY DEF PairCuts, Out, b
<1>7. Full(A)
  <2> HIDE DEF Full, A, h
  <2> QED BY <1>5, <1>6
<1>8. \A k \in 0 .. n : A[k] = Step(A, k)
  <2> HIDE DEF A, Step, n
  <2> QED BY <1>7
<1>9. A[0] = b /\ \A k \in 1 .. n : A[k] = Out(A[k - 1], k)
  <2> HIDE DEF A, n
  <2> QED BY <1>1, <1>8
<1> HIDE DEF A
<1> QED BY <1>9 DEF A, Out, b

-----------------------------------------------------------------------------
(***************************************************************************)
(* The passes of the engine over rows.                                     *)
(***************************************************************************)

\* Two rows of one index are both anchors.
OneFund(q) ==
    \A i, j \in DOMAIN q :
        i # j /\ Info[q[i].sym].index = Info[q[j].sym].index => Anchor(q[i]) /\ Anchor(q[j])

LEMMA FromOneFund ==
    ASSUME NEW p, NEW q, From(p, q), OneFund(q)
    PROVE  OneFund(p)
<1>1. PICK f \in [DOMAIN p -> DOMAIN q] :
         Distinct(f, DOMAIN p) /\ \A i \in DOMAIN p : p[i].sym = q[f[i]].sym
  BY DEF From
<1>2. SUFFICES ASSUME NEW i \in DOMAIN p, NEW j \in DOMAIN p, i # j,
                      Info[p[i].sym].index = Info[p[j].sym].index
               PROVE  Anchor(p[i]) /\ Anchor(p[j])
  BY DEF OneFund
<1> DEFINE a == f[i]  c == f[j]
<1>3. a \in DOMAIN q /\ c \in DOMAIN q /\ a # c /\ p[i].sym = q[a].sym /\ p[j].sym = q[c].sym
  BY <1>1, <1>2 DEF Distinct
<1> HIDE DEF a, c
<1>4. Anchor(q[a]) /\ Anchor(q[c])
  BY <1>2, <1>3 DEF OneFund
<1> QED BY <1>3, <1>4 DEF Anchor

LEMMA ShareOutsSame ==
    ASSUME NEW kept, Typed(kept), NEW removed, Len(removed) \in Nat
    PROVE  SameRows(ShareOuts(kept, removed)[Len(removed)], kept)
<1> DEFINE n == Len(removed)  A == ShareOuts(kept, removed)
           P == {k \in 0 .. n : SameRows(A[k], kept)}
<1>1. /\ A[0] = kept
      /\ \A k \in 1 .. n :
            A[k] = Spread(A[k - 1], In(A[k - 1], removed[k].layer), removed[k].w)
  BY ShareOutsRun
<1>2. n \in Nat
  OBVIOUS
<1> HIDE DEF A, n
<1>3. 0 \in P
  BY <1>1, <1>2, SameSelf
<1>4. ASSUME NEW k \in 1 .. n, k - 1 \in P PROVE k \in P
  <2> DEFINE x == A[k - 1]  I == In(x, removed[k].layer)  w == removed[k].w  y == Spread(x, I, w)
  <2>1. SameRows(x, kept)
    BY <1>4
  <2> HIDE DEF x, I, w
  <2>2. Typed(x)
    BY <2>1, SameFacts
  <2>3. SameRows(y, x)
    BY <2>2, SpreadSame
  <2> HIDE DEF y
  <2>4. SameRows(y, kept)
    BY <2>1, <2>3, SameTrans
  <2>5. A[k] = y /\ k \in 0 .. n
    BY <1>1, <1>2 DEF x, I, w, y
  <2> QED BY <2>4, <2>5
<1>5. 0 .. n \subseteq P
  <2> HIDE DEF P
  <2> QED BY <1>2, <1>3, <1>4, UpTo
<1>6. SameRows(A[n], kept)
  BY <1>2, <1>5
<1> QED BY <1>6 DEF A, n

\* One row per index, the anchors excepted: of those without an anchor only the best
\* stays, and there are no two best.
LEMMA DedupOneFund ==
    ASSUME NEW q, Typed(q)
    PROVE  /\ Typed(_dedup_same_index(q)) /\ OneFund(_dedup_same_index(q))
           /\ From(_dedup_same_index(q), q)
<1> DEFINE gone == {i \in DOMAIN q : ~Stays(q, i)}
           I == DOMAIN q \ gone
           kept == Pick(q, I)
           removed == Pick(q, gone)
<1>1. I \in SUBSET DOMAIN q /\ gone \in SUBSET DOMAIN q /\ \A i \in I : Stays(q, i)
  OBVIOUS
<1>2. _dedup_same_index(q) = ShareOuts(kept, removed)[Len(removed)]
  BY DEF _dedup_same_index
<1>3. /\ Len(q) \in Nat /\ DOMAIN q = 1 .. Len(q)
      /\ \A i \in DOMAIN q : q[i].score \in Int /\ i \in Int
  BY TypedIs DEF IsRow
<1> HIDE DEF I, gone
<1>4. /\ Typed(kept) /\ From(kept, q)
      /\ \E f \in [DOMAIN kept -> I] :
            Distinct(f, DOMAIN kept) /\ \A i \in DOMAIN kept : kept[i] = q[f[i]]
  BY <1>1, PickTyped
<1>5. Len(removed) \in Nat
  <2>1. Typed(removed)
    BY <1>1, PickTyped
  <2> HIDE DEF removed
  <2> QED BY <2>1, TypedIs
<1> HIDE DEF kept, removed
<1> DEFINE r == ShareOuts(kept, removed)[Len(removed)]
<1>6. SameRows(r, kept)
  BY <1>4, <1>5, ShareOutsSame
<1> HIDE DEF r
<1>7. Typed(r) /\ From(r, kept)
  BY <1>4, <1>6, SameFacts
<1>8. OneFund(kept)
  <2>1. PICK f \in [DOMAIN kept -> I] :
           Distinct(f, DOMAIN kept) /\ \A i \in DOMAIN kept : kept[i] = q[f[i]]
    BY <1>4
  <2>2. SUFFICES ASSUME NEW i \in DOMAIN kept, NEW j \in DOMAIN kept, i # j,
                        Info[kept[i].sym].index = Info[kept[j].sym].index
                 PROVE  Anchor(kept[i]) /\ Anchor(kept[j])
    BY DEF OneFund
  <2> DEFINE a == f[i]  c == f[j]
  <2>3. a \in I /\ c \in I /\ a # c /\ kept[i] = q[a] /\ kept[j] = q[c]
    BY <2>1, <2>2 DEF Distinct
  <2> HIDE DEF a, c
  <2>4. a \in DOMAIN q /\ c \in DOMAIN q /\ Stays(q, a) /\ Stays(q, c)
        /\ Info[q[a].sym].index = Info[q[c].sym].index
    BY <1>1, <2>2, <2>3
  <2>5. SameIndex(q, a) = SameIndex(q, c) /\ a \in SameIndex(q, a) /\ c \in SameIndex(q, a)
    BY <2>4 DEF SameIndex
  <2>6. CASE \E k \in SameIndex(q, a) : Anchor(q[k])
    BY <2>3, <2>4, <2>5, <2>6 DEF Stays
  <2>7. CASE ~\E k \in SameIndex(q, a) : Anchor(q[k])
    <3>1. q[a].score > q[c].score \/ (q[a].score = q[c].score /\ a <= c)
      BY <2>4, <2>5, <2>7 DEF Stays
    <3>2. q[c].score > q[a].score \/ (q[c].score = q[a].score /\ c <= a)
      BY <2>4, <2>5, <2>7 DEF Stays
    <3>3. q[a].score \in Int /\ q[c].score \in Int /\ a \in Int /\ c \in Int
      BY <1>3, <2>4
    <3> QED BY <2>3, <3>1, <3>2, <3>3
  <2> QED BY <2>6, <2>7
<1>9. From(r, q)
  BY <1>4, <1>7, FromFrom
<1>10. OneFund(r)
  BY <1>7, <1>8, FromOneFund
<1> QED BY <1>2, <1>7, <1>9, <1>10 DEF r

LEMMA WideBasisTyped ==
    ASSUME NEW q, Typed(q)
    PROVE  Typed(_constrain_core_wide_basis_cap(q))
<1>1. ASSUME NEW X, NEW w
      PROVE  Typed(Spread(Pick(q, DOMAIN q \ X), DOMAIN Pick(q, DOMAIN q \ X), w))
  <2> DEFINE I == DOMAIN q \ X  kept == Pick(q, I)  D == DOMAIN kept
  <2>1. I \in SUBSET DOMAIN q
    OBVIOUS
  <2> HIDE DEF I
  <2>2. Typed(kept)
    BY <2>1, PickTyped
  <2> HIDE DEF kept, D
  <2>3. SameRows(Spread(kept, D, w), kept)
    BY <2>2, SpreadSame
  <2>4. Typed(Spread(kept, D, w))
    BY <2>2, <2>3, SameFacts
  <2> QED BY <2>4 DEF kept, D, I
<1>2. _constrain_core_wide_basis_cap(q) = q
      \/ \E X, w : _constrain_core_wide_basis_cap(q)
                      = Spread(Pick(q, DOMAIN q \ X), DOMAIN Pick(q, DOMAIN q \ X), w)
  BY Zenon DEF _constrain_core_wide_basis_cap
<1>3. CASE _constrain_core_wide_basis_cap(q) = q
  BY <1>3
<1>4. CASE \E X, w : _constrain_core_wide_basis_cap(q)
                        = Spread(Pick(q, DOMAIN q \ X), DOMAIN Pick(q, DOMAIN q \ X), w)
  BY <1>4, <1>1
<1> QED BY <1>2, <1>3, <1>4

LEMMA TopUpTyped ==
    ASSUME NEW q, Typed(q), NEW budget
    PROVE  Typed(_reconcile_core_budget_topup(q, budget))
<1> DEFINE x == budget - Weight(q, DOMAIN q)
<1>1. _reconcile_core_budget_topup(q, budget) \in {q, WaterFilled(q, x)}
  BY DEF _reconcile_core_budget_topup
<1> HIDE DEF x
<1>2. Typed(WaterFilled(q, x))
  BY WaterSame, SameFacts
<1> QED BY <1>1, <1>2

LEMMA OneLessTyped ==
    ASSUME NEW st, Typed(st.rows), NEW cap
    PROVE  Typed(OneLess(st, cap).rows)
<1> DEFINE q == st.rows
           low == CHOOSE i \in Growth(q) : \A j \in Growth(q) :
                      q[i].score < q[j].score \/ (q[i].score = q[j].score /\ i <= j)
           I == DOMAIN q \ {low}
           p == WaterFilled(Pick(q, I), q[low].w)
           g == st.growth - q[low].w
<1>1. OneLess(st, cap) = st \/ OneLess(st, cap) = [rows |-> p, growth |-> g]
  BY DEF OneLess
<1>2. Typed(p)
  <2> DEFINE x == Pick(q, I)  w == q[low].w
  <2>1. I \in SUBSET DOMAIN q /\ Typed(q)
    OBVIOUS
  <2> HIDE DEF I, q
  <2>2. Typed(x)
    BY <2>1, PickTyped
  <2> HIDE DEF x, w
  <2>3. Typed(WaterFilled(x, w))
    BY <2>2, WaterSame, SameFacts
  <2> QED BY <2>3 DEF x, w
<1> HIDE DEF p, g
<1>3. [rows |-> p, growth |-> g].rows = p
  OBVIOUS
<1> QED BY <1>1, <1>2, <1>3

LEMMA GrowthTyped ==
    ASSUME NEW q, Typed(q)
    PROVE  Typed(_cap_core_growth_wide_basis(q))
<1> DEFINE cap == (Weight(q, DOMAIN q) * STRATEGY_META[Profile].growthCap) \div 100
           n == Len(q)  A == GrowthRounds(q, cap)
           P == {k \in 0 .. n : Typed(A[k].rows)}
<1>1. _cap_core_growth_wide_basis(q) = A[n].rows
  BY DEF _cap_core_growth_wide_basis
<1>2. n \in Nat
  BY TypedIs
<1> HIDE DEF cap
<1>3. /\ A[0] = [rows |-> q, growth |-> Weight(q, Growth(q))]
      /\ \A k \in 1 .. n : A[k] = OneLess(A[k - 1], cap)
  BY <1>2, GrowthRun
<1> HIDE DEF A, n
<1>4. 0 \in P
  BY <1>2, <1>3
<1>5. ASSUME NEW k \in 1 .. n, k - 1 \in P PROVE k \in P
  BY <1>2, <1>3, <1>5, OneLessTyped
<1>6. 0 .. n \subseteq P
  <2> HIDE DEF P
  <2> QED BY <1>2, <1>4, <1>5, UpTo
<1> QED BY <1>1, <1>2, <1>6

LEMMA EmptyTyped == Typed(<<>>) /\ Symbols(<<>>) = {}
BY DEF Typed, Elems, Symbols

LEMMA OneTyped ==
    ASSUME NEW r, IsRow(r)
    PROVE  Typed(<<r>>) /\ Symbols(<<r>>) = {r.sym}
<1>1. Elems(<<r>>) = {r}
  BY DEF Elems
<1>2. <<r>> \in Seq({r})
  OBVIOUS
<1> QED BY <1>1, <1>2 DEF Typed, Symbols

LEMMA ConcatTyped ==
    ASSUME NEW a, Typed(a), NEW b, Typed(b)
    PROVE  Typed(a \o b) /\ Symbols(a \o b) = Symbols(a) \cup Symbols(b)
<1> DEFINE A == Elems(a)  B == Elems(b)  T == A \cup B  c == a \o b
<1>1. a \in Seq(A) /\ b \in Seq(B) /\ \A r \in T : IsRow(r)
  BY DEF Typed
<1> HIDE DEF A, B
<1>2. a \in Seq(T) /\ b \in Seq(T)
  BY <1>1
<1> HIDE DEF T
<1>3. c \in Seq(T) /\ Elems(c) = Elems(a) \cup Elems(b)
  BY <1>2, ConcatSeq
<1>4. Elems(c) = T
  BY <1>3 DEF T, A, B
<1>5. \A q : Symbols(q) = {r.sym : r \in Elems(q)}
  BY DEF Symbols, Elems
<1> HIDE DEF c
<1>6. Typed(c)
  BY <1>1, <1>3, <1>4 DEF Typed
<1>7. Symbols(c) = Symbols(a) \cup Symbols(b)
  BY <1>3, <1>5
<1> QED BY <1>6, <1>7 DEF c

LEMMA AppendTyped ==
    ASSUME NEW a, Typed(a), NEW r, IsRow(r)
    PROVE  Typed(Append(a, r))
<1> DEFINE T == Elems(a)  one == <<r>>
<1>1. a \in Seq(T)
  BY DEF Typed
<1> HIDE DEF T
<1>2. Append(a, r) = a \o <<r>>
  BY <1>1
<1>3. Typed(one)
  BY OneTyped
<1> HIDE DEF one
<1>4. Typed(a \o one)
  BY <1>3, ConcatTyped
<1> QED BY <1>2, <1>4 DEF one

LEMMA TwoBestTyped ==
    ASSUME NEW T, Typed(T), Len(T) >= 1, NEW others, Typed(others), NEW total, NEW cap
    PROVE  Typed(TwoBest(T, others, total, cap))
<1>1. ASSUME NEW one, NEW two
      PROVE  LET k == Spread(others, DOMAIN others, total - one - two)
                      \o <<Weighing(T[1], one)>>
                      \o (IF two > 0 THEN <<Weighing(T[2], two)>> ELSE <<>>)
             IN  Len(T) > 1 \/ two = 0 => Typed(k)
  <2> DEFINE D == DOMAIN others  x == total - one - two
             a == Spread(others, D, x)
             b == Weighing(T[1], one)
             c == Weighing(T[2], two)
             d == IF two > 0 THEN <<c>> ELSE <<>>
  <2>1. Typed(a)
    <3> HIDE DEF D, x
    <3> QED BY SpreadSame, SameFacts
  <2>2. Len(T) \in Nat /\ \A i \in 1 .. Len(T) : IsRow(T[i])
    BY TypedIs
  <2>3. IsRow(b)
    <3>1. IsRow(T[1])
      BY <2>2
    <3> QED BY <3>1, WeighingFields
  <2>4. Len(T) > 1 => IsRow(c)
    <3>1. Len(T) > 1 => IsRow(T[2])
      BY <2>2
    <3> QED BY <3>1, WeighingFields
  <2> HIDE DEF a, b, c
  <2>5. ASSUME Len(T) > 1 \/ two = 0 PROVE Typed(d)
    <3>1. CASE two > 0 /\ Len(T) > 1
      BY <2>4, <3>1, OneTyped
    <3>2. CASE ~(two > 0)
      BY <3>2, EmptyTyped
    <3>3. CASE two = 0
      BY <3>3, EmptyTyped
    <3> QED BY <2>5, <3>1, <3>2, <3>3
  <2> HIDE DEF d
  <2> DEFINE e == <<b>>  f == a \o e
  <2>6. Typed(e)
    BY <2>3, OneTyped
  <2> HIDE DEF e
  <2>7. Typed(f)
    BY <2>1, <2>6, ConcatTyped
  <2> HIDE DEF f
  <2>8. ASSUME Len(T) > 1 \/ two = 0 PROVE Typed(f \o d)
    BY <2>5, <2>7, <2>8, ConcatTyped
  <2> QED BY <2>8 DEF f, e, d, c, b, a
<1> DEFINE one == AtMost(T[1].w, cap)
           two == IF Len(T) > 1 THEN AtMost(T[2].w, cap - one) ELSE 0
<1>2. Len(T) > 1 \/ two = 0
  OBVIOUS
<1>3. TwoBest(T, others, total, cap) =
         Spread(others, DOMAIN others, total - one - two)
         \o <<Weighing(T[1], one)>>
         \o (IF two > 0 THEN <<Weighing(T[2], two)>> ELSE <<>>)
  BY DEF TwoBest
<1> HIDE DEF one, two
<1> QED BY <1>1, <1>2, <1>3

LEMMA QuotaTyped ==
    ASSUME NEW q, Typed(q), NEW budget
    PROVE  Typed(_constrain_satellite_tech_quota(q, budget))
<1> DEFINE cap == (budget * (IF Profile = "defensive" THEN 40 ELSE 50)) \div 100
           tech == {i \in DOMAIN q : Info[q[i].sym].tech}
           T == Pick(q, tech)  others == Pick(q, DOMAIN q \ tech)  total == Weight(q, tech)
<1>1. CASE tech = {}
  BY <1>1 DEF _constrain_satellite_tech_quota
<1>2. CASE tech # {}
  <2>1. tech \in SUBSET DOMAIN q /\ (DOMAIN q \ tech) \in SUBSET DOMAIN q
    OBVIOUS
  <2>2. \/ _constrain_satellite_tech_quota(q, budget) = q
        \/ _constrain_satellite_tech_quota(q, budget) = TwoBest(T, others, total, cap)
    BY DEF _constrain_satellite_tech_quota
  <2> HIDE DEF tech
  <2>3. Typed(T) /\ Symbols(T) = {q[i].sym : i \in tech}
    BY <2>1, PickTyped
  <2>4. Typed(others)
    <3> DEFINE I == DOMAIN q \ tech
    <3>1. I \in SUBSET DOMAIN q
      BY <2>1
    <3> HIDE DEF I
    <3>2. Typed(Pick(q, I))
      BY <3>1, PickTyped
    <3> QED BY <3>2 DEF I
  <2> HIDE DEF T, others, cap, total
  <2>5. Len(T) >= 1
    <3>1. Len(T) \in Nat /\ DOMAIN T = 1 .. Len(T)
      BY <2>3, TypedIs
    <3>2. Symbols(T) # {}
      BY <1>2, <2>3
    <3>3. DOMAIN T # {}
      BY <3>2 DEF Symbols
    <3> QED BY <3>1, <3>3
  <2>6. Typed(TwoBest(T, others, total, cap))
    BY <2>3, <2>4, <2>5, TwoBestTyped
  <2> QED BY <2>2, <2>6
<1> QED BY <1>1, <1>2

LEMMA SizedTyped ==
    ASSUME NEW n \in Nat, NEW draft, DOMAIN draft = 1 .. n, NEW l \in Layers, NEW budget,
           \A i \in 1 .. n : draft[i].sym \in Instruments /\ draft[i].score \in Int
    PROVE  Typed(Sized(draft, l, budget))
<1> DEFINE w == _power_law_weights([i \in DOMAIN draft |-> draft[i].score], budget)
           rs == [i \in DOMAIN draft |-> Row(draft[i].sym, l, w[i], draft[i].score)]
<1>1. Sized(draft, l, budget) =
          IF l = "satellite" THEN _constrain_satellite_tech_quota(rs, budget) ELSE rs
  BY DEF Sized
<1> HIDE DEF w
<1>2. Typed(rs)
  <2>1. \A i \in 1 .. n : IsRow(rs[i])
    BY RowFields DEF IsRow
  <2>2. rs = [i \in 1 .. n |-> rs[i]]
    OBVIOUS
  <2> HIDE DEF rs
  <2> QED BY <2>1, <2>2, TypedIs
<1> HIDE DEF rs
<1> QED BY <1>1, <1>2, QuotaTyped

\* The order of the candidates picks each position of good once: two of one score have
\* different segments and these begin at different positions.
LEMMA ByScoreIs ==
    ASSUME NEW q \in Seq(Instruments), NEW l, NEW sc \in [DOMAIN q -> Int]
    PROVE  \E n \in Nat, good \in SUBSET DOMAIN q : Picks(ByScore(q, l, sc), n, good)
<1> DEFINE same(i) == {j \in DOMAIN q : Info[q[j]].segment = Info[q[i]].segment}
           first(i) == CHOOSE j \in same(i) : \A k \in same(i) : j <= k
           best == {i \in DOMAIN q : \A j \in same(i) : sc[i] > sc[j] \/ (sc[i] = sc[j] /\ i <= j)}
           good == {i \in best : l = "satellite" => sc[i] > -20}
           lt(i, j) == sc[i] > sc[j] \/ (sc[i] = sc[j] /\ first(i) < first(j))
           p == Sorted(good, lt)
           v == [i \in good |-> sc[i]]
           t == [i \in good |-> first(i)]
<1>1. Len(q) \in Nat /\ DOMAIN q = 1 .. Len(q)
  OBVIOUS
<1>2. good \in SUBSET DOMAIN q /\ IsFiniteSet(good)
  <2>1. good \in SUBSET (1 .. Len(q))
    BY <1>1
  <2> HIDE DEF good
  <2> QED BY <1>1, <2>1, DomainIsFinite
<1>3. ASSUME NEW i \in DOMAIN q PROVE first(i) \in same(i) /\ first(i) \in Int
  <2> DEFINE I == same(i)  n == Len(q)  z == [k \in I |-> 0]
  <2>1. n \in Nat /\ I \in SUBSET (1 .. n) /\ I # {} /\ z \in [I -> Int]
    BY <1>1
  <2>2. \A k \in I : z[k] = 0 /\ k \in Int
    BY <2>1
  <2> HIDE DEF I, n, z
  <2>3. \E j \in I : \A k \in I : z[j] > z[k] \/ (z[j] = z[k] /\ j <= k)
    BY <2>1, BestPosition
  <2>4. \E j \in I : \A k \in I : j <= k
    BY <2>2, <2>3
  <2>5. (CHOOSE j \in I : \A k \in I : j <= k) \in I
    BY <2>4
  <2>6. first(i) \in I
    BY <2>5 DEF I
  <2> QED BY <2>2, <2>6 DEF I
<1>4. ASSUME NEW i \in good, NEW j \in good, first(i) = first(j) PROVE i = j
  <2>1. i \in DOMAIN q /\ j \in DOMAIN q /\ i \in Int /\ j \in Int /\ sc[i] \in Int /\ sc[j] \in Int
    BY <1>1, <1>2
  <2>2. first(i) \in same(i) /\ first(j) \in same(j)
    <3> HIDE DEF first, same, good
    <3> QED BY <1>3, <2>1
  <2> DEFINE a == first(i)
  <2>3. a \in same(i) /\ a \in same(j)
    <3> HIDE DEF first, same, good
    <3> QED BY <1>4, <2>2
  <2> HIDE DEF a, first
  <2>4. i \in same(j) /\ j \in same(i)
    BY <2>1, <2>3
  <2>5. sc[i] > sc[j] \/ (sc[i] = sc[j] /\ i <= j)
    BY <2>4
  <2>6. sc[j] > sc[i] \/ (sc[j] = sc[i] /\ j <= i)
    BY <2>4
  <2> QED BY <2>1, <2>5, <2>6
<1>5. v \in [good -> Int] /\ t \in [good -> Int] /\ Distinct(t, good)
  <2>1. \A i \in good : sc[i] \in Int /\ first(i) \in Int
    BY <1>2, <1>3
  <2> HIDE DEF good, first
  <2> QED BY <1>4, <2>1 DEF Distinct
<1>6. ByRank(p, good, v, t)
  <2> DEFINE Place(i) == CHOOSE x \in good : Cardinality({y \in good : lt(y, x)}) = i - 1
  <2>1. p = [i \in 1 .. Cardinality(good) |-> Place(i)]
    <3> HIDE DEF good
    <3> QED BY DEF Sorted
  <2>2. \A x \in good : Before(good, v, t, x) = {y \in good : lt(y, x)}
    <3> HIDE DEF good, first
    <3> QED BY DEF Before
  <2>3. ASSUME NEW i \in 1 .. Cardinality(good), NEW z \in good,
               Cardinality(Before(good, v, t, z)) = i - 1
        PROVE  p[i] \in good /\ Cardinality(Before(good, v, t, p[i])) = i - 1
    <3>1. p[i] = Place(i)
      <4> HIDE DEF p, Place
      <4> QED BY <2>1
    <3> HIDE DEF v, t, good, p, lt
    <3>2. Cardinality({y \in good : lt(y, z)}) = i - 1
      BY <2>2, <2>3
    <3>3. p[i] \in good /\ Cardinality({y \in good : lt(y, p[i])}) = i - 1
      BY <3>1, <3>2
    <3> QED BY <3>3, <2>2
  <2> HIDE DEF v, t, good, p
  <2>4. p = [i \in 1 .. Cardinality(good) |-> p[i]]
    <3> HIDE DEF Place
    <3> QED BY <2>1
  <2> QED BY <2>3, <2>4 DEF ByRank
<1>7. ByScore(q, l, sc) = p
  BY Zenon DEF ByScore
<1> HIDE DEF v, t, good, p
<1>8. Cardinality(good) \in Nat /\ Picks(p, Cardinality(good), good)
  BY <1>2, <1>5, <1>6, SortedIsList
<1> QED BY <1>2, <1>7, <1>8

LEMMA CompositeInt ==
    ASSUME market \in MarketRecord, NEW s \in Instruments, NEW penalized
    PROVE  market.score[s] \in Int /\ Composite(s, penalized) \in Int
<1>1. market.score[s] \in Int
  BY DEF MarketRecord
<1>2. C2(s, Profile) \in Int
  BY DEF C2
<1> QED BY <1>1, <1>2 DEF Composite

\* A draft is a list of instruments with scores.
IsDraft(d) ==
    \E n \in Nat : DOMAIN d = 1 .. n
                   /\ \A i \in 1 .. n : d[i].sym \in Instruments /\ d[i].score \in Int

LEMMA DraftIs ==
    ASSUME market \in MarketRecord, NEW q \in Seq(Instruments), NEW l, NEW max \in Nat,
           NEW penalized
    PROVE  IsDraft(_select_draft(q, l, max, penalized))
<1> DEFINE sc == [i \in DOMAIN q |-> Composite(q[i], penalized)]
           order == ByScore(q, l, sc)
           d == Drafted(q, order, max, sc)
<1>1. Len(q) \in Nat /\ DOMAIN q = 1 .. Len(q) /\ \A i \in DOMAIN q : q[i] \in Instruments
  OBVIOUS
<1>2. sc \in [DOMAIN q -> Int]
  BY <1>1, CompositeInt
<1>3. _select_draft(q, l, max, penalized) = d
  BY DEF _select_draft
<1> HIDE DEF sc
<1>4. PICK n \in Nat, good \in SUBSET DOMAIN q : Picks(order, n, good)
  BY <1>2, ByScoreIs
<1> HIDE DEF order
<1>5. Len(order) = n /\ \A k \in 1 .. n : order[k] \in DOMAIN q
  BY <1>4 DEF Picks
<1> DEFINE m == AtMost(max, Len(order))
<1>6. m \in Nat /\ m <= n
  BY <1>5 DEF AtMost
<1>7. d = [k \in 1 .. m |-> [sym |-> q[order[k]], score |-> sc[order[k]]]]
  BY DEF Drafted
<1> HIDE DEF m, d
<1>8. ASSUME NEW k \in 1 .. m PROVE d[k].sym \in Instruments /\ d[k].score \in Int
  <2>1. order[k] \in DOMAIN q
    BY <1>5, <1>6
  <2>2. q[order[k]] \in Instruments /\ sc[order[k]] \in Int
    BY <1>1, <1>2, <2>1
  <2>3. d[k].sym = q[order[k]] /\ d[k].score = sc[order[k]]
    BY <1>7
  <2> QED BY <2>2, <2>3
<1>9. DOMAIN d = 1 .. m
  BY <1>7
<1> QED BY <1>3, <1>6, <1>8, <1>9 DEF IsDraft

LEMMA SelectTyped ==
    ASSUME market \in MarketRecord, NEW q \in Seq(Instruments), NEW budget, NEW l \in Layers,
           NEW max \in Nat, NEW penalized, NEW anchors
    PROVE  Typed(_select_and_weight(q, budget, l, max, penalized, anchors))
<1> DEFINE mandatory == Among(q, anchors)
           fixed == [i \in DOMAIN mandatory |->
                        Row(mandatory[i], l, MANDATORY_MIN_WEIGHT, market.score[mandatory[i]])]
           rest == Among(q, Instruments \ anchors)
           draft == _select_draft(rest, l, max, penalized)
           left == budget - MANDATORY_MIN_WEIGHT * Len(mandatory)
           sized == IF left <= 0 \/ draft = <<>> THEN <<>> ELSE Sized(draft, l, left)
<1>1. \/ _select_and_weight(q, budget, l, max, penalized, anchors) = <<>>
      \/ _select_and_weight(q, budget, l, max, penalized, anchors) = fixed \o sized
  BY DEF _select_and_weight
<1>2. mandatory \in Seq(Instruments)
  BY AmongSeq
<1>3. rest \in Seq(Instruments)
  <2> DEFINE S == Instruments \ anchors
  <2> HIDE DEF S
  <2>1. Among(q, S) \in Seq(Instruments)
    BY AmongSeq
  <2> QED BY <2>1 DEF S
<1> HIDE DEF mandatory, rest
<1>4. Typed(fixed)
  <2> DEFINE n == Len(mandatory)
  <2>1. n \in Nat /\ DOMAIN mandatory = 1 .. n /\ \A i \in 1 .. n : mandatory[i] \in Instruments
    BY <1>2
  <2>2. \A i \in 1 .. n : market.score[mandatory[i]] \in Int
    BY <2>1, CompositeInt
  <2>3. \A i \in 1 .. n : IsRow(fixed[i])
    BY <2>1, <2>2, RowFields DEF IsRow
  <2>4. fixed = [i \in 1 .. n |-> fixed[i]]
    BY <2>1
  <2> HIDE DEF fixed, n
  <2> QED BY <2>1, <2>3, <2>4, TypedIs
<1>5. IsDraft(draft)
  BY <1>3, DraftIs
<1> HIDE DEF draft, left, fixed
<1>6. Typed(sized)
  <2>1. PICK n \in Nat : DOMAIN draft = 1 .. n
                   /\ \A i \in 1 .. n : draft[i].sym \in Instruments /\ draft[i].score \in Int
    BY <1>5 DEF IsDraft
  <2>2. Typed(Sized(draft, l, left))
    BY <2>1, SizedTyped
  <2> QED BY <2>2, EmptyTyped
<1> HIDE DEF sized
<1>7. Typed(fixed \o sized)
  BY <1>4, <1>6, ConcatTyped
<1> QED BY <1>1, <1>7, EmptyTyped DEF fixed, sized, draft, left, mandatory, rest

LEMMA FirstOfSegmentSeq ==
    ASSUME NEW q \in Seq(Instruments)
    PROVE  FirstOfSegment(q) \in Seq(Instruments)
<1> DEFINE I == {i \in DOMAIN q : /\ Info[q[i]].segment \notin segments
                                  /\ \A j \in 1..(i - 1) :
                                        Info[q[j]].segment # Info[q[i]].segment}
<1>1. FirstOfSegment(q) = Pick(q, I)
  BY DEF FirstOfSegment
<1>2. I \in SUBSET DOMAIN q
  OBVIOUS
<1> HIDE DEF I
<1> QED BY <1>1, <1>2, PickSeq

LEMMA BestIs ==
    ASSUME market \in MarketRecord, NEW q \in Seq(Instruments), q # <<>>
    PROVE  Best(q) \in Instruments
<1> DEFINE n == Len(q)  I == DOMAIN q  v == [i \in I |-> market.score[q[i]]]
           Ok(s) == \E i \in DOMAIN q : q[i] = s /\ \A j \in DOMAIN q :
                        \/ market.score[s] > market.score[q[j]]
                        \/ market.score[s] = market.score[q[j]] /\ i <= j
<1>1. n \in Nat /\ DOMAIN q = 1 .. n /\ \A i \in DOMAIN q : q[i] \in Instruments
  OBVIOUS
<1>2. I \in SUBSET (1 .. n) /\ I # {}
  <2>1. Len(q) # 0
    OBVIOUS
  <2>2. 1 \in 1 .. n
    BY <1>1, <2>1
  <2> QED BY <1>1, <2>2
<1>3. v \in [I -> Int] /\ \A i \in I : v[i] = market.score[q[i]]
  BY <1>1, CompositeInt
<1> HIDE DEF v, n
<1>4. \E j \in I : \A k \in I : v[j] > v[k] \/ (v[j] = v[k] /\ j <= k)
  <2>1. n \in Nat /\ I \in SUBSET (1 .. n) /\ I # {} /\ v \in [I -> Int]
    BY <1>1, <1>2, <1>3
  <2> HIDE DEF I
  <2> QED BY <2>1, BestPosition
<1>5. \E s \in Elems(q) : Ok(s)
  BY <1>3, <1>4 DEF Elems
<1>6. Best(q) = CHOOSE s \in Elems(q) : Ok(s)
  BY DEF Best
<1> HIDE DEF Ok
<1>7. Best(q) \in Elems(q)
  BY <1>5, <1>6
<1> QED BY <1>1, <1>7 DEF Elems

LEMMA CorePoolSeq ==
    ASSUME market \in MarketRecord, pool \in PoolType
    PROVE  CorePool \in Seq(Instruments)
<1> DEFINE core == pool.core
           all == FirstOfSegment(core)
           A == MANDATORY_CODES \cup (Instruments \ prevCore)
           fresh == Among(all, A)
           B == Instruments \ Elems(fresh)
           rest == Among(all, B)
<1>1. core \in Seq(Instruments)
  BY DEF PoolType, Layers
<1> HIDE DEF core
<1>2. all \in Seq(Instruments)
  BY <1>1, FirstOfSegmentSeq
<1> HIDE DEF all, A
<1>3. fresh \in Seq(Instruments)
  BY <1>2, AmongSeq
<1> HIDE DEF fresh, B
<1>4. rest \in Seq(Instruments)
  BY <1>2, AmongSeq
<1> HIDE DEF rest
<1>5. CorePool = fresh \/ (rest # <<>> /\ CorePool = Append(fresh, Best(rest)))
  BY DEF CorePool, fresh, rest, A, B, all, core
<1>6. rest # <<>> => Best(rest) \in Instruments
  BY <1>4, BestIs
<1> QED BY <1>3, <1>5, <1>6

LEMMA AnchorsFinite == \A S : Cardinality(S \cap MANDATORY_CODES) \in Nat
<1>1. ASSUME NEW S PROVE Cardinality(S \cap MANDATORY_CODES) \in Nat
  <2>1. IsFiniteSet(S \cap MANDATORY_CODES)
    BY PoolAssumption, FS_Subset
  <2> QED BY <2>1, FS_CardinalityType
<1> QED BY <1>1

LEMMA CountsAreNat ==
    ASSUME turn \in 1 .. 3
    PROVE  /\ Profile \in {"defensive", "balanced", "aggressive"}
           /\ \A l \in Layers : Count(l) \in Nat
<1>1. Profile \in {"defensive", "balanced", "aggressive"}
  BY DEF Profile, Profiles
<1> QED BY <1>1 DEF Count, Layers, STRATEGY_META

LEMMA CoreTyped ==
    ASSUME market \in MarketRecord, pool \in PoolType, turn \in 1 .. 3, NEW budget
    PROVE  Typed(_select_and_weight(CorePool, budget, "core",
               AtLeast(1, Count("core") - Cardinality(Elems(pool.core) \cap MANDATORY_CODES)),
               used.core, CoreAnchors))
<1> DEFINE q == CorePool  penalized == used.core  l == "core"
           c == Count("core")  k == Cardinality(Elems(pool.core) \cap MANDATORY_CODES)
           max == AtLeast(1, c - k)
<1>1. q \in Seq(Instruments) /\ l \in Layers
  BY CorePoolSeq DEF Layers
<1>2. c \in Nat
  BY CountsAreNat DEF Layers
<1>3. k \in Nat
  BY AnchorsFinite
<1>4. max \in Nat
  <2> HIDE DEF c, k
  <2> QED BY <1>2, <1>3 DEF AtLeast
<1> HIDE DEF q, penalized, max, l
<1>5. Typed(_select_and_weight(q, budget, l, max, penalized, CoreAnchors))
  BY <1>1, <1>4, SelectTyped
<1> QED BY <1>5 DEF q, penalized, max, l, c, k

LEMMA DiversifyTyped == Typed(rows) /\ Diversify => Typed(rows')
<1> DEFINE cut == AtMost(500 \div Len(rows), 300)  I == DOMAIN rows
           h == [i \in DOMAIN rows |-> AtLeast(rows[i].w - cut, MIN_WEIGHT)]
           p == [i \in DOMAIN rows |-> IF i \in I THEN Weighing(rows[i], h[i]) ELSE rows[i]]
<1>1. SUFFICES ASSUME Typed(rows), Diversify PROVE Typed(rows')
  OBVIOUS
<1>2. rows' = rows \/ rows' = p
  BY <1>1 DEF Diversify, Pass, Reweighted
<1>3. SameRows(p, rows)
  <2> HIDE DEF h, I
  <2> QED BY <1>1, NewWeights
<1> HIDE DEF p
<1> QED BY <1>1, <1>2, <1>3, SameFacts

LEMMA PickedSeq ==
    ASSUME NEW q \in Seq(Instruments), NEW n \in Nat, NEW f, NEW m \in Nat, m <= n,
           NEW I \in SUBSET DOMAIN q, Picks(f, n, I)
    PROVE  [k \in 1 .. m |-> q[f[k]]] \in Seq(Instruments)
<1>1. \A i \in DOMAIN q : q[i] \in Instruments
  OBVIOUS
<1>2. \A k \in 1 .. n : f[k] \in I
  BY DEF Picks
<1>3. \A k \in 1 .. m : k \in 1 .. n
  OBVIOUS
<1>4. \A k \in 1 .. m : q[f[k]] \in Instruments
  BY <1>1, <1>2, <1>3
<1> DEFINE p == [k \in 1 .. m |-> q[f[k]]]
<1>5. p \in [1 .. m -> Instruments]
  BY <1>4
<1> HIDE DEF p
<1>6. p \in Seq(Instruments)
  BY <1>5
<1> QED BY <1>6 DEF p

LEMMA FilterSeq ==
    ASSUME market \in MarketRecord, pool \in PoolType
    PROVE  _filter_satellite_by_profile \in Seq(Instruments)
<1> DEFINE q == pool.satellite
           better(i, j) == LET a == market.score[q[i]]
                               b == market.score[q[j]]
                           IN  IF a = b THEN i < j ELSE (a < b) = (Profile = "defensive")
           S == DOMAIN q
           p == Sorted(S, better)
           v == [i \in S |-> IF Profile = "defensive" THEN 0 - market.score[q[i]]
                             ELSE market.score[q[i]]]
           t == [i \in S |-> i]
           Place(i) == CHOOSE x \in S : Cardinality({y \in S : better(y, x)}) = i - 1
<1>1. q \in Seq(Instruments)
  BY DEF PoolType, Layers
<1>2. _filter_satellite_by_profile =
          Among([k \in DOMAIN p |-> q[p[k]]], {s \in Instruments : ~Info[s].wide})
  BY Zenon DEF _filter_satellite_by_profile
<1> HIDE DEF q
<1>3. Len(q) \in Nat /\ DOMAIN q = 1 .. Len(q) /\ \A i \in DOMAIN q : q[i] \in Instruments
  BY <1>1
<1>4. S \in SUBSET Int /\ IsFiniteSet(S)
  BY <1>3, DomainIsFinite
<1>5. \A i \in S : market.score[q[i]] \in Int /\ i \in Int
  BY <1>3, CompositeInt
<1>6. v \in [S -> Int] /\ t \in [S -> Int] /\ Distinct(t, S)
  <2> HIDE DEF S
  <2> QED BY <1>5 DEF Distinct
<1>7. \A x \in S : Before(S, v, t, x) = {y \in S : better(y, x)}
  <2>1. ASSUME NEW x \in S, NEW y \in S
        PROVE  (v[y] > v[x] \/ (v[y] = v[x] /\ t[y] < t[x])) <=> better(y, x)
    <3> HIDE DEF S
    <3> QED BY <1>5
  <2> HIDE DEF S, v, t, better
  <2> QED BY <2>1 DEF Before
<1>8. p = [i \in 1 .. Cardinality(S) |-> Place(i)]
  <2> HIDE DEF S
  <2> QED BY DEF Sorted
<1>9. ASSUME NEW i \in 1 .. Cardinality(S), NEW z \in S,
             Cardinality(Before(S, v, t, z)) = i - 1
      PROVE  p[i] \in S /\ Cardinality(Before(S, v, t, p[i])) = i - 1
  <2>1. p[i] = Place(i)
    <3> HIDE DEF p, Place
    <3> QED BY <1>8
  <2> HIDE DEF v, t, S, p, better
  <2>2. Cardinality({y \in S : better(y, z)}) = i - 1
    BY <1>7, <1>9
  <2>3. p[i] \in S /\ Cardinality({y \in S : better(y, p[i])}) = i - 1
    BY <2>1, <2>2
  <2> QED BY <2>3, <1>7
<1>10. p = [i \in 1 .. Cardinality(S) |-> p[i]]
  <2> HIDE DEF Place, p
  <2> QED BY <1>8
<1> HIDE DEF v, t, p, Place, better
<1>11. ByRank(p, S, v, t)
  BY <1>9, <1>10 DEF ByRank
<1>12. Cardinality(S) \in Nat /\ Picks(p, Cardinality(S), S)
  <2> HIDE DEF S
  <2> QED BY <1>4, <1>6, <1>11, SortedIsList
<1> DEFINE n == Cardinality(S)  r == [k \in DOMAIN p |-> q[p[k]]]
           wanted == {s \in Instruments : ~Info[s].wide}
<1>13. r \in Seq(Instruments)
  <2>1. DOMAIN p = 1 .. n /\ n \in Nat /\ n <= n /\ Picks(p, n, S)
    BY <1>12 DEF Picks
  <2> HIDE DEF n
  <2>2. [k \in 1 .. n |-> q[p[k]]] \in Seq(Instruments)
    BY <1>1, <2>1, PickedSeq
  <2> QED BY <2>1, <2>2
<1> HIDE DEF r, wanted
<1>14. Among(r, wanted) \in Seq(Instruments)
  BY <1>13, AmongSeq
<1> QED BY <1>2, <1>14 DEF r, wanted

LEMMA ScaledTyped ==
    ASSUME NEW q, Typed(q), NEW budget
    PROVE  Typed(ScaledTo(q, budget))
<1>1. SameRows(ScaledTo(q, budget), q)
  BY ScaledSame
<1> QED BY <1>1, SameFacts

LEMMA SatellitesTyped ==
    ASSUME market \in MarketRecord, pool \in PoolType, turn \in 1 .. 3, Typed(rows),
           SelectSatellites
    PROVE  Typed(rows')
<1> DEFINE f == _filter_satellite_by_profile
           q == FirstOfSegment(f)
           b == Budget("satellite")  c == Count("satellite")  pen == used.satellite
           l == "satellite"
           new == _select_and_weight(q, b, l, c, pen, {})
           scaled == ScaledTo(new, b)
<1>1. rows' = rows \o scaled
  BY DEF SelectSatellites, Pass
<1>2. f \in Seq(Instruments)
  BY FilterSeq
<1> HIDE DEF f
<1>3. q \in Seq(Instruments)
  BY <1>2, FirstOfSegmentSeq
<1>4. c \in Nat /\ l \in Layers
  BY CountsAreNat DEF Layers
<1> HIDE DEF q, b, c, l, pen
<1>5. Typed(new)
  <2> DEFINE none == {}
  <2> HIDE DEF none
  <2>1. Typed(_select_and_weight(q, b, l, c, pen, none))
    BY <1>3, <1>4, SelectTyped
  <2> QED BY <2>1 DEF none
<1> HIDE DEF new
<1>6. Typed(scaled)
  BY <1>5, ScaledTyped
<1> HIDE DEF scaled
<1> QED BY <1>1, <1>6, ConcatTyped

LEMMA BackupTyped ==
    ASSUME market \in MarketRecord, pool \in PoolType, Typed(rows), BackupSatellites
    PROVE  Typed(rows')
<1> DEFINE sat == In(rows, "satellite")
           need == 4 - Cardinality(sat)
           core == pool.core
           wanted == {s \in Instruments \ Symbols(rows) :
                         ~Info[s].wide /\ ~(Profile = "defensive" /\ Info[s].tech)}
           spare == Among(core, wanted)
           S == DOMAIN spare
           lt(i, j) == \/ market.score[spare[i]] > market.score[spare[j]]
                       \/ market.score[spare[i]] = market.score[spare[j]] /\ i < j
           p == Sorted(S, lt)
           m == AtMost(need, Len(p))
           backup == [k \in 1 .. m |-> spare[p[k]]]
           left == AtLeast(0, Budget("satellite") - Weight(rows, sat))
           pen == used.satellite
           new == _select_and_weight(backup, left, "satellite", need, pen, {})
           scaled == ScaledTo(new, left)
<1>1. rows' = rows \/ (need > 0 /\ rows' = rows \o scaled)
  BY Zenon DEF BackupSatellites, Pass
<1>2. core \in Seq(Instruments)
  BY DEF PoolType, Layers
<1> HIDE DEF core, wanted
<1>3. spare \in Seq(Instruments)
  BY <1>2, AmongSeq
<1> HIDE DEF spare
<1>4. Len(spare) \in Nat /\ S = 1 .. Len(spare) /\ \A i \in S : spare[i] \in Instruments
  BY <1>3
<1>5. S \in SUBSET Int /\ IsFiniteSet(S)
  BY <1>4, DomainIsFinite
<1> DEFINE v == [i \in S |-> market.score[spare[i]]]
           t == [i \in S |-> i]
           Place(i) == CHOOSE x \in S : Cardinality({y \in S : lt(y, x)}) = i - 1
<1>6. v \in [S -> Int] /\ t \in [S -> Int] /\ Distinct(t, S)
  <2>1. \A i \in S : market.score[spare[i]] \in Int /\ i \in Int
    BY <1>4, CompositeInt
  <2> HIDE DEF S
  <2> QED BY <2>1 DEF Distinct
<1>7. \A x \in S : Before(S, v, t, x) = {y \in S : lt(y, x)}
  <2> HIDE DEF S
  <2> QED BY DEF Before
<1>8. p = [i \in 1 .. Cardinality(S) |-> Place(i)]
  <2> HIDE DEF S
  <2> QED BY DEF Sorted
<1>9. ASSUME NEW i \in 1 .. Cardinality(S), NEW z \in S,
             Cardinality(Before(S, v, t, z)) = i - 1
      PROVE  p[i] \in S /\ Cardinality(Before(S, v, t, p[i])) = i - 1
  <2>1. p[i] = Place(i)
    <3> HIDE DEF p, Place
    <3> QED BY <1>8
  <2> HIDE DEF v, t, S, p, lt
  <2>2. Cardinality({y \in S : lt(y, z)}) = i - 1
    BY <1>7, <1>9
  <2>3. p[i] \in S /\ Cardinality({y \in S : lt(y, p[i])}) = i - 1
    BY <2>1, <2>2
  <2> QED BY <2>3, <1>7
<1>10. p = [i \in 1 .. Cardinality(S) |-> p[i]]
  <2> HIDE DEF Place, p
  <2> QED BY <1>8
<1> HIDE DEF v, t, p, Place, lt
<1>11. ByRank(p, S, v, t)
  BY <1>9, <1>10 DEF ByRank
<1> DEFINE n == Cardinality(S)
<1>12. n \in Nat /\ Picks(p, n, S)
  <2> HIDE DEF S
  <2> QED BY <1>5, <1>6, <1>11, SortedIsList
<1> HIDE DEF n
<1>13. CASE need > 0
  <2>1. need \in Nat
    <3>1. sat \in SUBSET (1 .. Len(rows)) /\ Len(rows) \in Nat
      BY TypedIs DEF In
    <3> HIDE DEF sat
    <3>2. IsFiniteSet(sat)
      BY <3>1, DomainIsFinite
    <3>3. Cardinality(sat) \in Nat
      BY <3>2, FS_CardinalityType
    <3> QED BY <1>13, <3>3
  <2>2. m \in Nat /\ m <= n
    <3>1. Len(p) = n
      BY <1>12 DEF Picks
    <3> HIDE DEF need
    <3> QED BY <1>12, <2>1, <3>1 DEF AtMost
  <2> HIDE DEF need, m
  <2>3. backup \in Seq(Instruments)
    <3>1. S \in SUBSET DOMAIN spare
      OBVIOUS
    <3> HIDE DEF S
    <3> QED BY <1>3, <1>12, <2>2, <3>1, PickedSeq
  <2> DEFINE l == "satellite"  none == {}
  <2>4. l \in Layers
    BY DEF Layers
  <2> HIDE DEF backup, left, pen, l, none
  <2>5. Typed(_select_and_weight(backup, left, l, need, pen, none))
    BY <2>1, <2>3, <2>4, SelectTyped
  <2>6. Typed(new)
    BY <2>5 DEF l, none
  <2> HIDE DEF new
  <2>7. Typed(scaled)
    BY <2>6, ScaledTyped
  <2> HIDE DEF scaled
  <2>8. Typed(rows \o scaled)
    BY <2>7, ConcatTyped
  <2> QED BY <1>1, <2>8 DEF scaled, new, left, pen, backup, m, need
<1>14. CASE ~(need > 0)
  BY <1>1, <1>14
<1> QED BY <1>13, <1>14

LEMMA InjectTyped ==
    ASSUME Typed(rows), InjectStar50
    PROVE  Typed(rows')
<1> DEFINE I == In(rows, "satellite")
           b == Budget("satellite")
           x == AtMost(400, (b * 15) \div 100)
           h == [i \in DOMAIN rows |-> AtLeast(rows[i].w - x \div Cardinality(I), MIN_WEIGHT)]
           p == [i \in DOMAIN rows |-> IF i \in I THEN Weighing(rows[i], h[i]) ELSE rows[i]]
           r == Row(Star50, "satellite", x, 0)
<1>1. rows' = rows \/ rows' = Append(p, r)
  BY Zenon DEF InjectStar50, Pass, Reweighted
<1>2. SameRows(p, rows)
  <2> HIDE DEF h, I
  <2> QED BY NewWeights
<1> HIDE DEF p
<1>3. Typed(p)
  BY <1>2, SameFacts
<1>4. IsRow(r)
  <2> HIDE DEF x
  <2> QED BY RowFields, EngineAssumption DEF IsRow, Layers
<1> HIDE DEF r
<1> DEFINE a == Append(p, r)
<1>5. Typed(a)
  BY <1>3, <1>4, AppendTyped
<1>6. rows' = rows \/ rows' = a
  BY <1>1
<1> HIDE DEF a
<1> QED BY <1>5, <1>6

LEMMA DefenseTyped ==
    ASSUME market \in MarketRecord, pool \in PoolType, turn \in 1 .. 3, Typed(rows),
           SelectDefense
    PROVE  Typed(rows')
<1> DEFINE d == pool.defense
           q == FirstOfSegment(d)
           anchors == _defense_anchors_for(Profile)
           b == Budget("defense")  c == Count("defense")  k == Cardinality(anchors)
           max == AtLeast(0, c - k)
           pen == used.defense  l == "defense"
           new == _select_and_weight(q, b, l, max, pen, anchors)
<1>1. rows' = rows \o new
  BY DEF SelectDefense, Pass
<1>2. d \in Seq(Instruments)
  BY DEF PoolType, Layers
<1> HIDE DEF d
<1>3. q \in Seq(Instruments)
  BY <1>2, FirstOfSegmentSeq
<1>4. c \in Nat /\ l \in Layers
  BY CountsAreNat DEF Layers
<1>5. k \in Nat
  <2>1. anchors \subseteq MANDATORY_CODES
    BY EngineAssumption DEF _defense_anchors_for, MANDATORY_CODES
  <2> HIDE DEF anchors
  <2>2. IsFiniteSet(anchors)
    BY <2>1, PoolAssumption, FS_Subset
  <2> QED BY <2>2, FS_CardinalityType
<1>6. max \in Nat
  <2> HIDE DEF c, k
  <2> QED BY <1>4, <1>5 DEF AtLeast
<1> HIDE DEF q, b, l, max, pen, anchors
<1>7. Typed(new)
  BY <1>3, <1>4, <1>6, SelectTyped
<1> HIDE DEF new
<1> QED BY <1>1, <1>7, ConcatTyped

-----------------------------------------------------------------------------
(***************************************************************************)
(* The last passes of the engine only give the rows other weights.         *)
(***************************************************************************)
LEMMA LiftedSame ==
    ASSUME NEW a, Typed(a), NEW i
    PROVE  SameRows(Lifted(a, i), a)
<1> DEFINE payers == {j \in Free(a) : a[j].w > MIN_WEIGHT}
           need == MANDATORY_FLOOR - a[i].w
           total == Weight(a, payers)
           h == [j \in DOMAIN a |-> a[j].w - Share(need, a[j].w, total)]
           paid == [j \in DOMAIN a |-> IF j \in payers THEN Weighing(a[j], h[j]) ELSE a[j]]
           g == [j \in DOMAIN paid |-> MANDATORY_FLOOR]
           p == [j \in DOMAIN paid |-> IF j \in {i} THEN Weighing(paid[j], g[j]) ELSE paid[j]]
<1>1. Lifted(a, i) = a \/ Lifted(a, i) = p
  BY DEF Lifted, Reweighted
<1>2. SameRows(paid, a)
  <2> HIDE DEF h, payers
  <2> QED BY NewWeights
<1> HIDE DEF paid
<1>3. Typed(paid)
  BY <1>2, SameFacts
<1>4. SameRows(p, paid)
  <2> DEFINE I == {i}
  <2> HIDE DEF g, I
  <2>1. SameRows([j \in DOMAIN paid |-> IF j \in I THEN Weighing(paid[j], g[j]) ELSE paid[j]],
                 paid)
    BY <1>3, NewWeights
  <2> QED BY <2>1 DEF I
<1> HIDE DEF p
<1>5. SameRows(p, a)
  BY <1>2, <1>4, SameTrans
<1> QED BY <1>1, <1>5, SameSelf

LEMMA FloorSame ==
    ASSUME NEW q, Typed(q)
    PROVE  SameRows(_enforce_mandatory_floor(q), q)
<1> DEFINE S == {i \in DOMAIN q : Anchor(q[i]) /\ q[i].w < MANDATORY_FLOOR}
           low == Ascending(S)  n == Len(low)  A == Lifts(q, low)
           P == {k \in 0 .. n : SameRows(A[k], q)}
<1>1. _enforce_mandatory_floor(q) = A[n]
  BY DEF _enforce_mandatory_floor
<1>2. n \in Nat
  <2>1. S \in SUBSET (1 .. Len(q)) /\ Len(q) \in Nat
    BY TypedIs
  <2> HIDE DEF S
  <2>2. S \in SUBSET Int /\ IsFiniteSet(S)
    BY <2>1, DomainIsFinite
  <2>3. Cardinality(S) \in Nat /\ Picks(low, Cardinality(S), S)
    BY <2>2, NumbersSorted
  <2> QED BY <2>3 DEF Picks
<1> HIDE DEF low
<1>3. A[0] = q /\ \A k \in 1 .. n : A[k] = Lifted(A[k - 1], low[k])
  BY <1>2, LiftsRun
<1> HIDE DEF A, n
<1>4. 0 \in P
  BY <1>2, <1>3, SameSelf
<1>5. ASSUME NEW k \in 1 .. n, k - 1 \in P PROVE k \in P
  <2> DEFINE x == A[k - 1]  i == low[k]  y == Lifted(x, i)
  <2>1. SameRows(x, q)
    BY <1>5
  <2> HIDE DEF x, i
  <2>2. Typed(x)
    BY <2>1, SameFacts
  <2>3. SameRows(y, x)
    BY <2>2, LiftedSame
  <2> HIDE DEF y
  <2>4. SameRows(y, q)
    BY <2>1, <2>3, SameTrans
  <2>5. A[k] = y /\ k \in 0 .. n
    BY <1>2, <1>3 DEF x, i, y
  <2> QED BY <2>4, <2>5
<1>6. 0 .. n \subseteq P
  <2> HIDE DEF P
  <2> QED BY <1>2, <1>4, <1>5, UpTo
<1> QED BY <1>1, <1>2, <1>6

LEMMA FillOneSame ==
    ASSUME NEW st, Typed(st.rows), NEW i, NEW room, NEW part
    PROVE  SameRows(FillOne(st, i, room, part).rows, st.rows)
<1> DEFINE q == st.rows
           x == AtLeast(0, AtMost(AtMost(part, room - st.filled), MAX_WEIGHT - st.rows[i].w))
           I == {i}
<1>1. FillOne(st, i, room, part).rows = Raised(q, I, x)
  BY DEF FillOne
<1>2. Typed(q)
  OBVIOUS
<1> HIDE DEF I, x, q
<1>3. SameRows(Raised(q, I, x), q)
  BY <1>2, NewWeightSame
<1> QED BY <1>1, <1>3 DEF q

LEMMA FilledSame ==
    ASSUME NEW q, Typed(q), NEW l, NEW budget
    PROVE  SameRows(FilledUp(q, l, budget), q)
<1> DEFINE room == budget - Weight(q, In(q, l))
           S == In(q, l) \cap Free(q)
           lt(i, j) == q[i].score > q[j].score \/ (q[i].score = q[j].score /\ i < j)
           order == Sorted(S, lt)
           n == Len(order)  A == Fills(q, order, room)  part == Share(room, 1, n)
           P == {k \in 0 .. n : SameRows(A[k].rows, q)}
<1>1. FilledUp(q, l, budget) = q \/ FilledUp(q, l, budget) = A[n].rows
  BY Zenon DEF FilledUp
<1>2. n \in Nat
  <2>1. S \in SUBSET (1 .. Len(q)) /\ Len(q) \in Nat
    BY TypedIs DEF In
  <2> DEFINE c == Cardinality(S)
             Place(i) == CHOOSE x \in S : Cardinality({y \in S : lt(y, x)}) = i - 1
  <2>2. order = [i \in 1 .. c |-> Place(i)]
    <3> HIDE DEF S
    <3> QED BY DEF Sorted
  <2> HIDE DEF S
  <2>3. IsFiniteSet(S)
    BY <2>1, DomainIsFinite
  <2>4. c \in Nat
    BY <2>3, FS_CardinalityType
  <2> HIDE DEF c, order, Place
  <2>5. Len(order) = c
    BY <2>2, <2>4
  <2> QED BY <2>4, <2>5
<1> HIDE DEF order, room
<1>3. /\ A[0] = [rows |-> q, filled |-> 0]
      /\ \A k \in 1 .. n : A[k] = FillOne(A[k - 1], order[k], room, part)
  BY <1>2, FillsRun
<1> HIDE DEF A, n, part
<1>4. 0 \in P
  BY <1>2, <1>3, SameSelf
<1>5. ASSUME NEW k \in 1 .. n, k - 1 \in P PROVE k \in P
  <2> DEFINE st == A[k - 1]  i == order[k]  y == FillOne(st, i, room, part)
  <2>1. SameRows(st.rows, q)
    BY <1>5
  <2> HIDE DEF st, i
  <2> DEFINE x == st.rows  z == y.rows
  <2>2. Typed(x)
    <3> HIDE DEF x
    <3> QED BY <2>1, SameFacts DEF x
  <2>3. SameRows(z, x)
    BY <2>2, FillOneSame
  <2>4. SameRows(x, q)
    BY <2>1
  <2> HIDE DEF x, z
  <2>5. SameRows(z, q)
    BY <2>3, <2>4, SameTrans
  <2>6. A[k].rows = z /\ k \in 0 .. n
    BY <1>2, <1>3 DEF st, i, y, z
  <2> QED BY <2>5, <2>6
<1>6. 0 .. n \subseteq P
  <2> HIDE DEF P
  <2> QED BY <1>2, <1>4, <1>5, UpTo
<1> QED BY <1>1, <1>2, <1>6, SameSelf

LEMMA ShortfallSame ==
    ASSUME NEW q, Typed(q), NEW b
    PROVE  SameRows(_reconcile_budget_shortfall(q, b), q)
<1> DEFINE x == FilledUp(q, "core", b.core)
           y == FilledUp(x, "satellite", b.satellite)
           z == FilledUp(y, "defense", b.defense)
<1>1. _reconcile_budget_shortfall(q, b) = z
  BY DEF _reconcile_budget_shortfall
<1>2. SameRows(x, q)
  BY FilledSame
<1> HIDE DEF x
<1>3. Typed(x)
  BY <1>2, SameFacts
<1>4. SameRows(y, x)
  BY <1>3, FilledSame
<1> HIDE DEF y
<1>5. Typed(y)
  BY <1>3, <1>4, SameFacts
<1>6. SameRows(z, y)
  BY <1>5, FilledSame
<1> HIDE DEF z
<1>7. SameRows(y, q)
  BY <1>2, <1>4, SameTrans
<1>8. SameRows(z, q)
  BY <1>6, <1>7, SameTrans
<1> QED BY <1>1, <1>8

LEMMA SettledSame ==
    ASSUME NEW q, Typed(q), NEW l, NEW budget
    PROVE  SameRows(Settled(q, l, budget), q)
<1> DEFINE K == In(q, l)
           c == Clipped(q, K)
           J == In(c, l) \cap Free(c)
           left == budget - Weight(c, In(c, l) \ J)
           flex == Weight(c, J)
           p == Scaled(c, J, left, flex)
<1>1. Settled(q, l, budget) = q \/ Settled(q, l, budget) = c \/ Settled(q, l, budget) = p
  BY Zenon DEF Settled
<1>2. SameRows(c, q)
  <2> HIDE DEF K
  <2> QED BY NewWeightSame
<1> HIDE DEF c
<1>3. Typed(c)
  BY <1>2, SameFacts
<1>4. SameRows(p, c)
  <2> HIDE DEF J, left, flex
  <2> QED BY <1>3, NewWeightSame
<1> HIDE DEF p
<1>5. SameRows(p, q)
  BY <1>2, <1>4, SameTrans
<1> QED BY <1>1, <1>2, <1>5, SameSelf

LEMMA FinalSame ==
    ASSUME NEW q, Typed(q), NEW b
    PROVE  SameRows(_enforce_layer_budget_final(q, b), q)
<1> DEFINE x == Settled(q, "core", b.core)
           y == Settled(x, "satellite", b.satellite)
           z == Settled(y, "defense", b.defense)
<1>1. _enforce_layer_budget_final(q, b) = z
  BY DEF _enforce_layer_budget_final
<1>2. SameRows(x, q)
  BY SettledSame
<1> HIDE DEF x
<1>3. Typed(x)
  BY <1>2, SameFacts
<1>4. SameRows(y, x)
  BY <1>3, SettledSame
<1> HIDE DEF y
<1>5. Typed(y)
  BY <1>3, <1>4, SameFacts
<1>6. SameRows(z, y)
  BY <1>5, SettledSame
<1> HIDE DEF z
<1>7. SameRows(y, q)
  BY <1>2, <1>4, SameTrans
<1>8. SameRows(z, q)
  BY <1>6, <1>7, SameTrans
<1> QED BY <1>1, <1>8

-----------------------------------------------------------------------------
(***************************************************************************)
(* The passes over a finished strategy.  Each leaves some of its rows and  *)
(* all anchors but those in X.                                             *)
(***************************************************************************)
Keeps(p, q, X) ==
    /\ Typed(p) /\ From(p, q)
    /\ (Symbols(q) \cap MANDATORY_CODES) \ X \subseteq Symbols(p)

LEMMA SameKeeps ==
    ASSUME NEW q, Typed(q), NEW p, SameRows(p, q)
    PROVE  Keeps(p, q, {})
BY SameFacts DEF Keeps

LEMMA SelfKeeps == ASSUME NEW q, Typed(q) PROVE Keeps(q, q, {})
BY SameSelf, SameKeeps

LEMMA KeepsKeeps ==
    ASSUME NEW q, NEW p, NEW r, NEW X, NEW Y, Keeps(p, q, X), Keeps(r, p, Y)
    PROVE  Keeps(r, q, X \cup Y)
<1>1. From(r, q)
  BY FromFrom DEF Keeps
<1> QED BY <1>1 DEF Keeps

LEMMA PickKeeps ==
    ASSUME NEW q, Typed(q), NEW I \in SUBSET DOMAIN q, NEW X,
           \A i \in DOMAIN q \ I : Anchor(q[i]) => q[i].sym \in X
    PROVE  Keeps(Pick(q, I), q, X)
<1>1. Typed(Pick(q, I)) /\ From(Pick(q, I), q) /\ Symbols(Pick(q, I)) = {q[i].sym : i \in I}
  BY PickTyped
<1> DEFINE p == Pick(q, I)
<1> HIDE DEF p
<1>2. (Symbols(q) \cap MANDATORY_CODES) \ X \subseteq {q[i].sym : i \in I}
  BY DEF Symbols, Anchor
<1>3. Keeps(p, q, X)
  BY <1>1, <1>2 DEF Keeps, p
<1> QED BY <1>3 DEF p

LEMMA EvictedKeeps ==
    ASSUME NEW q, Typed(q), NEW I \in SUBSET DOMAIN q, NEW X,
           \A i \in I : Anchor(q[i]) => q[i].sym \in X
    PROVE  Keeps(Evicted(q, I), q, X)
<1> DEFINE J == DOMAIN q \ I
           kept == Pick(q, J)
           D == DOMAIN kept
           x == Share(Weight(q, I), 1, Len(kept))
           p == Raised(kept, D, x)
<1>1. Evicted(q, I) = kept \/ Evicted(q, I) = p
  BY DEF Evicted
<1>2. J \in SUBSET DOMAIN q /\ \A i \in DOMAIN q \ J : Anchor(q[i]) => q[i].sym \in X
  OBVIOUS
<1> HIDE DEF J
<1>3. Keeps(kept, q, X)
  BY <1>2, PickKeeps
<1> HIDE DEF kept
<1>4. Typed(kept)
  BY <1>3 DEF Keeps
<1>5. SameRows(p, kept)
  <2> HIDE DEF x, D
  <2> QED BY <1>4, NewWeightSame
<1> HIDE DEF p
<1>6. Keeps(p, kept, {})
  BY <1>4, <1>5, SameKeeps
<1> DEFINE Y == {}  Z == X \cup Y
<1> HIDE DEF Y
<1>7. Keeps(p, kept, Y)
  BY <1>6 DEF Y
<1>8. Keeps(p, q, Z)
  BY <1>3, <1>7, KeepsKeeps
<1>9. Z = X
  BY DEF Y
<1> QED BY <1>1, <1>3, <1>8, <1>9

LEMMA StaleKeeps ==
    ASSUME NEW q, Typed(q)
    PROVE  Keeps(remove_stale_candidates(q), q, {})
<1> DEFINE I == {i \in Free(q) : q[i].sym \in upset.stale}  X == {}
<1>1. remove_stale_candidates(q) = q \/ remove_stale_candidates(q) = Evicted(q, I)
  BY DEF remove_stale_candidates
<1>2. I \in SUBSET DOMAIN q /\ \A i \in I : Anchor(q[i]) => q[i].sym \in X
  BY DEF Free
<1> HIDE DEF I, X
<1>3. Keeps(Evicted(q, I), q, X)
  BY <1>2, EvictedKeeps
<1> QED BY <1>1, <1>3, SelfKeeps DEF X

LEMMA DrawdownKeeps ==
    ASSUME NEW q, Typed(q)
    PROVE  Keeps(filter_extreme_drawdown(q), q, upset.crashed)
<1> DEFINE I == {i \in DOMAIN q : q[i].sym \in upset.crashed}  X == upset.crashed
<1>1. filter_extreme_drawdown(q) = Evicted(q, I)
  BY DEF filter_extreme_drawdown
<1>2. I \in SUBSET DOMAIN q /\ \A i \in I : Anchor(q[i]) => q[i].sym \in X
  OBVIOUS
<1> HIDE DEF I, X
<1>3. Keeps(Evicted(q, I), q, X)
  BY <1>2, EvictedKeeps
<1> QED BY <1>1, <1>3 DEF X

LEMMA MinnowsKeep ==
    ASSUME NEW q, Typed(q)
    PROVE  Keeps(_consolidate_minnows(q), q, Minnows(q))
<1> DEFINE D == In(q, "defense")
           big == CHOOSE i \in D : \A j \in D : q[i].w > q[j].w \/ (q[i].w = q[j].w /\ i <= j)
           minnows == {i \in D : q[i].w < 200} \ {big}
           B == {big}
           x == Weight(q, minnows)
           p == Raised(q, B, x)
           I == DOMAIN q \ minnows
           X == Minnows(q)
<1>1. _consolidate_minnows(q) = q \/ _consolidate_minnows(q) = Pick(p, I)
  BY Zenon DEF _consolidate_minnows
<1>2. I \in SUBSET DOMAIN q /\ \A i \in DOMAIN q \ I : q[i].sym \in X
  <2> HIDE DEF big
  <2> QED BY DEF Minnows
<1>3. SameRows(p, q)
  <2> HIDE DEF B, x
  <2> QED BY NewWeightSame
<1> HIDE DEF p, I, X
<1>4. /\ Typed(p) /\ DOMAIN p = DOMAIN q /\ Keeps(p, q, {})
      /\ \A i \in DOMAIN q : p[i].sym = q[i].sym
  BY <1>3, SameFacts, SameKeeps
<1>5. I \in SUBSET DOMAIN p /\ \A i \in DOMAIN p \ I : Anchor(p[i]) => p[i].sym \in X
  BY <1>2, <1>4
<1>6. Keeps(Pick(p, I), p, X)
  BY <1>4, <1>5, PickKeeps
<1> DEFINE Y == {}  r == Pick(p, I)  Z == Y \cup X
<1>7. Keeps(p, q, Y) /\ Keeps(r, p, X)
  BY <1>4, <1>6
<1> HIDE DEF Y, r
<1>8. Keeps(r, q, Z)
  BY <1>7, KeepsKeeps
<1>9. Z = X
  BY DEF Y
<1>10. Keeps(q, q, X)
  BY SelfKeeps DEF Keeps
<1> QED BY <1>1, <1>8, <1>9, <1>10 DEF r, X

LEMMA DefenseKeeps ==
    ASSUME NEW q, Typed(q)
    PROVE  Keeps(_consolidate_minnows(check_defense_effectiveness(q)), q,
                 Minnows(check_defense_effectiveness(q)))
<1> DEFINE I == {i \in In(q, "defense") : q[i].sym \in upset.fallen}
           c == Scaled(q, I, 1, 2)  X == Minnows(c)  Y == {}  Z == Y \cup X
           r == _consolidate_minnows(c)
<1>1. check_defense_effectiveness(q) = c
  BY DEF check_defense_effectiveness
<1>2. SameRows(c, q)
  <2> DEFINE one == 1  two == 2
  <2> HIDE DEF I, one, two
  <2>1. SameRows(Scaled(q, I, one, two), q)
    BY NewWeightSame
  <2> QED BY <2>1 DEF one, two
<1> HIDE DEF c
<1>3. Typed(c) /\ Keeps(c, q, {})
  BY <1>2, SameFacts, SameKeeps
<1>4. Keeps(r, c, X)
  BY <1>3, MinnowsKeep
<1>5. Keeps(c, q, Y)
  BY <1>3
<1> HIDE DEF r, X, Y
<1>6. Keeps(r, q, Z)
  BY <1>4, <1>5, KeepsKeeps
<1>7. Z = X
  BY DEF Y
<1> QED BY <1>1, <1>6, <1>7 DEF r, X

LEMMA CappedSame ==
    ASSUME NEW q, Typed(q)
    PROVE  SameRows(Capped(q), q)
<1> DEFINE D == DOMAIN q  c == Clipped(q, D)
           I == {i \in DOMAIN c : Info[c[i].sym].dividend}  cap == 1500
           p == ScaledDown(c, I, cap)
<1>1. Capped(q) = p
  BY DEF Capped
<1>2. SameRows(c, q)
  <2> HIDE DEF D
  <2> QED BY NewWeightSame
<1> HIDE DEF c
<1>3. Typed(c)
  BY <1>2, SameFacts
<1> HIDE DEF I, cap
<1>4. SameRows(p, c)
  BY <1>3, ScaledSame
<1> HIDE DEF p
<1>5. SameRows(p, q)
  BY <1>2, <1>4, SameTrans
<1> QED BY <1>1, <1>5

LEMMA DividendsKeep ==
    ASSUME NEW q, Typed(q)
    PROVE  Keeps(DividendsInCore(q), q, {})
<1> DEFINE S == {i \in In(q, "satellite") : Info[q[i].sym].dividend}
           misplaced == Ascending(S)
           room == AtLeast(0, 4 - Cardinality(In(q, "core")))
           moved == {misplaced[k] : k \in 1..AtMost(room, Len(misplaced))}
           gone == Elems(misplaced) \ moved
           p == [i \in DOMAIN q |-> IF i \in moved THEN Row(q[i].sym, "core", q[i].w, q[i].score)
                                    ELSE q[i]]
           I == DOMAIN q \ gone  X == {}
<1>1. DividendsInCore(q) = Pick(p, I)
  BY DEF DividendsInCore
<1>2. /\ Len(q) \in Nat /\ DOMAIN q = 1 .. Len(q)
      /\ q = [i \in 1 .. Len(q) |-> q[i]] /\ \A i \in DOMAIN q : IsRow(q[i])
  BY TypedIs
<1>3. \A i \in gone : i \in S
  <2>1. S \in SUBSET (1 .. Len(q))
    BY <1>2 DEF In
  <2> HIDE DEF S
  <2>2. S \in SUBSET Int /\ IsFiniteSet(S)
    BY <1>2, <2>1, DomainIsFinite
  <2>3. Cardinality(S) \in Nat /\ Picks(misplaced, Cardinality(S), S)
    BY <2>2, NumbersSorted
  <2> HIDE DEF misplaced, moved
  <2> QED BY <2>3 DEF Picks, Elems
<1>4. \A i \in gone : ~Anchor(q[i])
  BY <1>3, FinishAssumption DEF Anchor
<1> HIDE DEF moved, gone
<1>5. /\ DOMAIN p = DOMAIN q
      /\ \A i \in DOMAIN q : p[i].sym = q[i].sym /\ IsRow(p[i])
  <2>1. DOMAIN p = DOMAIN q
    OBVIOUS
  <2>2. ASSUME NEW i \in DOMAIN q PROVE p[i].sym = q[i].sym /\ IsRow(p[i])
    <3>1. IsRow(q[i])
      BY <1>2
    <3>2. p[i] = q[i] \/ p[i] = Row(q[i].sym, "core", q[i].w, q[i].score)
      OBVIOUS
    <3> DEFINE r == Row(q[i].sym, "core", q[i].w, q[i].score)
    <3>3. r.sym = q[i].sym /\ IsRow(r)
      BY <3>1, RowFields DEF IsRow, Layers
    <3> HIDE DEF r, p
    <3> QED BY <3>1, <3>2, <3>3 DEF r
  <2> QED BY <2>1, <2>2
<1>6. Typed(p)
  <2> DEFINE n == Len(q)
  <2>1. n \in Nat /\ p = [i \in 1 .. n |-> p[i]] /\ \A i \in 1 .. n : IsRow(p[i])
    BY <1>2, <1>5
  <2> HIDE DEF n, p
  <2> QED BY <2>1, TypedIs
<1> HIDE DEF p
<1>7. From(p, q) /\ Symbols(p) = Symbols(q)
  <2> DEFINE f == [i \in DOMAIN q |-> i]
  <2>1. f \in [DOMAIN p -> DOMAIN q] /\ Distinct(f, DOMAIN p) /\ \A i \in DOMAIN p : f[i] = i
    BY <1>5 DEF Distinct
  <2> HIDE DEF f
  <2> QED BY <2>1, <1>5 DEF From, Symbols
<1>8. Keeps(p, q, X)
  BY <1>6, <1>7 DEF Keeps
<1>9. I \in SUBSET DOMAIN p /\ \A i \in DOMAIN p \ I : Anchor(p[i]) => p[i].sym \in X
  BY <1>4, <1>5 DEF Anchor
<1> HIDE DEF I, X
<1>10. Keeps(Pick(p, I), p, X)
  BY <1>6, <1>9, PickKeeps
<1> DEFINE r == Pick(p, I)  Z == X \cup X
<1> HIDE DEF r
<1>11. Keeps(r, q, Z)
  BY <1>8, <1>10, KeepsKeeps DEF r
<1>12. Z = X
  OBVIOUS
<1> QED BY <1>1, <1>11, <1>12 DEF r, X

LEMMA BearSame ==
    ASSUME NEW q, Typed(q)
    PROVE  SameRows(apply_core_bear_growth_trim(q), q)
<1> DEFINE I == {i \in GrowthIn(q) \cap Free(q) : q[i].score < 0}
           released == Weight(q, I) - MIN_WEIGHT * Cardinality(I)
           h == [i \in DOMAIN q |-> MIN_WEIGHT]
           c == [i \in DOMAIN q |-> IF i \in I THEN Weighing(q[i], h[i]) ELSE q[i]]
           D == In(c, "defense")
           p == Spread(c, D, released)
<1>1. \/ apply_core_bear_growth_trim(q) = q \/ apply_core_bear_growth_trim(q) = c
      \/ apply_core_bear_growth_trim(q) = p
  BY Zenon DEF apply_core_bear_growth_trim, Reweighted
<1>2. SameRows(c, q)
  <2> HIDE DEF h, I
  <2> QED BY NewWeights
<1> HIDE DEF c
<1>3. Typed(c)
  BY <1>2, SameFacts
<1> HIDE DEF D, released
<1>4. SameRows(p, c)
  BY <1>3, SpreadSame
<1> HIDE DEF p
<1>5. SameRows(p, q)
  BY <1>2, <1>4, SameTrans
<1> QED BY <1>1, <1>2, <1>5, SameSelf

LEMMA GrowthCapSame ==
    ASSUME NEW q, Typed(q), NEW cap
    PROVE  SameRows(apply_core_bear_growth_trim(ScaledDown(q, GrowthIn(q), cap)), q)
<1> DEFINE I == GrowthIn(q)  c == ScaledDown(q, I, cap)  p == apply_core_bear_growth_trim(c)
<1>1. SameRows(c, q)
  <2> HIDE DEF I
  <2> QED BY ScaledSame
<1> HIDE DEF c
<1>2. Typed(c)
  BY <1>1, SameFacts
<1>3. SameRows(p, c)
  BY <1>2, BearSame
<1> HIDE DEF p
<1>4. SameRows(p, q)
  BY <1>1, <1>3, SameTrans
<1> QED BY <1>4 DEF p, c

LEMMA WithinSame ==
    ASSUME NEW q, Typed(q), NEW b
    PROVE  SameRows(WithinBudgets(q, b), q)
<1>1. ASSUME NEW a, SameRows(a, q), NEW I, NEW cap
      PROVE  SameRows(ScaledDown(a, I, cap), q) /\ SameRows(ScaledTo(a, cap), q)
             /\ SameRows(Dispersed(a), q)
  <2>1. Typed(a)
    BY <1>1, SameFacts
  <2>2. \A K, c : SameRows(ScaledDown(a, K, c), a) /\ SameRows(ScaledTo(a, c), a)
    BY <2>1, ScaledSame
  <2>3. \A K, c : SameRows(ScaledDown(a, K, c), q) /\ SameRows(ScaledTo(a, c), q)
    <3>1. ASSUME NEW K, NEW c
          PROVE  SameRows(ScaledDown(a, K, c), q) /\ SameRows(ScaledTo(a, c), q)
      <4> DEFINE x == ScaledDown(a, K, c)  y == ScaledTo(a, c)
      <4>1. SameRows(x, a) /\ SameRows(y, a)
        BY <2>2
      <4> HIDE DEF x, y
      <4>2. SameRows(x, q) /\ SameRows(y, q)
        BY <1>1, <4>1, SameTrans
      <4> QED BY <4>2 DEF x, y
    <3> QED BY <3>1
  <2>4. Dispersed(a) = a \/ \E K, c : Dispersed(a) = ScaledDown(a, K, c)
    <3> DEFINE sectors == {Sector(a[i]) : i \in DOMAIN a}
               of(s) == {i \in DOMAIN a : Sector(a[i]) = s}
               hhi == SumOf([s \in sectors |-> Weight(a, of(s)) * Weight(a, of(s))])
               top == CHOOSE s \in sectors :
                          \A t \in sectors : Weight(a, of(s)) >= Weight(a, of(t))
               largest == of(top)
    <3>1. Dispersed(a) = IF hhi >= 40000000 THEN ScaledDown(a, largest, 6325) ELSE a
      BY DEF Dispersed
    <3> HIDE DEF hhi, largest
    <3> QED BY <3>1
  <2> QED BY <1>1, <2>3, <2>4
<1> DEFINE C == In(q, "core")  core == ScaledDown(q, C, b.core)
           S == In(core, "satellite")  sat == ScaledDown(core, S, b.satellite)
           D == In(sat, "defense")  def == ScaledDown(sat, D, b.defense)
           even == Dispersed(def)  all == ScaledTo(even, Whole)
<1>2. WithinBudgets(q, b) = all
  BY DEF WithinBudgets
<1>3. SameRows(q, q)
  BY SameSelf
<1> HIDE DEF C
<1>4. SameRows(core, q)
  BY <1>1, <1>3
<1> HIDE DEF core, S
<1>5. SameRows(sat, q)
  BY <1>1, <1>4
<1> HIDE DEF sat, D
<1>6. SameRows(def, q)
  BY <1>1, <1>5
<1> HIDE DEF def
<1>7. SameRows(even, q)
  BY <1>1, <1>6
<1> HIDE DEF even
<1>8. SameRows(all, q)
  BY <1>1, <1>7
<1> QED BY <1>2, <1>8

LEMMA UnquotedSame ==
    ASSUME NEW q, Typed(q)
    PROVE  SameRows(Unquoted(q), q) /\ SameRows(_apply_precision_bucketing(q), q)
<1> DEFINE I == {i \in In(q, "core") : q[i].sym \in upset.unquoted} \cap Free(q)
           h == [i \in DOMAIN q |-> 0]
           p == [i \in DOMAIN q |-> IF i \in I THEN Weighing(q[i], h[i]) ELSE q[i]]
           D == DOMAIN q
           g == [i \in DOMAIN q |-> Coarse(q[i].w)]
           r == [i \in DOMAIN q |-> IF i \in D THEN Weighing(q[i], g[i]) ELSE q[i]]
<1>1. Unquoted(q) = q \/ Unquoted(q) = p
  BY Zenon DEF Unquoted, Reweighted
<1>2. _apply_precision_bucketing(q) = r
  BY Zenon DEF _apply_precision_bucketing, Reweighted
<1>3. SameRows(p, q) /\ SameRows(r, q)
  <2> HIDE DEF h, g, I, D
  <2> QED BY NewWeights
<1> HIDE DEF p, r
<1> QED BY <1>1, <1>2, <1>3, SameSelf

LEMMA CutPairSame ==
    ASSUME NEW st, Typed(st.rows), NEW p
    PROVE  SameRows(CutPair(st, p).rows, st.rows)
<1> DEFINE q == st.rows
           lowFirst == IF Anchor(q[p[1]]) THEN FALSE
                       ELSE Anchor(q[p[2]]) \/ q[p[1]].score <= q[p[2]].score
           lo == IF lowFirst THEN p[1] ELSE p[2]
           hi == IF lowFirst THEN p[2] ELSE p[1]
           target == AtLeast(MIN_WEIGHT, 2500 - q[hi].w)
           over == target + q[hi].w - 2500
           I == {lo}  J == {hi}
           h == [i \in DOMAIN q |-> target]
           low == [i \in DOMAIN q |-> IF i \in I THEN Weighing(q[i], h[i]) ELSE q[i]]
           g == [i \in DOMAIN low |-> AtLeast(MIN_WEIGHT, low[i].w - over)]
           r == [i \in DOMAIN low |-> IF i \in J THEN Weighing(low[i], g[i]) ELSE low[i]]
           L == Reweighted(q, {lo}, LAMBDA w : target)
           R == Reweighted(L, {hi}, LAMBDA w : AtLeast(MIN_WEIGHT, w - over))
           both == target = MIN_WEIGHT /\ ~Anchor(q[hi]) /\ over > 0
<1>1. CutPair(st, p) = st \/ CutPair(st, p).rows = L \/ CutPair(st, p).rows = R
  <2> DEFINE cut == st.cut \cup (IF both THEN {lo, hi} ELSE {lo})
             sum == st.sum + q[lo].w - target + (IF both THEN over ELSE 0)
             none == Anchor(q[lo]) \/ q[lo].w + q[hi].w <= 2500 \/ q[lo].w <= target
  <2>1. CutPair(st, p) = IF none THEN st
                         ELSE [rows |-> IF both THEN R ELSE L, cut |-> cut, sum |-> sum]
    BY DEF CutPair
  <2> HIDE DEF none, both, R, L, cut, sum
  <2> QED BY <2>1
<1>2. L = low
  <2> HIDE DEF lo, target
  <2> QED BY Zenon DEF Reweighted
<1>3. Typed(q)
  OBVIOUS
<1>4. SameRows(low, q)
  <2> HIDE DEF h, I, q
  <2> QED BY <1>3, NewWeights
<1> HIDE DEF L
<1>5. R = r
  <2> HIDE DEF low, hi, over
  <2> QED BY <1>2, Zenon DEF Reweighted
<1> HIDE DEF low, R
<1>6. Typed(low)
  <2> HIDE DEF q
  <2> QED BY <1>3, <1>4, SameFacts
<1>7. SameRows(r, low)
  <2> HIDE DEF g, J
  <2> QED BY <1>6, NewWeights
<1> HIDE DEF r, q
<1>8. SameRows(r, q)
  BY <1>3, <1>4, <1>7, SameTrans
<1>9. SameRows(q, q)
  BY <1>3, SameSelf
<1> QED BY <1>1, <1>2, <1>4, <1>5, <1>8, <1>9 DEF q

LEMMA CorrelationSame ==
    ASSUME NEW q, Typed(q)
    PROVE  SameRows(enforce_max_correlation(q), q)
<1> DEFINE S == PairsOf(q)
           lt(p, r) == p[1] < r[1] \/ (p[1] = r[1] /\ p[2] < r[2])
           order == Sorted(S, lt)
           n == Len(order)  A == PairCuts(q, order)  end == A[n]
           others == DOMAIN q \ (end.cut \cup {i \in DOMAIN q : \E j \in end.cut : Alike(q, i, j)})
           z == IF end.sum = 0 THEN q ELSE Spread(end.rows, others, end.sum)
           I == DOMAIN q \ Free(q)
           h == [i \in DOMAIN z |-> AtLeast(z[i].w, MANDATORY_FLOOR)]
           y == [i \in DOMAIN z |-> IF i \in I THEN Weighing(z[i], h[i]) ELSE z[i]]
           P == {k \in 0 .. n : SameRows(A[k].rows, q)}
<1>1. enforce_max_correlation(q) = Reweighted(z, I, LAMBDA w : AtLeast(w, MANDATORY_FLOOR))
  BY DEF enforce_max_correlation
<1>2. n \in Nat
  <2>1. Len(q) \in Nat /\ DOMAIN q = 1 .. Len(q)
    BY TypedIs
  <2> DEFINE D == DOMAIN q  c == Cardinality(S)
             Place(i) == CHOOSE x \in S : Cardinality({y1 \in S : lt(y1, x)}) = i - 1
  <2>2. IsFiniteSet(D)
    <3> DEFINE m == Len(q)
    <3>1. m \in Nat /\ D \in SUBSET (1 .. m)
      BY <2>1
    <3> HIDE DEF m, D
    <3> QED BY <3>1, DomainIsFinite
  <2>3. S \subseteq D \X D
    BY DEF PairsOf
  <2> HIDE DEF D
  <2>4. IsFiniteSet(D \X D)
    BY <2>2, FS_Product
  <2>5. order = [i \in 1 .. c |-> Place(i)]
    <3> HIDE DEF S
    <3> QED BY DEF Sorted
  <2> HIDE DEF S
  <2>6. IsFiniteSet(S)
    BY <2>3, <2>4, FS_Subset
  <2>7. c \in Nat
    BY <2>6, FS_CardinalityType
  <2> HIDE DEF c, order, Place
  <2>8. Len(order) = c
    BY <2>5, <2>7
  <2> QED BY <2>7, <2>8
<1> HIDE DEF order
<1>3. /\ A[0] = [rows |-> q, cut |-> {}, sum |-> 0]
      /\ \A k \in 1 .. n : A[k] = CutPair(A[k - 1], order[k])
  BY <1>2, PairCutsRun
<1> HIDE DEF A, n
<1>4. 0 \in P
  BY <1>2, <1>3, SameSelf
<1>5. ASSUME NEW k \in 1 .. n, k - 1 \in P PROVE k \in P
  <2> DEFINE st == A[k - 1]  i == order[k]  r == CutPair(st, i)
  <2>1. SameRows(st.rows, q)
    BY <1>5
  <2> HIDE DEF st, i
  <2> DEFINE x == st.rows  w == r.rows
  <2>2. Typed(x)
    <3> HIDE DEF x
    <3> QED BY <2>1, SameFacts DEF x
  <2>3. SameRows(w, x)
    BY <2>2, CutPairSame
  <2>4. SameRows(x, q)
    BY <2>1
  <2> HIDE DEF x, w
  <2>5. SameRows(w, q)
    BY <2>3, <2>4, SameTrans
  <2>6. A[k].rows = w /\ k \in 0 .. n
    BY <1>2, <1>3 DEF st, i, r, w
  <2> QED BY <2>5, <2>6
<1>6. 0 .. n \subseteq P
  <2> HIDE DEF P
  <2> QED BY <1>2, <1>4, <1>5, UpTo
<1>7. SameRows(end.rows, q)
  BY <1>2, <1>6
<1> HIDE DEF others, end
<1>8. SameRows(z, q)
  <2> DEFINE x == end.rows  s == end.sum  t == Spread(x, others, s)
  <2>1. SameRows(x, q)
    BY <1>7
  <2>2. z = q \/ z = t
    OBVIOUS
  <2> HIDE DEF x, s, z
  <2>3. Typed(x)
    BY <2>1, SameFacts
  <2>4. SameRows(t, x)
    BY <2>3, SpreadSame
  <2> HIDE DEF t
  <2>5. SameRows(t, q)
    BY <2>1, <2>4, SameTrans
  <2> QED BY <2>2, <2>5, SameSelf
<1> HIDE DEF z
<1>9. Typed(z)
  BY <1>8, SameFacts
<1>10. Reweighted(z, I, LAMBDA w : AtLeast(w, MANDATORY_FLOOR)) = y
  <2> HIDE DEF I
  <2> QED BY Zenon DEF Reweighted
<1>11. SameRows(y, z)
  <2> HIDE DEF h, I
  <2> QED BY <1>9, NewWeights
<1> HIDE DEF y
<1>12. SameRows(y, q)
  BY <1>8, <1>11, SameTrans
<1> QED BY <1>1, <1>10, <1>12

LEMMA MergeKeeps ==
    ASSUME NEW q, Typed(q)
    PROVE  Keeps(_merge_substitute_family(q), q, {})
<1> DEFINE group(i) == {j \in DOMAIN q : Info[q[j].sym].family = Info[q[i].sym].family
                                         /\ Info[q[i].sym].family # "none"}
           heaviest(i) == i \in group(i) /\ \A j \in group(i) :
                              q[i].w > q[j].w \/ (q[i].w = q[j].w /\ i <= j)
           keeps(i) == heaviest(i) /\ \E j \in group(i) : ~Anchor(q[j])
           gone(i) == ~Anchor(q[i]) /\ group(i) # {} /\ ~heaviest(i)
           K == {i \in DOMAIN q : keeps(i)}
           h == [i \in DOMAIN q |-> q[i].w + Weight(q, {j \in group(i) : gone(j)})]
           p == [i \in DOMAIN q |-> IF i \in K THEN Weighing(q[i], h[i]) ELSE q[i]]
           m == [i \in DOMAIN q |->
                    IF keeps(i) THEN Weighing(q[i], q[i].w + Weight(q, {j \in group(i) : gone(j)}))
                    ELSE q[i]]
           I == {i \in DOMAIN q : ~gone(i)}  X == {}
<1>1. _merge_substitute_family(q) = Pick(m, I)
  BY Zenon DEF _merge_substitute_family
<1>2. I \in SUBSET DOMAIN q /\ \A i \in DOMAIN q \ I : ~Anchor(q[i])
  <2> HIDE DEF group, heaviest
  <2> QED OBVIOUS
<1>3. m = p
  <2> HIDE DEF group, heaviest, gone, keeps
  <2> QED OBVIOUS
<1> HIDE DEF m, I, K, h
<1>4. SameRows(p, q)
  BY NewWeights
<1> HIDE DEF p
<1>5. Typed(p) /\ DOMAIN p = DOMAIN q /\ Keeps(p, q, X) /\ \A i \in DOMAIN q : p[i].sym = q[i].sym
  BY <1>4, SameFacts, SameKeeps
<1>6. I \in SUBSET DOMAIN p /\ \A i \in DOMAIN p \ I : Anchor(p[i]) => p[i].sym \in X
  BY <1>2, <1>5 DEF Anchor
<1> HIDE DEF X
<1> DEFINE r == Pick(p, I)  Z == X \cup X
<1>7. Keeps(r, p, X)
  BY <1>5, <1>6, PickKeeps
<1> HIDE DEF r
<1>8. Keeps(r, q, Z)
  BY <1>5, <1>7, KeepsKeeps
<1>9. Z = X
  OBVIOUS
<1> QED BY <1>1, <1>3, <1>8, <1>9 DEF r, X

-----------------------------------------------------------------------------
(***************************************************************************)
(* The inductive invariant.  A strategy is finished in the turn of its     *)
(* profile; from dedup on its rows have one fund per index, and nothing    *)
(* after that adds a row or gives one another instrument.                  *)
(***************************************************************************)
IsPlans(s, n) ==
    /\ s = [d \in 1 .. n |-> s[d]]
    /\ \A d \in 1 .. n : Typed(s[d]) /\ OneFund(s[d])

EngineInv ==
    /\ market \in MarketRecord /\ pool \in PoolType
    /\ turn \in 1 .. 4 /\ (stage = "allocated" <=> turn = 4)
    /\ Typed(rows)
    /\ stage \in {"floor", "shortfall", "budget"} => OneFund(rows)
    /\ IsPlans(strategies, turn - 1)

DesignInv == EngineInv /\ design \in 1 .. 3

LEMMA PlansAppend ==
    ASSUME NEW n \in Nat, NEW s, IsPlans(s, n), NEW q, Typed(q), OneFund(q)
    PROVE  IsPlans(Append(s, q), n + 1)
<1> DEFINE T == Elems(s) \cup {q}  r == Append(s, q)
<1>1. DOMAIN s = 1 .. n
  BY DEF IsPlans
<1>2. \A d \in 1 .. n : s[d] \in T
  BY <1>1 DEF Elems
<1> HIDE DEF T
<1>3. s \in [1 .. n -> T]
  BY <1>2 DEF IsPlans
<1>4. s \in Seq(T) /\ Len(s) = n /\ q \in T
  BY <1>3 DEF T
<1>5. r \in Seq(T) /\ Len(r) = n + 1 /\ DOMAIN r = 1 .. (n + 1)
  BY <1>4
<1>6. \A d \in 1 .. (n + 1) : r[d] = IF d = n + 1 THEN q ELSE s[d]
  BY <1>4
<1> HIDE DEF r
<1>7. r = [d \in 1 .. (n + 1) |-> r[d]]
  BY <1>5
<1>8. \A d \in 1 .. (n + 1) : d # n + 1 => d \in 1 .. n
  OBVIOUS
<1>9. \A d \in 1 .. (n + 1) : Typed(r[d]) /\ OneFund(r[d])
  BY <1>6, <1>8 DEF IsPlans
<1>10. IsPlans(r, n + 1)
  BY <1>7, <1>9 DEF IsPlans
<1> QED BY <1>10 DEF r

Updated(s, d, q) == [s EXCEPT ![d] = q]

LEMMA PlansExcept ==
    ASSUME NEW n \in Nat, NEW s, IsPlans(s, n), NEW d \in 1 .. n, NEW q, NEW X,
           Keeps(q, s[d], X), NEW r, r = Updated(s, d, q)
    PROVE  IsPlans(r, n) /\ r[d] = q /\ \A e \in 1 .. n : e # d => r[e] = s[e]
<1>1. DOMAIN s = 1 .. n /\ \A e \in 1 .. n : Typed(s[e]) /\ OneFund(s[e])
  BY DEF IsPlans
<1>2. Typed(q) /\ OneFund(q)
  BY <1>1, FromOneFund DEF Keeps
<1>3. /\ DOMAIN r = 1 .. n /\ r = [e \in 1 .. n |-> r[e]] /\ r[d] = q
      /\ \A e \in 1 .. n : e # d => r[e] = s[e]
  BY <1>1 DEF Updated
<1>4. \A e \in 1 .. n : Typed(r[e]) /\ OneFund(r[e])
  BY <1>1, <1>2, <1>3
<1>5. IsPlans(r, n)
  BY <1>3, <1>4 DEF IsPlans
<1> QED BY <1>3, <1>5

LEMMA InitInv == DesignInit => DesignInv
<1> SUFFICES ASSUME DesignInit PROVE DesignInv
  OBVIOUS
<1>1. market \in MarketRecord
  BY EngineAssumption DEF DesignInit, EngineInit
<1>2. pool \in PoolType
  <2> DEFINE scan == market.scan  scale == market.scale  score == market.score
  <2>1. /\ scan \in Seq(Instruments) /\ scale \in [Instruments -> Nat]
        /\ score \in [Instruments -> Int]
    BY <1>1 DEF MarketRecord
  <2>2. pool \in Pools(scan, scale, score)
    BY DEF DesignInit, EngineInit
  <2> HIDE DEF scan, scale, score
  <2> QED BY <2>1, <2>2, PoolsType
<1>3. rows = <<>> /\ strategies = <<>> /\ turn = 1 /\ stage = "core" /\ design = 1
  BY DEF DesignInit, EngineInit
<1>4. IsPlans(strategies, turn - 1)
  <2>1. strategies = [d \in 1 .. 0 |-> strategies[d]]
    BY <1>3
  <2>2. turn - 1 = 0 /\ 1 .. 0 = {}
    BY <1>3
  <2> QED BY <2>1, <2>2 DEF IsPlans
<1>5. Typed(rows)
  BY <1>3, EmptyTyped
<1> QED BY <1>1, <1>2, <1>3, <1>4, <1>5 DEF DesignInv, EngineInv

\* A pass of the engine keeps the invariant when it leaves rows, and after dedup rows
\* of one fund per index.
LEMMA PassInv ==
    ASSUME EngineInv, NEW from, NEW to, from # "allocated", to # "allocated", NEW new,
           Pass(from, to, new), Typed(rows'),
           to \in {"floor", "shortfall", "budget"} => OneFund(rows')
    PROVE  EngineInv'
<1>1. /\ market' = market /\ pool' = pool /\ turn' = turn /\ strategies' = strategies
      /\ stage = from /\ stage' = to
  BY DEF Pass
<1>2. turn' # 4
  BY <1>1 DEF EngineInv
<1>3. MarketRecord' = MarketRecord /\ PoolType' = PoolType
  BY DEF MarketRecord, PoolType
<1>4. Typed(rows)' /\ (stage' \in {"floor", "shortfall", "budget"} => OneFund(rows)')
  BY <1>1
<1>5. IsPlans(strategies, turn - 1)'
  BY <1>1 DEF EngineInv
<1> QED BY <1>1, <1>2, <1>3, <1>4, <1>5 DEF EngineInv

LEMMA EngineStep == EngineInv /\ EngineNext => EngineInv'
<1> SUFFICES ASSUME EngineInv, EngineNext PROVE EngineInv'
  OBVIOUS
<1>0. market \in MarketRecord /\ pool \in PoolType /\ Typed(rows)
  BY DEF EngineInv
<1>1. stage # "allocated" => turn \in 1 .. 3
  BY DEF EngineInv
<1>2. CASE SelectCore
  <2> DEFINE b == Budget("core")
             new == _select_and_weight(CorePool, b, "core",
                        AtLeast(1, Count("core")
                                   - Cardinality(Elems(pool.core) \cap MANDATORY_CODES)),
                        used.core, CoreAnchors)
  <2>1. Pass("core", "wide", new) /\ rows' = new
    BY <1>2 DEF SelectCore, Pass
  <2>2. turn \in 1 .. 3
    BY <1>1, <2>1 DEF Pass
  <2>3. Typed(new)
    <3> HIDE DEF b
    <3> QED BY <1>0, <2>2, CoreTyped
  <2> HIDE DEF new
  <2> QED BY <2>1, <2>3, PassInv
<1>3. CASE CapWideBasis
  <2> DEFINE new == _constrain_core_wide_basis_cap(rows)
  <2>1. Pass("wide", "topup", new) /\ rows' = new
    BY <1>3 DEF CapWideBasis, Pass
  <2>2. Typed(new)
    BY <1>0, WideBasisTyped
  <2> HIDE DEF new
  <2> QED BY <2>1, <2>2, PassInv
<1>4. CASE TopUpCore
  <2> DEFINE b == Budget("core")  new == _reconcile_core_budget_topup(rows, b)
  <2>1. Pass("topup", "growth", new) /\ rows' = new
    BY <1>4 DEF TopUpCore, Pass
  <2>2. Typed(new)
    <3> HIDE DEF b
    <3> QED BY <1>0, TopUpTyped
  <2> HIDE DEF new
  <2> QED BY <2>1, <2>2, PassInv
<1>5. CASE CapGrowth
  <2> DEFINE new == _cap_core_growth_wide_basis(rows)
  <2>1. Pass("growth", "diversify", new) /\ rows' = new
    BY <1>5 DEF CapGrowth, Pass
  <2>2. Typed(new)
    BY <1>0, GrowthTyped
  <2> HIDE DEF new
  <2> QED BY <2>1, <2>2, PassInv
<1>6. CASE Diversify
  <2>1. \E new : Pass("diversify", "satellite", new)
    BY <1>6, Zenon DEF Diversify
  <2>2. Typed(rows')
    BY <1>0, <1>6, DiversifyTyped
  <2> QED BY <2>1, <2>2, PassInv
<1>7. CASE SelectSatellites
  <2>1. \E new : Pass("satellite", "backup", new)
    BY <1>7, Zenon DEF SelectSatellites
  <2>2. turn \in 1 .. 3
    BY <1>1, <2>1 DEF Pass
  <2>3. Typed(rows')
    BY <1>0, <1>7, <2>2, SatellitesTyped
  <2> QED BY <2>1, <2>3, PassInv
<1>8. CASE BackupSatellites
  <2>1. \E new : Pass("backup", "tech", new)
    BY <1>8, Zenon DEF BackupSatellites
  <2>2. Typed(rows')
    BY <1>0, <1>8, BackupTyped
  <2> QED BY <2>1, <2>2, PassInv
<1>9. CASE InjectStar50
  <2>1. \E new : Pass("tech", "defense", new)
    BY <1>9, Zenon DEF InjectStar50
  <2>2. Typed(rows')
    BY <1>0, <1>9, InjectTyped
  <2> QED BY <2>1, <2>2, PassInv
<1>10. CASE SelectDefense
  <2>1. \E new : Pass("defense", "dedup", new)
    BY <1>10, Zenon DEF SelectDefense
  <2>2. turn \in 1 .. 3
    BY <1>1, <2>1 DEF Pass
  <2>3. Typed(rows')
    BY <1>0, <1>10, <2>2, DefenseTyped
  <2> QED BY <2>1, <2>3, PassInv
<1>11. CASE DedupSameIndex
  <2> DEFINE new == _dedup_same_index(rows)
  <2>1. Pass("dedup", "floor", new) /\ rows' = new
    BY <1>11 DEF DedupSameIndex, Pass
  <2>2. Typed(new) /\ OneFund(new)
    BY <1>0, DedupOneFund
  <2> HIDE DEF new
  <2> QED BY <2>1, <2>2, PassInv
<1>12. CASE LiftAnchors
  <2> DEFINE new == _enforce_mandatory_floor(rows)
  <2>1. Pass("floor", "shortfall", new) /\ rows' = new
    BY <1>12 DEF LiftAnchors, Pass
  <2>2. SameRows(new, rows)
    BY <1>0, FloorSame
  <2> HIDE DEF new
  <2>3. Typed(new) /\ From(new, rows)
    BY <1>0, <2>2, SameFacts
  <2>4. OneFund(rows)
    BY <2>1 DEF Pass, EngineInv
  <2>5. OneFund(new)
    BY <2>3, <2>4, FromOneFund
  <2> QED BY <2>1, <2>3, <2>5, PassInv
<1>13. CASE Reconcile
  <2> DEFINE b == dynamic_layer_budget(Profile, market.regime)
             new == _reconcile_budget_shortfall(rows, b)
  <2>1. Pass("shortfall", "budget", new) /\ rows' = new
    BY <1>13 DEF Reconcile, Pass
  <2>2. SameRows(new, rows)
    <3> HIDE DEF b
    <3> QED BY <1>0, ShortfallSame
  <2> HIDE DEF new
  <2>3. Typed(new) /\ From(new, rows)
    BY <1>0, <2>2, SameFacts
  <2>4. OneFund(rows)
    BY <2>1 DEF Pass, EngineInv
  <2>5. OneFund(new)
    BY <2>3, <2>4, FromOneFund
  <2> QED BY <2>1, <2>3, <2>5, PassInv
<1>14. CASE FinishStrategy
  <2> DEFINE b == dynamic_layer_budget(Profile, market.regime)
             done == _enforce_layer_budget_final(rows, b)
  <2>1. /\ stage = "budget" /\ strategies' = Append(strategies, done)
        /\ turn' = turn + 1 /\ stage' = IF turn = 3 THEN "allocated" ELSE "core"
        /\ rows' = <<>> /\ market' = market /\ pool' = pool
    BY <1>14 DEF FinishStrategy
  <2>2. SameRows(done, rows)
    <3> HIDE DEF b
    <3> QED BY <1>0, FinalSame
  <2> HIDE DEF done
  <2>3. Typed(done) /\ From(done, rows) /\ OneFund(rows)
    BY <1>0, <2>1, <2>2, SameFacts DEF EngineInv
  <2>4. OneFund(done)
    BY <2>3, FromOneFund
  <2> DEFINE n == turn - 1
  <2>5. n \in Nat /\ IsPlans(strategies, n) /\ turn \in 1 .. 3 /\ n + 1 = turn' - 1
    BY <1>1, <2>1 DEF EngineInv
  <2> HIDE DEF n
  <2>6. IsPlans(Append(strategies, done), n + 1)
    BY <2>3, <2>4, <2>5, PlansAppend
  <2>7. IsPlans(strategies, turn - 1)'
    BY <2>1, <2>5, <2>6
  <2>8. MarketRecord' = MarketRecord /\ PoolType' = PoolType
    BY DEF MarketRecord, PoolType
  <2>9. Typed(rows)'
    BY <2>1, EmptyTyped
  <2>10. turn' \in 1 .. 4 /\ (stage' = "allocated" <=> turn' = 4)
         /\ stage' \notin {"floor", "shortfall", "budget"}
    BY <2>1, <2>5
  <2> QED BY <1>0, <2>1, <2>7, <2>8, <2>9, <2>10 DEF EngineInv
<1> QED BY <1>2, <1>3, <1>4, <1>5, <1>6, <1>7, <1>8, <1>9, <1>10, <1>11, <1>12, <1>13, <1>14
        DEF EngineNext

\* The anchors a step takes from the finished strategies are those it may take.
Outlive ==
    \A d \in 1 .. 3 :
        (Symbols(strategies[d]) \cap MANDATORY_CODES) \ Symbols(strategies'[d])
            \subseteq MayTake(strategies[d])

\* A pass over a finished strategy keeps the invariant when it leaves some of the
\* rows, and all anchors but those it may take.
LEMMA FinishInv ==
    ASSUME DesignInv, NEW from, NEW to, NEW new, FinishPass(from, to, new), NEW X,
           Keeps(new, Plan, X), X \subseteq MayTake(Plan)
    PROVE  EngineInv' /\ Outlive
<1>1. /\ stage = "allocated" /\ strategies' = [strategies EXCEPT ![design] = new]
      /\ market' = market /\ pool' = pool /\ turn' = turn /\ stage' = stage /\ rows' = rows
  BY DEF FinishPass
<1>2. turn = 4 /\ design \in 1 .. 3 /\ IsPlans(strategies, turn - 1)
  BY <1>1 DEF DesignInv, EngineInv
<1> DEFINE n == 3
<1>3. n \in Nat /\ design \in 1 .. n /\ IsPlans(strategies, n) /\ Keeps(new, strategies[design], X)
  <2>1. turn - 1 = n
    BY <1>2
  <2> QED BY <1>2, <2>1 DEF Plan
<1> HIDE DEF n
<1> DEFINE s == [strategies EXCEPT ![design] = new]
<1>4. /\ IsPlans(s, n) /\ s[design] = new
      /\ \A e \in 1 .. n : e # design => s[e] = strategies[e]
  <2> DEFINE d == design
  <2>1. s = Updated(strategies, d, new) /\ d \in 1 .. n /\ Keeps(new, strategies[d], X)
    BY <1>3 DEF Updated
  <2>2. n \in Nat /\ IsPlans(strategies, n)
    BY <1>3
  <2> HIDE DEF s, d
  <2>3. IsPlans(s, n) /\ s[d] = new /\ \A e \in 1 .. n : e # d => s[e] = strategies[e]
    BY <2>1, <2>2, PlansExcept
  <2> QED BY <2>3 DEF d
<1>5. strategies' = s
  BY <1>1
<1> HIDE DEF s
<1>6. IsPlans(strategies, turn - 1)'
  <2>1. turn' - 1 = n
    BY <1>1, <1>2 DEF n
  <2> QED BY <1>4, <1>5, <2>1
<1>7. MarketRecord' = MarketRecord /\ PoolType' = PoolType
  BY DEF MarketRecord, PoolType
<1>8. EngineInv'
  BY <1>1, <1>2, <1>6, <1>7 DEF DesignInv, EngineInv
<1>9. Outlive
  <2>1. SUFFICES ASSUME NEW d \in 1 .. 3
                 PROVE  (Symbols(strategies[d]) \cap MANDATORY_CODES) \ Symbols(s[d])
                            \subseteq MayTake(strategies[d])
    BY <1>5 DEF Outlive
  <2>2. CASE d = design
    BY <1>3, <1>4, <2>2 DEF Keeps, Plan
  <2>3. CASE d # design
    <3>1. s[d] = strategies[d]
      BY <1>4, <2>3 DEF n
    <3> QED BY <3>1
  <2> QED BY <2>2, <2>3
<1> QED BY <1>8, <1>9

LEMMA EnforceInv ==
    ASSUME DesignInv, EnforceBudgets
    PROVE  EngineInv' /\ Outlive
<1>1. /\ stage = "allocated"
      /\ market' = market /\ pool' = pool /\ turn' = turn /\ stage' = stage /\ rows' = rows
  BY DEF EnforceBudgets
<1> DEFINE New(d) == _enforce_layer_budget_final(strategies[d], LayerBudget(d))
           s == [d \in 1 .. 3 |-> New(d)]
<1>2. strategies' = s
  BY DEF EnforceBudgets
<1>3. turn = 4 /\ \A d \in 1 .. 3 : Typed(strategies[d]) /\ OneFund(strategies[d])
  BY <1>1 DEF DesignInv, EngineInv, IsPlans
<1>4. ASSUME NEW d \in 1 .. 3
      PROVE  Typed(New(d)) /\ OneFund(New(d)) /\ Symbols(New(d)) = Symbols(strategies[d])
  <2> DEFINE q == strategies[d]  b == LayerBudget(d)  p == _enforce_layer_budget_final(q, b)
  <2>1. Typed(q) /\ OneFund(q)
    BY <1>3
  <2> HIDE DEF q, b
  <2>2. SameRows(p, q)
    BY <2>1, FinalSame
  <2> HIDE DEF p
  <2>3. Typed(p) /\ From(p, q) /\ Symbols(p) = Symbols(q)
    BY <2>1, <2>2, SameFacts
  <2>4. OneFund(p)
    BY <2>1, <2>3, FromOneFund
  <2> QED BY <2>3, <2>4 DEF p, q, b
<1> HIDE DEF New
<1>5. s = [d \in 1 .. 3 |-> s[d]] /\ \A d \in 1 .. 3 : s[d] = New(d)
  OBVIOUS
<1> HIDE DEF s
<1>6. IsPlans(strategies, turn - 1)'
  <2>1. turn' - 1 = 3
    BY <1>1, <1>3
  <2>2. IsPlans(s, 3)
    BY <1>4, <1>5 DEF IsPlans
  <2> QED BY <1>2, <2>1, <2>2
<1>7. MarketRecord' = MarketRecord /\ PoolType' = PoolType
  BY DEF MarketRecord, PoolType
<1>8. EngineInv'
  BY <1>1, <1>3, <1>6, <1>7 DEF DesignInv, EngineInv
<1>9. Outlive
  BY <1>2, <1>4, <1>5 DEF Outlive
<1> QED BY <1>8, <1>9

\* What leaves the engine's variables alone.
LEMMA IdleInv ==
    ASSUME DesignInv, UNCHANGED engineVars
    PROVE  EngineInv' /\ Outlive
<1>1. /\ market' = market /\ pool' = pool /\ turn' = turn /\ stage' = stage /\ rows' = rows
      /\ strategies' = strategies
  BY DEF engineVars
<1>2. MarketRecord' = MarketRecord /\ PoolType' = PoolType
  BY DEF MarketRecord, PoolType
<1>3. EngineInv'
  BY <1>1, <1>2 DEF DesignInv, EngineInv
<1>4. Outlive
  BY <1>1 DEF Outlive
<1> QED BY <1>3, <1>4

\* The engine is done when the strategies are allocated.
LEMMA EngineBusy == EngineNext => stage # "allocated"
<1>1. SelectCore \/ CapWideBasis \/ TopUpCore \/ CapGrowth => stage # "allocated"
  BY DEF SelectCore, CapWideBasis, TopUpCore, CapGrowth, Pass
<1>2. Diversify => stage # "allocated"
  BY DEF Diversify, Pass
<1>3. SelectSatellites \/ BackupSatellites => stage # "allocated"
  <2>1. SelectSatellites => stage = "satellite"
    BY DEF SelectSatellites, Pass
  <2>2. BackupSatellites => stage = "backup"
    BY Zenon DEF BackupSatellites, Pass
  <2> QED BY <2>1, <2>2
<1>4. InjectStar50 \/ SelectDefense => stage # "allocated"
  <2>1. InjectStar50 => stage = "tech"
    BY DEF InjectStar50, Pass
  <2>2. SelectDefense => stage = "defense"
    BY DEF SelectDefense, Pass
  <2> QED BY <2>1, <2>2
<1>5. DedupSameIndex \/ LiftAnchors \/ Reconcile \/ FinishStrategy => stage # "allocated"
  BY DEF DedupSameIndex, LiftAnchors, Reconcile, FinishStrategy, Pass
<1> QED BY <1>1, <1>2, <1>3, <1>4, <1>5 DEF EngineNext

LEMMA DesignStep ==
    ASSUME DesignInv, [DesignNext]_designVars
    PROVE  DesignInv' /\ (stage = "allocated" => Outlive)
<1>0. stage = "allocated" => /\ Typed(Plan)
                             /\ Keeps(Plan, Plan, {})
  <2>1. stage = "allocated" => Typed(Plan)
    BY DEF DesignInv, EngineInv, IsPlans, Plan
  <2> QED BY <2>1, SelfKeeps
<1>1. \A q : {} \subseteq MayTake(q)
  OBVIOUS
<1>2. design \in 1 .. 3
  BY DEF DesignInv
<1>3. CASE EngineNext /\ UNCHANGED finishVars
  <2>1. EngineInv'
    BY <1>3, EngineStep DEF DesignInv
  <2>2. stage # "allocated"
    BY <1>3, EngineBusy
  <2>3. design' = design
    BY <1>3 DEF finishVars
  <2> QED BY <1>2, <2>1, <2>2, <2>3 DEF DesignInv
<1>4. CASE MeetMarket
  BY <1>2, <1>4, IdleInv DEF MeetMarket, DesignInv
<1>5. CASE RemoveStale
  <2> DEFINE new == remove_stale_candidates(Plan)  X == {}
  <2>1. FinishPass("stale", "drawdown", new) /\ design' = design
    BY <1>5 DEF RemoveStale, Same
  <2>2. Keeps(new, Plan, X)
    BY <1>0, <2>1, StaleKeeps DEF FinishPass
  <2> HIDE DEF new
  <2>3. EngineInv' /\ Outlive
    BY <1>1, <2>1, <2>2, FinishInv
  <2> QED BY <1>2, <2>1, <2>3 DEF DesignInv
<1>6. CASE FilterDrawdown
  <2> DEFINE new == filter_extreme_drawdown(Plan)  X == upset.crashed
  <2>1. FinishPass("drawdown", "defense", new) /\ design' = design
    BY <1>6 DEF FilterDrawdown, Same
  <2>2. Keeps(new, Plan, X)
    BY <1>0, <2>1, DrawdownKeeps DEF FinishPass
  <2>3. X \subseteq MayTake(Plan)
    BY <2>1 DEF FinishPass, MayTake
  <2> HIDE DEF new, X
  <2>4. EngineInv' /\ Outlive
    BY <2>1, <2>2, <2>3, FinishInv
  <2> QED BY <1>2, <2>1, <2>4 DEF DesignInv
<1>7. CASE CheckDefense
  <2> DEFINE new == _consolidate_minnows(check_defense_effectiveness(Plan))
             X == Minnows(check_defense_effectiveness(Plan))
  <2>1. FinishPass("defense", "caps", new) /\ design' = design
    BY <1>7 DEF CheckDefense, Same
  <2>2. Keeps(new, Plan, X)
    BY <1>0, <2>1, DefenseKeeps DEF FinishPass
  <2>3. X \subseteq MayTake(Plan)
    BY <2>1 DEF FinishPass, MayTake
  <2> HIDE DEF new, X
  <2>4. EngineInv' /\ Outlive
    BY <2>1, <2>2, <2>3, FinishInv
  <2> QED BY <1>2, <2>1, <2>4 DEF DesignInv
<1>8. CASE CapRows
  <2> DEFINE c == Capped(Plan)  new == DividendsInCore(c)  X == {}  Z == X \cup X
  <2>1. FinishPass("caps", "growth", new) /\ design' = design
    BY <1>8 DEF CapRows, Same
  <2>2. Typed(Plan)
    BY <1>0, <2>1 DEF FinishPass
  <2>3. SameRows(c, Plan)
    BY <2>2, CappedSame
  <2> HIDE DEF c
  <2>4. Typed(c) /\ Keeps(c, Plan, X)
    BY <2>2, <2>3, SameFacts, SameKeeps
  <2>5. Keeps(new, c, X)
    BY <2>4, DividendsKeep
  <2> HIDE DEF new, X
  <2>6. Keeps(new, Plan, Z)
    BY <2>4, <2>5, KeepsKeeps
  <2>7. Z \subseteq MayTake(Plan)
    BY <1>1 DEF X
  <2> HIDE DEF Z
  <2>8. EngineInv' /\ Outlive
    BY <2>1, <2>6, <2>7, FinishInv
  <2> QED BY <1>2, <2>1, <2>8 DEF DesignInv
<1>9. CASE CapCoreGrowth
  <2> DEFINE cap == (LayerBudget(design).core * 40) \div 100
             new == apply_core_bear_growth_trim(ScaledDown(Plan, GrowthIn(Plan), cap))
  <2>1. FinishPass("growth", "layers", new) /\ design' = design
    BY <1>9 DEF CapCoreGrowth, Same
  <2>2. Typed(Plan)
    BY <1>0, <2>1 DEF FinishPass
  <2>3. SameRows(new, Plan)
    <3> HIDE DEF cap
    <3> QED BY <2>2, GrowthCapSame
  <2> HIDE DEF new
  <2>4. Keeps(new, Plan, {})
    BY <2>2, <2>3, SameKeeps
  <2>5. EngineInv' /\ Outlive
    BY <1>1, <2>1, <2>4, FinishInv
  <2> QED BY <1>2, <2>1, <2>5 DEF DesignInv
<1>10. CASE ScaleLayers
  <2> DEFINE b == LayerBudget(design)  new == WithinBudgets(Plan, b)
  <2>1. FinishPass("layers", "pairs", new) /\ design' = design
    BY <1>10 DEF ScaleLayers, Same
  <2>2. Typed(Plan)
    BY <1>0, <2>1 DEF FinishPass
  <2>3. SameRows(new, Plan)
    <3> HIDE DEF b
    <3> QED BY <2>2, WithinSame
  <2> HIDE DEF new
  <2>4. Keeps(new, Plan, {})
    BY <2>2, <2>3, SameKeeps
  <2>5. EngineInv' /\ Outlive
    BY <1>1, <2>1, <2>4, FinishInv
  <2> QED BY <1>2, <2>1, <2>5 DEF DesignInv
<1>11. CASE LimitPairs
  <2> DEFINE new == IF upset.matrix THEN enforce_max_correlation(Plan) ELSE Plan
  <2>1. FinishPass("pairs", "merge", new) /\ design' = design
    BY <1>11 DEF LimitPairs, Same
  <2>2. Typed(Plan)
    BY <1>0, <2>1 DEF FinishPass
  <2>3. SameRows(new, Plan)
    BY <2>2, CorrelationSame, SameSelf
  <2> HIDE DEF new
  <2>4. Keeps(new, Plan, {})
    BY <2>2, <2>3, SameKeeps
  <2>5. EngineInv' /\ Outlive
    BY <1>1, <2>1, <2>4, FinishInv
  <2> QED BY <1>2, <2>1, <2>5 DEF DesignInv
<1>12. CASE MergeSubstitutes
  <2> DEFINE new == IF Len(Plan) < 2 THEN Plan ELSE _merge_substitute_family(Plan)
  <2>1. FinishPass("merge", "quotes", new) /\ design' = design
    BY <1>12 DEF MergeSubstitutes, Same
  <2>2. Typed(Plan) /\ Keeps(Plan, Plan, {})
    BY <1>0, <2>1 DEF FinishPass
  <2>3. Keeps(new, Plan, {})
    BY <2>2, MergeKeeps
  <2> HIDE DEF new
  <2>4. EngineInv' /\ Outlive
    BY <1>1, <2>1, <2>3, FinishInv
  <2> QED BY <1>2, <2>1, <2>4 DEF DesignInv
<1>13. CASE DropUnquoted
  <2> DEFINE new == Unquoted(Plan)
  <2>1. FinishPass("quotes", "cash", new) /\ design' = design
    BY <1>13 DEF DropUnquoted, Same
  <2>2. Typed(Plan)
    BY <1>0, <2>1 DEF FinishPass
  <2>3. SameRows(new, Plan)
    BY <2>2, UnquotedSame
  <2> HIDE DEF new
  <2>4. Keeps(new, Plan, {})
    BY <2>2, <2>3, SameKeeps
  <2>5. EngineInv' /\ Outlive
    BY <1>1, <2>1, <2>4, FinishInv
  <2> QED BY <1>2, <2>1, <2>5 DEF DesignInv
<1>14. CASE AddCash
  <2> DEFINE new == IF upset.coarse THEN _apply_precision_bucketing(Plan) ELSE Plan
             to == IF design = 3 THEN "enforce" ELSE "stale"
  <2>1. FinishPass("cash", to, new) /\ design' = IF design = 3 THEN 3 ELSE design + 1
    BY <1>14 DEF AddCash
  <2>2. Typed(Plan)
    BY <1>0, <2>1 DEF FinishPass
  <2>3. SameRows(new, Plan)
    BY <2>2, UnquotedSame, SameSelf
  <2> HIDE DEF new, to
  <2>4. Keeps(new, Plan, {})
    BY <2>2, <2>3, SameKeeps
  <2>5. EngineInv' /\ Outlive
    BY <1>1, <2>1, <2>4, FinishInv
  <2>6. design' \in 1 .. 3
    BY <1>2, <2>1
  <2> QED BY <2>5, <2>6 DEF DesignInv
<1>15. CASE EnforceBudgets
  <2>1. design' = design
    BY <1>15 DEF EnforceBudgets
  <2> QED BY <1>2, <1>15, <2>1, EnforceInv DEF DesignInv
<1>16. CASE Close
  BY <1>2, <1>16, IdleInv DEF Close, DesignInv
<1>17. CASE UNCHANGED designVars
  BY <1>2, <1>17, IdleInv DEF designVars, finishVars, DesignInv
<1> QED BY <1>3, <1>4, <1>5, <1>6, <1>7, <1>8, <1>9, <1>10, <1>11, <1>12, <1>13, <1>14,
           <1>15, <1>16, <1>17 DEF DesignNext

LEMMA DesignInvariant == DesignSpec => []DesignInv
<1>1. DesignInv /\ [DesignNext]_designVars => DesignInv'
  BY DesignStep
<1> QED BY InitInv, <1>1, PTL DEF DesignSpec

\* The rows of the strategy in work and of every finished one are an instrument, a layer,
\* a weight (of any value) and a whole score, whatever the passes selected, removed,
\* moved or resized, and the candidates they were selected from are instruments.
THEOREM EveryRowIsAnInstrument ==
    DesignSpec => [](/\ pool \in PoolType /\ Typed(rows)
                     /\ \A d \in DOMAIN strategies : Typed(strategies[d]))
<1>1. DesignInv => /\ pool \in PoolType /\ Typed(rows)
                   /\ \A d \in DOMAIN strategies : Typed(strategies[d])
  BY DEF DesignInv, EngineInv, IsPlans
<1> QED BY DesignInvariant, <1>1, PTL

\* A finished strategy never holds two funds of one index, two anchors excepted, for every
\* market, scan and taxonomy: _dedup_same_index leaves one, the three passes after it and
\* the twelve of generate_enhanced_design add none.
THEOREM NeverTwoFundsOfAnIndex == DesignSpec => []OneFundPerIndex
<1>1. DesignInv => OneFundPerIndex
  <2> SUFFICES ASSUME DesignInv PROVE OneFundPerIndex
    OBVIOUS
  <2>1. \A d \in DOMAIN strategies : OneFund(strategies[d])
    BY DEF DesignInv, EngineInv, IsPlans
  <2> QED BY <2>1 DEF OneFundPerIndex, OneFund
<1> QED BY DesignInvariant, <1>1, PTL

\* An anchor leaves a finished strategy only for a month below -40 % or as a defense row
\* below 2 % (filter_extreme_drawdown, check_defense_effectiveness); no other pass of
\* generate_enhanced_design takes one.
THEOREM AnchorsLeaveForCause == DesignSpec => AnchorsOutlivePasses
<1>1. DesignInv /\ [DesignNext]_designVars
        => [stage = "allocated" => \A d \in 1..3 :
               (Symbols(strategies[d]) \cap MANDATORY_CODES) \ Symbols(strategies'[d])
                   \subseteq MayTake(strategies[d])]_designVars
  BY DesignStep DEF Outlive
<1> QED BY DesignInvariant, <1>1, PTL DEF DesignSpec, AnchorsOutlivePasses
=============================================================================
