--------------------------- MODULE HelperTheorems ---------------------------
(***************************************************************************)
(* Facts about the helper modules.  Of Sums: what a total does when a      *)
(* summand is added, removed or replaced, and how two totals compare.  Of  *)
(* Places: what a sequence keeps of another one, and in which order.  And  *)
(* the least and the greatest member of a set of numbers.                  *)
(***************************************************************************)
EXTENDS Sums, Places, Integers, FiniteSetsExt, SequencesExt, FiniteSetTheorems, NaturalsInduction, TLAPS

(* A function with finitely many summands. *)
IsFiniteWeight(w) ==
    /\ w \in [DOMAIN w -> Nat]
    /\ IsFiniteSet(DOMAIN w)

(* A unit is a summand with one of its numbers. *)
LEMMA UnitsMember ==
    ASSUME NEW w, NEW p
    PROVE  p \in Units(w) <=>
               \E x \in DOMAIN w : \E i \in 1..w[x] : p = <<x, i>>
  BY DEF Units

(* The units of x alone: as many as its weight. *)
LEMMA UnitsOfOne ==
    ASSUME NEW x, NEW n \in Nat
    PROVE  /\ IsFiniteSet({x} \X (1..n))
           /\ Cardinality({x} \X (1..n)) = n
  <1>1. IsFiniteSet(1..n) /\ Cardinality(1..n) = n
    BY FS_Interval
  <1>2. IsFiniteSet({x}) /\ Cardinality({x}) = 1
    BY FS_Singleton
  <1>3. /\ IsFiniteSet({x} \X (1..n))
        /\ Cardinality({x} \X (1..n)) = Cardinality({x}) * Cardinality(1..n)
    BY <1>1, <1>2, FS_Product, Zenon
  <1> QED BY <1>1, <1>2, <1>3

(* A total of finitely many natural numbers is a natural number. *)
LEMMA SumType ==
    ASSUME NEW w, IsFiniteWeight(w)
    PROVE  IsFiniteSet(Units(w)) /\ SumOf(w) \in Nat
  <1> DEFINE T == {{x} \X (1..w[x]) : x \in DOMAIN w}
             f == [x \in DOMAIN w |-> {x} \X (1..w[x])]
  <1>1. f \in Surjection(DOMAIN w, T)
    BY DEF Surjection
  <1>2. IsFiniteSet(T)
    BY <1>1, FS_Surjection DEF IsFiniteWeight
  <1>3. \A U \in T : IsFiniteSet(U)
    BY UnitsOfOne, ZenonT(60) DEF IsFiniteWeight
  <1>4. IsFiniteSet(UNION T)
    BY <1>2, <1>3, FS_UNION
  <1> QED BY <1>4, FS_CardinalityType DEF Units, SumOf

(* The total of nothing. *)
LEMMA SumEmpty ==
    ASSUME NEW w, DOMAIN w = {}
    PROVE  SumOf(w) = 0
  <1>1. Units(w) = {}
    BY DEF Units
  <1> QED BY <1>1, FS_EmptySet DEF SumOf

(* The total over two sets of summands that share none. *)
LEMMA SumUnion ==
    ASSUME NEW v, IsFiniteWeight(v), NEW w, IsFiniteWeight(w),
           NEW u, u \in [DOMAIN v \union DOMAIN w -> Nat],
           DOMAIN v \intersect DOMAIN w = {},
           \A x \in DOMAIN v : u[x] = v[x],
           \A x \in DOMAIN w : u[x] = w[x]
    PROVE  IsFiniteWeight(u) /\ SumOf(u) = SumOf(v) + SumOf(w)
  <1>1. DOMAIN u = DOMAIN v \union DOMAIN w
    OBVIOUS
  <1>2. IsFiniteWeight(u)
    <2>1. IsFiniteSet(DOMAIN v \union DOMAIN w)
      BY FS_Union DEF IsFiniteWeight
    <2> QED BY <1>1, <2>1 DEF IsFiniteWeight
  <1>3. Units(u) = Units(v) \union Units(w)
    <2>1. ASSUME NEW p PROVE p \in Units(u) <=> p \in Units(v) \/ p \in Units(w)
      BY <1>1, UnitsMember
    <2> QED BY <2>1
  <1>4. Units(v) \intersect Units(w) = {}
    BY UnitsMember
  <1>5. /\ IsFiniteSet(Units(v)) /\ SumOf(v) \in Nat
        /\ IsFiniteSet(Units(w)) /\ SumOf(w) \in Nat
    BY SumType
  <1>6. Cardinality(Units(u)) = Cardinality(Units(v)) + Cardinality(Units(w)) - Cardinality({})
    BY <1>3, <1>4, <1>5, FS_Union
  <1>7. Cardinality({}) = 0
    BY FS_EmptySet
  <1> QED BY <1>2, <1>5, <1>6, <1>7 DEF SumOf

(* A new summand adds its value. *)
LEMMA SumAdd ==
    ASSUME NEW w, IsFiniteWeight(w), NEW x, x \notin DOMAIN w,
           NEW v, v \in [DOMAIN w \union {x} -> Nat],
           \A y \in DOMAIN w : v[y] = w[y]
    PROVE  IsFiniteWeight(v) /\ SumOf(v) = SumOf(w) + v[x]
  <1> DEFINE one == [y \in {x} |-> v[x]]
  <1>1. v[x] \in Nat
    OBVIOUS
  <1>2. IsFiniteWeight(one)
    BY <1>1, FS_Singleton DEF IsFiniteWeight
  <1>3. Units(one) = {x} \X (1..v[x])
    <2>1. ASSUME NEW p PROVE p \in Units(one) <=> p \in {x} \X (1..v[x])
      BY UnitsMember
    <2> QED BY <2>1
  <1>4. SumOf(one) = v[x]
    <2>1. Cardinality({x} \X (1..v[x])) = v[x]
      BY <1>1, UnitsOfOne
    <2> QED BY <1>3, <2>1 DEF SumOf
  <1>5. DOMAIN one = {x} /\ one[x] = v[x]
    OBVIOUS
  <1> HIDE DEF one
  <1>6. /\ v \in [DOMAIN w \union DOMAIN one -> Nat]
        /\ DOMAIN w \intersect DOMAIN one = {}
        /\ \A y \in DOMAIN one : v[y] = one[y]
    BY <1>5
  <1>7. IsFiniteWeight(v) /\ SumOf(v) = SumOf(w) + SumOf(one)
    BY <1>2, <1>6, SumUnion
  <1> QED BY <1>4, <1>7

(* A total bounds another whose summands it covers, one for one. *)
LEMMA SumLess ==
    ASSUME NEW v, IsFiniteWeight(v), NEW w, IsFiniteWeight(w),
           NEW g \in Injection(DOMAIN v, DOMAIN w),
           \A x \in DOMAIN v : v[x] <= w[g[x]]
    PROVE  SumOf(v) <= SumOf(w)
  <1> DEFINE h == [p \in Units(v) |-> <<g[p[1]], p[2]>>]
  <1>1. ASSUME NEW p \in Units(v)
        PROVE  /\ p = <<p[1], p[2]>>
               /\ p[1] \in DOMAIN v
               /\ p[2] \in 1..v[p[1]]
    BY UnitsMember
  <1>2. ASSUME NEW p \in Units(v) PROVE h[p] \in Units(w)
    <2>1. g[p[1]] \in DOMAIN w
      BY <1>1 DEF Injection
    <2>2. p[2] \in 1..w[g[p[1]]]
      BY <1>1, <2>1 DEF IsFiniteWeight
    <2> QED BY <2>1, <2>2, UnitsMember
  <1>3. ASSUME NEW p \in Units(v), NEW q \in Units(v), h[p] = h[q] PROVE p = q
    <2>1. g[p[1]] = g[q[1]] /\ p[2] = q[2]
      BY <1>3
    <2>2. p[1] = q[1]
      BY <1>1, <2>1 DEF Injection, IsInjective
    <2> QED BY <1>1, <2>1, <2>2
  <1>4. h \in Injection(Units(v), Units(w))
    <2>1. h \in [Units(v) -> Units(w)]
      BY <1>2
    <2>2. IsInjective(h)
      BY <1>3 DEF IsInjective
    <2> QED BY <2>1, <2>2 DEF Injection
  <1>5. IsFiniteSet(Units(w)) /\ IsFiniteSet(Units(v))
    BY SumType
  <1> HIDE DEF h
  <1> QED BY <1>4, <1>5, FS_Injection DEF SumOf

(* A summand is at most the total. *)
LEMMA SumBounds ==
    ASSUME NEW w, IsFiniteWeight(w), NEW x \in DOMAIN w
    PROVE  w[x] <= SumOf(w)
  <1> DEFINE v == [y \in DOMAIN w \ {x} |-> w[y]]
  <1>1. w \in [DOMAIN w -> Nat] /\ IsFiniteSet(DOMAIN w)
    BY DEF IsFiniteWeight
  <1>2. IsFiniteSet(DOMAIN w \ {x})
    BY <1>1, FS_Subset
  <1>3. IsFiniteWeight(v) /\ DOMAIN v = DOMAIN w \ {x} /\ \A y \in DOMAIN v : w[y] = v[y]
    BY <1>1, <1>2 DEF IsFiniteWeight
  <1> HIDE DEF v
  <1>4. DOMAIN v \union {x} = DOMAIN w /\ x \notin DOMAIN v
    BY <1>3
  <1>5. w \in [DOMAIN v \union {x} -> Nat]
    BY <1>1, <1>4
  <1>6. SumOf(w) = SumOf(v) + w[x]
    BY <1>3, <1>4, <1>5, SumAdd
  <1>7. SumOf(v) \in Nat /\ w[x] \in Nat
    BY <1>1, <1>3, SumType
  <1> QED BY <1>6, <1>7

(* Two totals are the same when their summands correspond one to one. *)
LEMMA SumSame ==
    ASSUME NEW v, IsFiniteWeight(v), NEW w, IsFiniteWeight(w),
           NEW g \in Injection(DOMAIN v, DOMAIN w), NEW h \in Injection(DOMAIN w, DOMAIN v),
           \A x \in DOMAIN v : v[x] = w[g[x]], \A y \in DOMAIN w : w[y] = v[h[y]]
    PROVE  SumOf(v) = SumOf(w)
  <1>1. SumOf(v) \in Nat /\ SumOf(w) \in Nat
    BY SumType
  <1>2. /\ \A x \in DOMAIN v : v[x] \in Nat /\ v[x] <= w[g[x]]
        /\ \A y \in DOMAIN w : w[y] \in Nat /\ w[y] <= v[h[y]]
    BY DEF IsFiniteWeight
  <1>3. SumOf(v) <= SumOf(w)
    BY <1>2, SumLess
  <1>4. SumOf(w) <= SumOf(v)
    BY <1>2, SumLess
  <1> QED BY <1>1, <1>3, <1>4

-----------------------------------------------------------------------------
(* The least and the greatest                                               *)

(* FiniteSetsExt's Min is the least member of a set of numbers. *)
LEMMA LeastOf ==
    ASSUME NEW S \in SUBSET Nat, S # {}
    PROVE  Min(S) \in S /\ \A x \in S : Min(S) <= x
  <1>1. PICK k \in S : \A j \in S : ~(<<j, k>> \in OpToRel(<, Nat))
    BY NatLessThanWellFounded, WFMin
  <1>2. \A j \in S : ~(j < k)
    BY <1>1 DEF OpToRel
  <1>3. \A j \in S : k <= j
    BY <1>2
  <1> QED BY <1>3 DEF Min

(* A set of numbers that is bounded has its greatest member. *)
LEMMA GreatestOf ==
    ASSUME NEW n \in Nat, NEW S \in SUBSET (0..n), S # {}
    PROVE  Max(S) \in S /\ \A x \in S : x <= Max(S)
  <1> DEFINE T == {n - x : x \in S}
  <1>1. T \in SUBSET Nat /\ T # {}
    <2>1. \A x \in S : n - x \in Nat
      <3> SUFFICES ASSUME NEW x \in S PROVE n - x \in Nat
        OBVIOUS
      <3>1. x \in 0..n
        OBVIOUS
      <3> QED BY <3>1
    <2>2. \A y \in T : y \in Nat
      BY <2>1
    <2>3. PICK x \in S : TRUE
      OBVIOUS
    <2>4. n - x \in T
      BY <2>3
    <2> QED BY <2>2, <2>4
  <1> HIDE DEF T
  <1>2. Min(T) \in T /\ \A y \in T : Min(T) <= y
    BY <1>1, LeastOf
  <1>3. PICK x \in S : Min(T) = n - x
    BY <1>2 DEF T
  <1>4. \A z \in S : n - z \in T
    BY DEF T
  <1>5. ASSUME NEW z \in S PROVE z <= x
    <2>1. n - x <= n - z
      BY <1>2, <1>3, <1>4
    <2> QED BY <2>1
  <1>6. \E y \in S : \A z \in S : z <= y
    BY <1>5
  <1>7. \A y, z \in S : z <= y <=> y >= z
    OBVIOUS
  <1>8. Max(S) \in S /\ \A z \in S : Max(S) >= z
    BY <1>6, <1>7 DEF Max
  <1> QED BY <1>7, <1>8

-----------------------------------------------------------------------------
(* Places                                                                   *)

(* The members of a set of numbers, in their order, each once. *)
LEMMA AscendingOnce ==
    ASSUME NEW n \in Nat, NEW S \in SUBSET (1..n)
    PROVE  /\ IsFiniteSet(S) /\ Cardinality(S) \in Nat
           /\ Cardinality(S) = 0 <=> S = {}
           /\ Ascending(S) = [k \in 1..Cardinality(S) |-> Ascending(S)[k]]
           /\ \A k \in 1..Cardinality(S) : Ascending(S)[k] \in S
           /\ \A j, k \in 1..Cardinality(S) : Ascending(S)[j] = Ascending(S)[k] => j = k
           /\ \A x \in S : \E k \in 1..Cardinality(S) : Ascending(S)[k] = x
           /\ \A j, k \in 1..Cardinality(S) : j < k => Ascending(S)[j] < Ascending(S)[k]
  <1> DEFINE c == Cardinality(S)
             upTo(x) == {y \in S : y <= x}
             rank == [x \in S |-> Cardinality(upTo(x))]
  <1>1. IsFiniteSet(S) /\ c \in Nat /\ (c = 0 <=> S = {})
    <2>1. IsFiniteSet(1..n)
      BY FS_Interval
    <2>2. IsFiniteSet(S)
      BY <2>1, FS_Subset
    <2> QED BY <2>2, FS_CardinalityType, FS_EmptySet
  <1>2. ASSUME NEW x \in S PROVE IsFiniteSet(upTo(x)) /\ rank[x] \in 1..c
    <2>1. upTo(x) \in SUBSET S /\ x \in upTo(x)
      OBVIOUS
    <2>2. IsFiniteSet(upTo(x)) /\ Cardinality(upTo(x)) <= c
      BY <1>1, <2>1, FS_Subset
    <2>3. Cardinality(upTo(x)) \in Nat /\ Cardinality(upTo(x)) # 0
      BY <2>1, <2>2, FS_CardinalityType, FS_EmptySet
    <2> QED BY <1>1, <2>2, <2>3
  <1>3. ASSUME NEW x \in S, NEW y \in S, x < y PROVE rank[x] < rank[y]
    <2>1. upTo(x) \in SUBSET upTo(y) /\ y \in upTo(y) /\ y \notin upTo(x)
      <3>1. x \in Int /\ y \in Int /\ \A z \in S : z \in Int
        OBVIOUS
      <3>2. y <= y /\ ~(y <= x) /\ \A z \in S : z <= x => z <= y
        BY <1>3, <3>1
      <3> QED BY <3>2
    <2>2. IsFiniteSet(upTo(y))
      BY <1>2
    <2>3. Cardinality(upTo(x)) <= Cardinality(upTo(y)) /\ Cardinality(upTo(y)) # Cardinality(upTo(x))
      BY <2>1, <2>2, FS_Subset
    <2>4. rank[x] \in Nat /\ rank[y] \in Nat
      BY <1>1, <1>2
    <2> QED BY <2>3, <2>4
  <1>4. \A x, y \in S : rank[x] = rank[y] => x = y
    <2> HIDE DEF rank
    <2> SUFFICES ASSUME NEW x \in S, NEW y \in S, rank[x] = rank[y], x # y PROVE FALSE
      OBVIOUS
    <2>1. rank[x] \in 1..c
      BY <1>2
    <2>4. x \in Int /\ y \in Int
      OBVIOUS
    <2>2. x < y \/ y < x
      BY <2>4
    <2>3. rank[x] < rank[y] \/ rank[y] < rank[x]
      BY <1>3, <2>2
    <2> QED BY <1>1, <2>1, <2>3
  <1>5. \A k \in 1..c : \E x \in S : rank[x] = k
    <2>1. rank \in Injection(S, 1..c)
      BY <1>2, <1>4 DEF Injection, IsInjective
    <2>2. IsFiniteSet(1..c) /\ Cardinality(1..c) = c
      BY <1>1, FS_Interval
    <2> HIDE DEF rank
    <2>3. rank \in Surjection(S, 1..c)
      BY <2>1, <2>2, FS_Injection
    <2> QED BY <2>3 DEF Surjection
  <1>6. ASSUME NEW k \in 1..c
        PROVE  Ascending(S)[k] \in S /\ rank[Ascending(S)[k]] = k
    <2>1. Ascending(S)[k] = CHOOSE x \in S : rank[x] = k
      BY DEF Ascending
    <2> HIDE DEF rank
    <2> QED BY <1>5, <2>1
  <1>7. Ascending(S) = [k \in 1..c |-> Ascending(S)[k]]
    BY DEF Ascending
  <1> HIDE DEF rank
  <1>8. ASSUME NEW j \in 1..c, NEW k \in 1..c, j < k PROVE Ascending(S)[j] < Ascending(S)[k]
    <2>1. PICK x \in S : x = Ascending(S)[j]
      BY <1>6
    <2>2. PICK y \in S : y = Ascending(S)[k]
      BY <1>6
    <2>3. rank[x] = j /\ rank[y] = k /\ x \in Int /\ y \in Int
      BY <1>6, <2>1, <2>2
    <2>4. ~(y < x) /\ x # y
      <3>1. y < x => rank[y] < rank[x]
        BY <1>3
      <3> QED BY <1>1, <1>8, <2>3, <3>1
    <2> QED BY <2>1, <2>2, <2>3, <2>4
  <1> QED BY <1>1, <1>2, <1>4, <1>6, <1>7, <1>8

(* Sequence v is what s has at the places in S: place a[k] of s is place k of v. *)
Keeps(v, s, S) ==
    \E a \in [1..Cardinality(S) -> S] :
        /\ \A k \in 1..Cardinality(S) : v[k] = s[a[k]]
        /\ \A j, k \in 1..Cardinality(S) : j < k => a[j] < a[k]
        /\ \A x \in S : \E k \in 1..Cardinality(S) : a[k] = x

(* What AtPlaces keeps of a sequence: the elements at the places, each once and in   *)
(* their order.                                                                      *)
LEMMA PlacesKept ==
    ASSUME NEW T, NEW s \in Seq(T), NEW S \in SUBSET (1..Len(s))
    PROVE  /\ AtPlaces(s, S) \in Seq(T) /\ Len(AtPlaces(s, S)) = Cardinality(S)
           /\ Cardinality(S) \in Nat /\ Keeps(AtPlaces(s, S), s, S)
  <1> DEFINE c == Cardinality(S)
  <1>1. Len(s) \in Nat
    OBVIOUS
  <1>2. PICK a : a = Ascending(S)
    OBVIOUS
  <1>3. /\ c \in Nat /\ a = [k \in 1..c |-> a[k]]
        /\ \A k \in 1..c : a[k] \in S
        /\ \A x \in S : \E k \in 1..c : a[k] = x
        /\ \A j, k \in 1..c : j < k => a[j] < a[k]
    BY <1>1, <1>2, AscendingOnce
  <1>4. a \in [1..c -> S]
    BY <1>3
  <1>5. AtPlaces(s, S) = [k \in 1..c |-> s[a[k]]]
    BY <1>2 DEF AtPlaces
  <1>6. PICK n \in Nat : n = c
    BY <1>3
  <1>7. \A k \in 1..n : s[a[k]] \in T
    BY <1>3, <1>6
  <1>8. [k \in 1..n |-> s[a[k]]] \in Seq(T) /\ Len([k \in 1..n |-> s[a[k]]]) = n
    BY <1>7
  <1> QED BY <1>3, <1>4, <1>5, <1>6, <1>8 DEF Keeps

(* SetToSeq lists the members of a finite set, each once. *)
LEMMA SetToSeqFacts ==
    ASSUME NEW S, IsFiniteSet(S)
    PROVE  /\ SetToSeq(S) \in Seq(S)
           /\ \A x \in S : \E i \in 1..Len(SetToSeq(S)) : SetToSeq(S)[i] = x
           /\ \A i, j \in 1..Len(SetToSeq(S)) : SetToSeq(S)[i] = SetToSeq(S)[j] => i = j
  <1>1. PICK n \in Nat : n = Cardinality(S)
    BY FS_CardinalityType
  <1>2. \E f \in [1..n -> S] : IsInjective(f)
    BY <1>1, FS_CardinalityType DEF ExistsBijection, Bijection, Injection
  <1>3. PICK f : f = SetToSeq(S)
    OBVIOUS
  <1>4. f \in [1..n -> S] /\ IsInjective(f)
    BY <1>1, <1>2, <1>3 DEF SetToSeq
  <1>5. f \in Injection(1..n, S)
    BY <1>4 DEF Injection
  <1>6. IsFiniteSet(1..n) /\ Cardinality(1..n) = n
    BY FS_Interval
  <1>7. f \in Surjection(1..n, S)
    BY <1>1, <1>5, <1>6, FS_Injection
  <1>8. f \in Seq(S) /\ Len(f) = n
    BY <1>4
  <1>9. DOMAIN f = 1..n
    BY <1>4
  <1> QED BY <1>3, <1>4, <1>7, <1>8, <1>9 DEF Surjection, IsInjective

=============================================================================
