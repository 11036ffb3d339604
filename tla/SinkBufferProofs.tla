-------------------------- MODULE SinkBufferProofs --------------------------
(***************************************************************************)
(* One signal ring, for any number of senders, leases and batches of any   *)
(* size: its slots, queue, reservations and leases agree, its counters are *)
(* exact, its budget holds, next_lease says None only of an empty ring,    *)
(* and every critical section on it is a step of the ledger.               *)
(***************************************************************************)
EXTENDS SinkBuffer, SequenceTheorems, HelperTheorems, NaturalsInduction

-----------------------------------------------------------------------------
(* Numbers and sequences                                                    *)

(* Induction up to n, for a property given as the set of the numbers that have it. *)
LEMMA UpTo ==
    ASSUME NEW n \in Nat, NEW S, 0 \in S,
           \A k \in 0..(n - 1) : k \in S => k + 1 \in S
    PROVE  n \in S
  <1> DEFINE T == {k \in 0..n : k \notin S}
  <1>1. SUFFICES ASSUME n \notin S PROVE FALSE
    OBVIOUS
  <1>2. n \in T /\ T \subseteq Nat
    BY <1>1
  <1>3. PICK k \in T : \A j \in T : ~(<<j, k>> \in OpToRel(<, Nat))
    BY <1>2, NatLessThanWellFounded, WFMin
  <1>4. k \in 0..n /\ k \notin S /\ k # 0
    BY <1>3
  <1>5. k - 1 \in 0..(n - 1) /\ (k - 1) + 1 = k /\ k - 1 \in 0..n
    BY <1>4
  <1>6. k - 1 \notin T
    <2>1. \A j \in T : ~(j < k)
      BY <1>2, <1>3 DEF OpToRel
    <2>2. k - 1 < k
      BY <1>4
    <2> QED BY <2>1, <2>2
  <1> QED BY <1>4, <1>5, <1>6

(* A set of numbers has its least member. *)
LEMMA MinIsLeast ==
    ASSUME NEW S \in SUBSET Nat, S # {}
    PROVE  Min(S) \in S /\ \A x \in S : Min(S) <= x
  <1>1. PICK k \in S : \A j \in S : ~(<<j, k>> \in OpToRel(<, Nat))
    BY NatLessThanWellFounded, WFMin
  <1>2. \A j \in S : ~(j < k)
    BY <1>1 DEF OpToRel
  <1>3. \A j \in S : k <= j
    BY <1>2
  <1> QED BY <1>3 DEF Min

(* A bounded set of numbers has its greatest member. *)
LEMMA MaxIsGreatest ==
    ASSUME NEW n \in Nat, NEW S \in SUBSET (0..n), S # {}
    PROVE  Max(S) \in S /\ \A x \in S : x <= Max(S)
  <1> DEFINE T == {n - x : x \in S}
  <1>1. T \in SUBSET Nat /\ T # {}
    <2>1. \A x \in S : n - x \in Nat
      OBVIOUS
    <2>2. PICK x \in S : TRUE
      OBVIOUS
    <2>3. n - x \in T
      BY <2>2
    <2> QED BY <2>1, <2>3
  <1>2. Min(T) \in T /\ \A y \in T : Min(T) <= y
    BY <1>1, MinIsLeast
  <1>3. PICK x \in S : Min(T) = n - x
    BY <1>2
  <1>4. \A y \in S : n - x <= n - y
    BY <1>2, <1>3
  <1>5. \A y \in S : x >= y
    BY <1>4
  <1> QED BY <1>5 DEF Max

(* Sequence t is q with e at place p. *)
IsInsertion(t, q, p, e) ==
    /\ Len(t) = Len(q) + 1
    /\ \A j \in 1..(Len(q) + 1) : t[j] = IF j < p THEN q[j] ELSE IF j = p THEN e ELSE q[j - 1]

(* A member put into a sequence at a place. *)
LEMMA Inserted ==
    ASSUME NEW S, NEW q \in Seq(S), NEW e \in S, NEW p \in 1..(Len(q) + 1)
    PROVE  InsertAt(q, p, e) \in Seq(S) /\ IsInsertion(InsertAt(q, p, e), q, p, e)
  <1> DEFINE a == SubSeq(q, 1, p - 1)
             c == SubSeq(q, p, Len(q))
  <1>0. Len(q) \in Nat /\ \A i \in 1..Len(q) : q[i] \in S
    BY ElementOfSeq, LenProperties
  <1>1. /\ a \in Seq(S) /\ Len(a) = p - 1
        /\ \A i \in 1..(p - 1) : a[i] = q[i]
    <2>1. \A i \in 1..(p - 1) : q[i] \in S
      BY <1>0
    <2>2. /\ a \in Seq(S) /\ Len(a) = IF 1 <= p - 1 THEN p - 1 - 1 + 1 ELSE 0
          /\ \A i \in 1..(p - 1 - 1 + 1) : a[i] = q[1 + i - 1]
      BY <1>0, <2>1, SubSeqProperties
    <2> QED BY <1>0, <2>2
  <1>2. /\ c \in Seq(S) /\ Len(c) = Len(q) - p + 1
        /\ \A i \in 1..(Len(q) - p + 1) : c[i] = q[p + i - 1]
    <2>1. \A i \in p..Len(q) : q[i] \in S
      BY <1>0
    <2>2. /\ c \in Seq(S) /\ Len(c) = IF p <= Len(q) THEN Len(q) - p + 1 ELSE 0
          /\ \A i \in 1..(Len(q) - p + 1) : c[i] = q[p + i - 1]
      BY <1>0, <2>1, SubSeqProperties
    <2> QED BY <1>0, <2>2
  <1>3. InsertAt(q, p, e) = (a \o <<e>>) \o c
    BY DEF InsertAt
  <1>4. <<e>> \in Seq(S) /\ Len(<<e>>) = 1 /\ <<e>>[1] = e
    OBVIOUS
  <1> HIDE DEF a, c
  <1> DEFINE d == a \o <<e>>
  <1>5. /\ d \in Seq(S) /\ Len(d) = p
        /\ \A i \in 1..p : d[i] = IF i <= p - 1 THEN a[i] ELSE <<e>>[i - (p - 1)]
    <2>1. /\ d \in Seq(S) /\ Len(d) = Len(a) + 1
          /\ \A i \in 1..(Len(a) + 1) : d[i] = IF i <= Len(a) THEN a[i] ELSE <<e>>[i - Len(a)]
      BY <1>1, <1>4, ConcatProperties
    <2> QED BY <1>0, <1>1, <2>1
  <1> HIDE DEF d
  <1>6. /\ d \o c \in Seq(S) /\ Len(d \o c) = Len(q) + 1
        /\ \A i \in 1..(Len(q) + 1) : (d \o c)[i] = IF i <= p THEN d[i] ELSE c[i - p]
    <2>1. /\ d \o c \in Seq(S) /\ Len(d \o c) = Len(d) + Len(c)
          /\ \A i \in 1..(Len(d) + Len(c)) : (d \o c)[i] = IF i <= Len(d) THEN d[i] ELSE c[i - Len(d)]
      BY <1>2, <1>5, ConcatProperties, ZenonT(60)
    <2>2. Len(d) + Len(c) = Len(q) + 1
      BY <1>0, <1>2, <1>5
    <2> QED BY <1>5, <2>1, <2>2
  <1>7. ASSUME NEW j \in 1..(Len(q) + 1)
        PROVE  (d \o c)[j] = IF j < p THEN q[j] ELSE IF j = p THEN e ELSE q[j - 1]
    <2>1. CASE j < p
      BY <1>0, <1>1, <1>5, <1>6, <2>1
    <2>2. CASE j = p
      <3>1. d[p] = e
        BY <1>0, <1>4, <1>5
      <3> QED BY <1>0, <1>6, <2>2, <3>1
    <2>3. CASE j > p
      <3>1. (d \o c)[j] = c[j - p] /\ j - p \in 1..(Len(q) - p + 1)
        BY <1>0, <1>6, <2>3
      <3>2. c[j - p] = q[j - 1]
        BY <1>0, <1>2, <3>1
      <3> QED BY <1>0, <2>3, <3>1, <3>2
    <2>4. j < p \/ j = p \/ j > p
      BY <1>0
    <2> QED BY <2>1, <2>2, <2>3, <2>4
  <1>8. InsertAt(q, p, e) = d \o c
    BY <1>3 DEF d
  <1>9. IsInsertion(d \o c, q, p, e)
    BY <1>6, <1>7 DEF IsInsertion
  <1> QED BY <1>6, <1>8, <1>9

-----------------------------------------------------------------------------
(* The queue                                                                *)

Entries(q) == {q[i] : i \in DOMAIN q}

Ascends(q) == \A i, j \in DOMAIN q : i < j => q[i].seq < q[j].seq

(* enqueue_ordered keeps the queue in order, whichever of its three branches inserts. *)
LEMMA Enqueued ==
    ASSUME NEW q \in Seq(Items), NEW item \in Items, Ascends(q), item.seq \notin ItemSeqs(q),
           MaxSeq \in Nat
    PROVE  /\ EnqueueOrdered(q, item) \in Seq(Items)
           /\ Ascends(EnqueueOrdered(q, item))
           /\ Entries(EnqueueOrdered(q, item)) = Entries(q) \union {item}
  <1> DEFINE n == Len(q)
             younger == {i \in DOMAIN q : q[i].seq > item.seq}
  <1>0. /\ n \in Nat /\ DOMAIN q = 1..n
        /\ item.seq \in Nat
        /\ \A i \in 1..n : q[i] \in Items /\ q[i].seq \in Nat /\ q[i].seq # item.seq
    <2>1. n \in Nat /\ DOMAIN q = 1..n /\ \A i \in 1..n : q[i] \in Items
      BY ElementOfSeq, LenProperties
    <2>2. \A e \in Items : e.seq \in Nat
      BY DEF Items, Seqs
    <2> QED BY <2>1, <2>2 DEF ItemSeqs
  <1>1. PICK p \in 1..(n + 1) :
            /\ EnqueueOrdered(q, item) = InsertAt(q, p, item)
            /\ \A i \in 1..n : (i < p => q[i].seq < item.seq) /\ (i >= p => q[i].seq > item.seq)
    <2>1. CASE q = <<>> \/ q[n].seq < item.seq
      <3>1. EnqueueOrdered(q, item) = InsertAt(q, n + 1, item)
        BY <2>1 DEF EnqueueOrdered
      <3>2. \A i \in 1..n : q[i].seq < item.seq
        <4>1. ASSUME NEW i \in 1..n PROVE q[i].seq < item.seq
          <5>1. q # <<>> /\ n \in 1..n
            BY <1>0
          <5>2. i \in DOMAIN q /\ n \in DOMAIN q /\ (i = n \/ i < n)
            <6>1. n \in Nat /\ DOMAIN q = 1..n
              BY <1>0
            <6> HIDE DEF n
            <6> QED BY <5>1, <6>1
          <5>3. i = n \/ q[i].seq < q[n].seq
            BY <5>2 DEF Ascends
          <5>4. q[i].seq \in Nat /\ q[n].seq \in Nat /\ item.seq \in Nat
            BY <1>0, <5>1
          <5>5. q[n].seq < item.seq
            BY <2>1, <5>1
          <5> HIDE DEF n
          <5> QED BY <5>3, <5>4, <5>5
        <4> QED BY <4>1
      <3>3. n + 1 \in 1..(n + 1)
        BY <1>0
      <3>4. \A i \in 1..n : i < n + 1 /\ ~(i >= n + 1)
        BY <1>0
      <3> QED BY <3>1, <3>2, <3>3, <3>4
    <2>2. CASE ~(q = <<>> \/ q[n].seq < item.seq) /\ item.seq < q[1].seq
      <3>1. EnqueueOrdered(q, item) = InsertAt(q, 1, item)
        BY <2>2 DEF EnqueueOrdered
      <3>2. \A i \in 1..n : q[i].seq > item.seq
        <4>1. ASSUME NEW i \in 1..n PROVE q[i].seq > item.seq
          <5>1. 1 \in 1..n
            BY <1>0
          <5>2. i = 1 \/ q[1].seq < q[i].seq
            BY <1>0, <5>1 DEF Ascends
          <5> QED BY <1>0, <2>2, <5>1, <5>2
        <4> QED BY <4>1
      <3>3. 1 \in 1..(n + 1)
        BY <1>0
      <3>4. \A i \in 1..n : ~(i < 1) /\ i >= 1
        BY <1>0
      <3> QED BY <3>1, <3>2, <3>3, <3>4
    <2>3. CASE ~(q = <<>> \/ q[n].seq < item.seq) /\ ~(item.seq < q[1].seq)
      <3>1. q # <<>> /\ n \in 1..n
        BY <1>0, <2>3
      <3>2. q[n].seq > item.seq
        BY <1>0, <2>3, <3>1
      <3>3. younger # {} /\ younger \in SUBSET Nat
        BY <1>0, <3>1, <3>2
      <3>4. Min(younger) \in younger /\ \A i \in younger : Min(younger) <= i
        BY <3>3, MinIsLeast
      <3>5. EnqueueOrdered(q, item) = InsertAt(q, Min(younger), item)
        BY <2>3, <3>3 DEF EnqueueOrdered
      <3> DEFINE p == Min(younger)
      <3>6. p \in 1..n /\ q[p].seq > item.seq
        BY <1>0, <3>4
      <3>7. ASSUME NEW i \in 1..n, i < p PROVE ~(q[i].seq > item.seq)
        <4>1. SUFFICES ASSUME q[i].seq > item.seq PROVE FALSE
          OBVIOUS
        <4>2. i \in younger
          BY <1>0, <4>1
        <4>3. p <= i
          BY <3>4, <4>2
        <4> QED BY <1>0, <3>6, <3>7, <4>3
      <3> HIDE DEF p
      <3>8. ASSUME NEW i \in 1..n
            PROVE  (i < p => q[i].seq < item.seq) /\ (i >= p => q[i].seq > item.seq)
        <4>1. i < p => q[i].seq < item.seq
          BY <1>0, <3>7
        <4>2. ASSUME i >= p PROVE q[i].seq > item.seq
          <5>1. i = p \/ q[p].seq < q[i].seq
            BY <1>0, <3>6, <4>2 DEF Ascends
          <5> QED BY <1>0, <3>6, <5>1
        <4> QED BY <4>1, <4>2
      <3>9. p \in 1..(n + 1) /\ EnqueueOrdered(q, item) = InsertAt(q, p, item)
        BY <1>0, <3>5, <3>6 DEF p
      <3> QED BY <3>8, <3>9
    <2> QED BY <2>1, <2>2, <2>3
  <1> DEFINE t == InsertAt(q, p, item)
  <1>2. /\ t \in Seq(Items) /\ Len(t) = n + 1
        /\ \A j \in 1..(n + 1) : t[j] = IF j < p THEN q[j] ELSE IF j = p THEN item ELSE q[j - 1]
    <2>1. t \in Seq(Items) /\ IsInsertion(t, q, p, item)
      BY Inserted
    <2> HIDE DEF t
    <2> QED BY <2>1 DEF IsInsertion
  <1>3. DOMAIN t = 1..(n + 1)
    BY <1>2, LenProperties
  <1> HIDE DEF t
  <1>4. Ascends(t)
    <2>1. ASSUME NEW i \in 1..(n + 1), NEW j \in 1..(n + 1), i < j
          PROVE  t[i].seq < t[j].seq
      <3>1. CASE j < p
        <4>1. t[i] = q[i] /\ t[j] = q[j] /\ i \in 1..n /\ j \in 1..n
          BY <1>0, <1>1, <1>2, <2>1, <3>1
        <4> QED BY <1>0, <2>1, <4>1 DEF Ascends
      <3>2. CASE j = p
        <4>1. t[i] = q[i] /\ t[j] = item /\ i \in 1..n /\ i < p
          BY <1>0, <1>1, <1>2, <2>1, <3>2
        <4> QED BY <1>1, <4>1
      <3>3. CASE j > p
        <4>1. t[j] = q[j - 1] /\ j - 1 \in 1..n /\ j - 1 >= p
          BY <1>0, <1>1, <1>2, <2>1, <3>3
        <4>2. CASE i < p
          <5>1. t[i] = q[i] /\ i \in 1..n /\ i < j - 1
            BY <1>0, <1>1, <1>2, <3>3, <4>2
          <5> QED BY <1>0, <4>1, <5>1 DEF Ascends
        <4>3. CASE i = p
          <5>1. t[i] = item
            BY <1>2, <4>3
          <5> QED BY <1>0, <1>1, <4>1, <5>1
        <4>4. CASE i > p
          <5>1. t[i] = q[i - 1] /\ i - 1 \in 1..n /\ i - 1 < j - 1
            BY <1>0, <1>1, <1>2, <2>1, <3>3, <4>4
          <5> QED BY <1>0, <4>1, <5>1 DEF Ascends
        <4> QED BY <1>1, <4>2, <4>3, <4>4
      <3> QED BY <1>1, <3>1, <3>2, <3>3
    <2> QED BY <1>3, <2>1 DEF Ascends
  <1>5. Entries(t) = Entries(q) \union {item}
    <2>1. ASSUME NEW j \in 1..(n + 1) PROVE t[j] \in Entries(q) \union {item}
      <3>1. CASE j < p
        BY <1>0, <1>1, <1>2, <3>1 DEF Entries
      <3>2. CASE j = p
        BY <1>2, <3>2
      <3>3. CASE j > p
        <4>1. t[j] = q[j - 1] /\ j - 1 \in DOMAIN q
          BY <1>0, <1>1, <1>2, <3>3
        <4> QED BY <4>1 DEF Entries
      <3> QED BY <1>1, <3>1, <3>2, <3>3
    <2>2. item \in Entries(t)
      <3>1. t[p] = item /\ p \in DOMAIN t
        BY <1>0, <1>1, <1>2, <1>3
      <3> QED BY <3>1 DEF Entries
    <2>3. ASSUME NEW i \in 1..n PROVE q[i] \in Entries(t)
      <3>1. CASE i < p
        <4>1. t[i] = q[i] /\ i \in DOMAIN t
          BY <1>0, <1>1, <1>2, <1>3, <3>1
        <4> QED BY <4>1 DEF Entries
      <3>2. CASE i >= p
        <4>1. t[i + 1] = q[i] /\ i + 1 \in DOMAIN t
          BY <1>0, <1>1, <1>2, <1>3, <3>2
        <4> QED BY <4>1 DEF Entries
      <3> QED BY <1>1, <3>1, <3>2
    <2>4. Entries(t) \subseteq Entries(q) \union {item}
      BY <1>3, <2>1 DEF Entries
    <2>5. Entries(q) \subseteq Entries(t)
      BY <1>0, <2>3 DEF Entries
    <2> QED BY <2>2, <2>4, <2>5
  <1> QED BY <1>1, <1>2, <1>4, <1>5 DEF t

Again(e, attempt, readyAt) == [e EXCEPT !.attempt = attempt, !.readyAt = readyAt]

PutBack(items, live, attempt, readyAt) == {Again(items[i], attempt, readyAt) : i \in live}

(* Items of a lease that can go back into the queue. *)
CanRequeue(q, items, live, attempt, readyAt) ==
    /\ q \in Seq(Items) /\ Ascends(q) /\ items \in Seq(Items)
    /\ live \in SUBSET (DOMAIN items) /\ attempt \in Nat /\ readyAt \in {0} \union Seqs
    /\ \A i, j \in DOMAIN items : items[i].seq = items[j].seq => i = j
    /\ \A i \in live : items[i].seq \notin ItemSeqs(q)

(* requeue_at_head's loop puts each live item back into its place. *)
LEMMA RequeuedInOrder ==
    ASSUME NEW q, NEW items, NEW live, NEW attempt, NEW readyAt, MaxSeq \in Nat,
           CanRequeue(q, items, live, attempt, readyAt)
    PROVE  LET t == Requeued(q, items, live, attempt, readyAt)
           IN  /\ t \in Seq(Items) /\ Ascends(t)
               /\ Entries(t) = Entries(q) \union PutBack(items, live, attempt, readyAt)
  <1> /\ q \in Seq(Items) /\ Ascends(q) /\ items \in Seq(Items)
      /\ live \in SUBSET (DOMAIN items) /\ attempt \in Nat /\ readyAt \in {0} \union Seqs
      /\ \A i, j \in DOMAIN items : items[i].seq = items[j].seq => i = j
      /\ \A i \in live : items[i].seq \notin ItemSeqs(q)
    BY DEF CanRequeue
  <1> DEFINE n == Len(items)
             Step(k, x) == IF n + 1 - k \in live
                           THEN EnqueueOrdered(x, Again(items[n + 1 - k], attempt, readyAt))
                           ELSE x
             f == CHOOSE g : g = [k \in 0..n |-> IF k = 0 THEN q ELSE Step(k, g[k - 1])]
             S == {k \in Nat : \E g : g = [j \in 0..k |-> IF j = 0 THEN q ELSE Step(j, g[j - 1])]}
  <1>0. n \in Nat /\ DOMAIN items = 1..n /\ \A i \in 1..n : items[i] \in Items
    BY ElementOfSeq, LenProperties
  <1>1. Requeued(q, items, live, attempt, readyAt) = f[n]
    BY DEF Requeued, Again
  <1> HIDE DEF n, Step
  <1>2. n \in S
    <2>1. 0 \in S
      <3>1. [j \in 0..0 |-> q] = [j \in 0..0 |-> IF j = 0 THEN q ELSE Step(j, [i \in 0..0 |-> q][j - 1])]
        OBVIOUS
      <3> QED BY <3>1
    <2>2. ASSUME NEW k \in 0..(n - 1), k \in S PROVE k + 1 \in S
      <3>0. k \in Nat
        BY <1>0
      <3>1. PICK g : g = [j \in 0..k |-> IF j = 0 THEN q ELSE Step(j, g[j - 1])]
        BY <2>2
      <3> DEFINE h == [j \in 0..(k + 1) |-> IF j = 0 THEN q ELSE Step(j, g[j - 1])]
      <3>2. \A j \in 0..k : h[j] = g[j]
        BY <3>0, <3>1
      <3>3. \A j \in 0..(k + 1) : j # 0 => h[j - 1] = g[j - 1]
        <4>1. \A j \in 0..(k + 1) : j # 0 => j - 1 \in 0..k
          BY <3>0
        <4> HIDE DEF h
        <4> QED BY <3>2, <4>1
      <3>4. h = [j \in 0..(k + 1) |-> IF j = 0 THEN q ELSE Step(j, h[j - 1])]
        BY <3>3
      <3>5. k + 1 \in Nat
        BY <3>0
      <3> HIDE DEF h
      <3> QED BY <3>4, <3>5
    <2> HIDE DEF S
    <2> QED BY <1>0, <2>1, <2>2, UpTo
  <1>3. f = [k \in 0..n |-> IF k = 0 THEN q ELSE Step(k, f[k - 1])]
    BY <1>2
  <1> HIDE DEF f
  <1> DEFINE Back(k) == {Again(items[i], attempt, readyAt) : i \in {j \in live : j > n - k}}
             T == {k \in 0..n : /\ f[k] \in Seq(Items) /\ Ascends(f[k])
                                /\ Entries(f[k]) = Entries(q) \union Back(k)}
  <1>4. 0 \in T
    <2>1. f[0] = q
      BY <1>0, <1>3
    <2>2. {j \in live : j > n - 0} = {}
      BY <1>0
    <2>3. Back(0) = {}
      BY <2>2
    <2>4. 0 \in 0..n
      BY <1>0
    <2> QED BY <2>1, <2>3, <2>4
  <1>5. ASSUME NEW k \in 0..(n - 1), k \in T PROVE k + 1 \in T
    <2>0. k + 1 \in 0..n /\ k \in Nat
      BY <1>0
    <2>1. f[k + 1] = Step(k + 1, f[k])
      <3>1. (k + 1) - 1 = k /\ k + 1 # 0
        BY <2>0
      <3> QED BY <1>3, <2>0, <3>1
    <2> DEFINE i == n - k
    <2>2. i \in 1..n /\ n + 1 - (k + 1) = i
      BY <1>0, <2>0
    <2>3. \A j \in live : j > n - (k + 1) <=> (j = i \/ j > n - k)
      BY <1>0, <2>0, SMTT(60)
    <2>4. CASE i \in live
      <3> DEFINE e == Again(items[i], attempt, readyAt)
      <3>1. f[k + 1] = EnqueueOrdered(f[k], e)
        BY <2>1, <2>2, <2>4 DEF Step
      <3>2. e \in Items /\ e.seq = items[i].seq
        <4>1. items[i] \in Items
          BY <1>0, <2>2
        <4> HIDE DEF i
        <4> QED BY <4>1 DEF Again, Items
      <3>3. e.seq \notin ItemSeqs(f[k])
        <4>1. SUFFICES ASSUME NEW m \in DOMAIN f[k], f[k][m].seq = e.seq PROVE FALSE
          BY DEF ItemSeqs
        <4>2. f[k][m] \in Entries(q) \union Back(k)
          BY <1>5 DEF Entries
        <4>3. CASE f[k][m] \in Entries(q)
          BY <2>4, <3>2, <4>1, <4>3 DEF Entries, ItemSeqs
        <4>4. CASE f[k][m] \in Back(k)
          <5>1. PICK j \in live : j > n - k /\ f[k][m] = Again(items[j], attempt, readyAt)
            BY <4>4
          <5>2. items[j] \in Items
            BY <1>0, <5>1
          <5>3. f[k][m].seq = items[j].seq
            BY <5>1, <5>2 DEF Again, Items
          <5>4. j = i
            BY <1>0, <2>2, <3>2, <4>1, <5>1, <5>3
          <5> QED BY <1>0, <2>0, <5>1, <5>4
        <4> QED BY <4>2, <4>3, <4>4
      <3>4. /\ f[k + 1] \in Seq(Items) /\ Ascends(f[k + 1])
            /\ Entries(f[k + 1]) = Entries(f[k]) \union {e}
        <4>1. f[k] \in Seq(Items) /\ Ascends(f[k])
          BY <1>5
        <4> HIDE DEF e
        <4> QED BY <3>1, <3>2, <3>3, <4>1, Enqueued
      <3>5. Back(k + 1) = Back(k) \union {e}
        BY <2>3, <2>4
      <3> QED BY <1>5, <2>0, <3>4, <3>5
    <2>5. CASE i \notin live
      <3>1. f[k + 1] = f[k]
        BY <2>1, <2>2, <2>5 DEF Step
      <3>2. {j \in live : j > n - (k + 1)} = {j \in live : j > n - k}
        BY <2>3, <2>5
      <3>3. Back(k + 1) = Back(k)
        BY <3>2
      <3> QED BY <1>5, <2>0, <3>1, <3>3
    <2> QED BY <2>4, <2>5
  <1>6. n \in T
    <2> HIDE DEF T
    <2> QED BY <1>0, <1>4, <1>5, UpTo
  <1>7. {j \in live : j > n - n} = live
    BY <1>0
  <1>8. Back(n) = PutBack(items, live, attempt, readyAt)
    BY <1>7 DEF PutBack
  <1> HIDE DEF Back
  <1> QED BY <1>1, <1>6, <1>8

-----------------------------------------------------------------------------
(* The invariant, of a ring r with the reservations A and the leases L.     *)

SlotMaps == UNION {[S -> {"Reserved", "Queued", "InFlight"}] : S \in SUBSET Seqs}

ChargeMaps == UNION {[S -> Nat \ {0}] : S \in SUBSET Seqs}

Rings ==
    [queue : Seq(Items), slots : SlotMaps, nextSeq : 1..(MaxSeq + 1), committedSeq : 0..MaxSeq,
     bytesInFlight : Int, rowsInFlight : Int, inflightLeases : Int,
     unreclaimed : ChargeMaps, unreclaimedBytes : Int,
     closed : BOOLEAN, receiverDropped : BOOLEAN, fatal : BOOLEAN, mode : Modes]

Reservations == [seq : Seqs, batch : Batches, by : Senders]

Grants == [items : Seq(Items), attempt : Nat, phase : {"held", "quarantining"}]

(* The queue is in order and holds the Queued slots; a frame that is charged after its eviction has
   no slot. *)
QueueAgrees(r) ==
    /\ Ascends(r.queue)
    /\ ItemSeqs(r.queue) = SeqsIn(r, "Queued")
    /\ \A s \in HeldSeqs(r) : s < r.nextSeq
    /\ \A s \in DOMAIN r.unreclaimed : s < r.nextSeq /\ s \notin HeldSeqs(r)

(* A reservation has its slot, Reserved, until a discard takes it away. *)
AppendsAgree(r, A) ==
    /\ \A a \in A : a.seq < r.nextSeq /\ (a.seq \in HeldSeqs(r) => r.slots[a.seq] = "Reserved")
    /\ \A a, b \in A : a.seq = b.seq => a = b
    /\ \A s \in SeqsIn(r, "Reserved") : \E a \in A : a.seq = s

(* The items of a lease are consecutive, *)
Consecutive(items) ==
    /\ items # <<>>
    /\ \A i \in DOMAIN items : items[i].seq = items[1].seq + i - 1

(* no two leases share one, and a lease has all its slots, InFlight, or none. *)
LeasesAgree(r, L) ==
    /\ \A l \in L :
        /\ Consecutive(l.items)
        /\ \A s \in ItemSeqs(l.items) : s < r.nextSeq
        /\ \/ ItemSeqs(l.items) \subseteq SeqsIn(r, "InFlight")
           \/ ItemSeqs(l.items) \intersect HeldSeqs(r) = {}
    /\ \A l, m \in L : l # m => ItemSeqs(l.items) \intersect ItemSeqs(m.items) = {}
    /\ \A s \in SeqsIn(r, "InFlight") : \E l \in L : s \in ItemSeqs(l.items)

(* z gives every slot the batch that its reservation, queue entry or lease carries. *)
Sized(r, A, L, z) ==
    /\ z \in [HeldSeqs(r) -> Batches]
    /\ \A a \in A : a.seq \in HeldSeqs(r) => z[a.seq] = a.batch
    /\ \A e \in Entries(r.queue) : z[e.seq] = e.batch
    /\ \A l \in L : \A e \in Entries(l.items) : e.seq \in HeldSeqs(r) => z[e.seq] = e.batch

Live(r, L) == {l \in L : ItemSeqs(l.items) \intersect SeqsIn(r, "InFlight") # {}}

ByteSizes(z) == [s \in DOMAIN z |-> z[s].bytes]

RowSizes(z) == [s \in DOMAIN z |-> z[s].rows]

(* The counters say what the slots hold and what is still charged. *)
Counts(r, L, z) ==
    /\ r.bytesInFlight = SumOf(ByteSizes(z))
    /\ r.rowsInFlight = SumOf(RowSizes(z))
    /\ r.inflightLeases = Cardinality(Live(r, L))
    /\ r.unreclaimedBytes = SumOf(r.unreclaimed)

Charged(r) == HeldSeqs(r) \union DOMAIN r.unreclaimed

WithinBudget(r) ==
    r.bytesInFlight + r.unreclaimedBytes > Budget => Cardinality(Charged(r)) = 1

RingShapes(r, A, L) ==
    r \in Rings /\ A \subseteq Reservations /\ L \subseteq Grants /\ IsFiniteSet(L)

RingInv(r, A, L) ==
    /\ RingShapes(r, A, L)
    /\ QueueAgrees(r)
    /\ AppendsAgree(r, A)
    /\ LeasesAgree(r, L)
    /\ \E z \in [HeldSeqs(r) -> Batches] : Sized(r, A, L, z) /\ Counts(r, L, z)

Fates == {"None", "Committed", "DeadLettered", "Evicted", "Discarded", "RolledBack"}

SenderPlaces == {"idle", "ready", "blocked", "woken", "retrying", "appending", "dropped"}

(* Who sends, and what. *)
SendersAgree(p, b) ==
    /\ p \in [Senders -> SenderPlaces]
    /\ b \in [Senders -> Batches \union {NoBatch}]
    /\ \A s \in Senders : p[s] \in {"ready", "blocked", "woken", "retrying"} => b[s] \in Batches

(* The other variables of a task. *)
TasksAgree ==
    /\ consumer \in {"idle", "polling", "waiting", "sleeping", "finished", "dropped"}
    /\ {fatal, streak, dataReady} \subseteq BOOLEAN
    /\ fate \in [Seqs -> Fates]
    /\ faults \in 0..MaxFaults

(* Nothing is left of a ring whose consumer has been told None. *)
RingSafe ==
    /\ RingInv(ring, appends, leases)
    /\ WithinBudget(ring)
    /\ consumer = "finished" => ring.closed /\ HeldSeqs(ring) = {}

BufferInv == RingSafe /\ SendersAgree(pc, batch) /\ TasksAgree

-----------------------------------------------------------------------------
(* Fields and sizes                                                         *)

(* What the constants are. *)
LEMMA ConstantTypes ==
    /\ MaxSeq \in Nat /\ MaxFaults \in Nat /\ Budget \in Nat /\ MaxAttempts \in Nat
    /\ MaxInflight \in Nat \ {0}
    /\ IsFiniteSet(Seqs) /\ Seqs \subseteq Nat
    /\ \A b \in Batches : b.bytes \in Nat \ {0} /\ b.rows \in Nat \ {0}
  <1>1. /\ MaxSeq \in Nat /\ MaxFaults \in Nat /\ Budget \in Nat /\ MaxAttempts \in Nat
        /\ MaxInflight \in Nat \ {0}
    BY ConfigAssumption
  <1>2. IsFiniteSet(Seqs) /\ Seqs \subseteq Nat
    BY <1>1, FS_Interval DEF Seqs
  <1> QED BY <1>1, <1>2, BatchAssumption

(* Slots and charges are functions on sequence numbers. *)
LEMMA MapTypes ==
    ASSUME NEW f
    PROVE  /\ f \in SlotMaps <=> /\ f = [s \in DOMAIN f |-> f[s]] /\ DOMAIN f \subseteq Seqs
                                 /\ \A s \in DOMAIN f : f[s] \in {"Reserved", "Queued", "InFlight"}
           /\ f \in ChargeMaps <=> /\ f = [s \in DOMAIN f |-> f[s]] /\ DOMAIN f \subseteq Seqs
                                   /\ \A s \in DOMAIN f : f[s] \in Nat \ {0}
  <1>1. ASSUME NEW V
        PROVE  f \in UNION {[S -> V] : S \in SUBSET Seqs} <=>
                   f = [s \in DOMAIN f |-> f[s]] /\ DOMAIN f \subseteq Seqs /\ \A s \in DOMAIN f : f[s] \in V
    <2>1. ASSUME f \in UNION {[S -> V] : S \in SUBSET Seqs}
          PROVE  f = [s \in DOMAIN f |-> f[s]] /\ DOMAIN f \subseteq Seqs /\ \A s \in DOMAIN f : f[s] \in V
      <3>1. PICK S \in SUBSET Seqs : f \in [S -> V]
        BY <2>1
      <3> QED BY <3>1
    <2>2. ASSUME f = [s \in DOMAIN f |-> f[s]], DOMAIN f \subseteq Seqs, \A s \in DOMAIN f : f[s] \in V
          PROVE  f \in UNION {[S -> V] : S \in SUBSET Seqs}
      <3>1. f \in [DOMAIN f -> V]
        BY <2>2
      <3> QED BY <2>2, <3>1
    <2> QED BY <2>1, <2>2
  <1> QED BY <1>1 DEF SlotMaps, ChargeMaps

(* The fields of a ring. *)
LEMMA RingTypes ==
    ASSUME NEW r \in Rings
    PROVE  /\ r.queue \in Seq(Items) /\ Len(r.queue) \in Nat
           /\ DOMAIN r.queue = 1..Len(r.queue) /\ \A i \in DOMAIN r.queue : r.queue[i] \in Items
           /\ r.slots \in SlotMaps /\ HeldSeqs(r) \in SUBSET Seqs /\ IsFiniteSet(HeldSeqs(r))
           /\ r.nextSeq \in Nat /\ r.nextSeq \in 1..(MaxSeq + 1)
           /\ r.committedSeq \in Nat /\ r.committedSeq \in 0..MaxSeq
           /\ r.bytesInFlight \in Int /\ r.rowsInFlight \in Int /\ r.inflightLeases \in Int
           /\ r.unreclaimedBytes \in Int
           /\ r.unreclaimed \in ChargeMaps /\ DOMAIN r.unreclaimed \in SUBSET Seqs
           /\ IsFiniteWeight(r.unreclaimed)
           /\ r.mode \in Modes
  <1>1. /\ r.queue \in Seq(Items) /\ r.slots \in SlotMaps /\ r.unreclaimed \in ChargeMaps
        /\ r.nextSeq \in 1..(MaxSeq + 1) /\ r.committedSeq \in 0..MaxSeq
        /\ r.bytesInFlight \in Int /\ r.rowsInFlight \in Int /\ r.inflightLeases \in Int
        /\ r.unreclaimedBytes \in Int /\ r.mode \in Modes
    BY DEF Rings
  <1>2. HeldSeqs(r) \in SUBSET Seqs /\ DOMAIN r.unreclaimed \in SUBSET Seqs
    BY <1>1, MapTypes DEF HeldSeqs
  <1>3. IsFiniteSet(HeldSeqs(r)) /\ IsFiniteSet(DOMAIN r.unreclaimed)
    BY <1>2, ConstantTypes, FS_Subset
  <1>4. IsFiniteWeight(r.unreclaimed)
    <2>1. r.unreclaimed = [s \in DOMAIN r.unreclaimed |-> r.unreclaimed[s]]
      BY <1>1, MapTypes
    <2>2. \A s \in DOMAIN r.unreclaimed : r.unreclaimed[s] \in Nat
      BY <1>1, MapTypes
    <2>3. r.unreclaimed \in [DOMAIN r.unreclaimed -> Nat]
      BY <2>1, <2>2
    <2> QED BY <1>3, <2>3 DEF IsFiniteWeight
  <1>5. /\ Len(r.queue) \in Nat /\ DOMAIN r.queue = 1..Len(r.queue)
        /\ \A i \in DOMAIN r.queue : r.queue[i] \in Items
    BY <1>1, ElementOfSeq, LenProperties
  <1>6. r.nextSeq \in Nat /\ r.committedSeq \in Nat
    BY <1>1, ConstantTypes
  <1> QED BY <1>1, <1>2, <1>3, <1>4, <1>5, <1>6

(* The sizes of finitely many batches. *)
LEMMA SizeTypes ==
    ASSUME NEW H \in SUBSET Seqs, NEW z \in [H -> Batches]
    PROVE  /\ DOMAIN ByteSizes(z) = H /\ DOMAIN RowSizes(z) = H
           /\ IsFiniteWeight(ByteSizes(z)) /\ IsFiniteWeight(RowSizes(z))
           /\ SumOf(ByteSizes(z)) \in Nat /\ SumOf(RowSizes(z)) \in Nat
  <1>1. IsFiniteSet(H)
    BY ConstantTypes, FS_Subset
  <1>2. \A s \in H : z[s].bytes \in Nat /\ z[s].rows \in Nat
    BY ConstantTypes
  <1>3. IsFiniteWeight(ByteSizes(z)) /\ IsFiniteWeight(RowSizes(z))
    BY <1>1, <1>2 DEF IsFiniteWeight, ByteSizes, RowSizes
  <1> QED BY <1>3, SumType DEF ByteSizes, RowSizes

(* The sizes of all but some batches, *)
LEMMA SizesWithout ==
    ASSUME NEW H \in SUBSET Seqs, NEW z \in [H -> Batches], NEW D \in SUBSET H,
           NEW less \in [H \ D -> Batches], \A s \in H \ D : less[s] = z[s],
           NEW gone \in [D -> Batches], \A s \in D : gone[s] = z[s]
    PROVE  /\ SumOf(ByteSizes(z)) = SumOf(ByteSizes(less)) + SumOf(ByteSizes(gone))
           /\ SumOf(RowSizes(z)) = SumOf(RowSizes(less)) + SumOf(RowSizes(gone))
  <1>1. H \ D \in SUBSET Seqs /\ D \in SUBSET Seqs
    OBVIOUS
  <1>3. /\ IsFiniteWeight(ByteSizes(less)) /\ IsFiniteWeight(RowSizes(less))
        /\ IsFiniteWeight(ByteSizes(gone)) /\ IsFiniteWeight(RowSizes(gone))
        /\ IsFiniteWeight(ByteSizes(z)) /\ IsFiniteWeight(RowSizes(z))
        /\ DOMAIN ByteSizes(less) = H \ D /\ DOMAIN RowSizes(less) = H \ D
        /\ DOMAIN ByteSizes(gone) = D /\ DOMAIN RowSizes(gone) = D
        /\ DOMAIN ByteSizes(z) = H /\ DOMAIN RowSizes(z) = H
    BY <1>1, SizeTypes
  <1>4. /\ \A s \in H \ D : ByteSizes(z)[s] = ByteSizes(less)[s] /\ RowSizes(z)[s] = RowSizes(less)[s]
        /\ \A s \in D : ByteSizes(z)[s] = ByteSizes(gone)[s] /\ RowSizes(z)[s] = RowSizes(gone)[s]
    BY DEF ByteSizes, RowSizes
  <1>5. (H \ D) \union D = H /\ (H \ D) \intersect D = {}
    OBVIOUS
  <1>6. ByteSizes(z) \in [H -> Nat] /\ RowSizes(z) \in [H -> Nat]
    BY <1>3 DEF IsFiniteWeight
  <1>7. SumOf(ByteSizes(z)) = SumOf(ByteSizes(less)) + SumOf(ByteSizes(gone))
    <2>1. /\ ByteSizes(z) \in [DOMAIN ByteSizes(less) \union DOMAIN ByteSizes(gone) -> Nat]
          /\ DOMAIN ByteSizes(less) \intersect DOMAIN ByteSizes(gone) = {}
          /\ \A s \in DOMAIN ByteSizes(less) : ByteSizes(z)[s] = ByteSizes(less)[s]
          /\ \A s \in DOMAIN ByteSizes(gone) : ByteSizes(z)[s] = ByteSizes(gone)[s]
      BY <1>3, <1>4, <1>5, <1>6
    <2>2. IsFiniteWeight(ByteSizes(less)) /\ IsFiniteWeight(ByteSizes(gone))
      BY <1>3
    <2> QED BY <2>1, <2>2, SumUnion
  <1>8. SumOf(RowSizes(z)) = SumOf(RowSizes(less)) + SumOf(RowSizes(gone))
    <2>1. /\ RowSizes(z) \in [DOMAIN RowSizes(less) \union DOMAIN RowSizes(gone) -> Nat]
          /\ DOMAIN RowSizes(less) \intersect DOMAIN RowSizes(gone) = {}
          /\ \A s \in DOMAIN RowSizes(less) : RowSizes(z)[s] = RowSizes(less)[s]
          /\ \A s \in DOMAIN RowSizes(gone) : RowSizes(z)[s] = RowSizes(gone)[s]
      BY <1>3, <1>4, <1>5, <1>6
    <2>2. IsFiniteWeight(RowSizes(less)) /\ IsFiniteWeight(RowSizes(gone))
      BY <1>3
    <2> QED BY <2>1, <2>2, SumUnion
  <1> QED BY <1>7, <1>8

(* and with one more. *)
LEMMA SizesWith ==
    ASSUME NEW H \in SUBSET Seqs, NEW z \in [H -> Batches], NEW x \in Seqs, x \notin H,
           NEW more \in [H \union {x} -> Batches], \A s \in H : more[s] = z[s]
    PROVE  /\ SumOf(ByteSizes(more)) = SumOf(ByteSizes(z)) + more[x].bytes
           /\ SumOf(RowSizes(more)) = SumOf(RowSizes(z)) + more[x].rows
  <1>1. H \union {x} \in SUBSET Seqs
    OBVIOUS
  <1>2. \A s \in H : ByteSizes(more)[s] = ByteSizes(z)[s] /\ RowSizes(more)[s] = RowSizes(z)[s]
    BY DEF ByteSizes, RowSizes
  <1>3. /\ IsFiniteWeight(ByteSizes(z)) /\ IsFiniteWeight(RowSizes(z))
        /\ DOMAIN ByteSizes(z) = H /\ DOMAIN RowSizes(z) = H
    BY SizeTypes
  <1>4. /\ IsFiniteWeight(ByteSizes(more)) /\ IsFiniteWeight(RowSizes(more))
        /\ DOMAIN ByteSizes(more) = H \union {x} /\ DOMAIN RowSizes(more) = H \union {x}
    BY <1>1, SizeTypes
  <1>6. ByteSizes(more) \in [H \union {x} -> Nat] /\ RowSizes(more) \in [H \union {x} -> Nat]
    BY <1>4 DEF IsFiniteWeight
  <1>7. SumOf(ByteSizes(more)) = SumOf(ByteSizes(z)) + ByteSizes(more)[x]
    BY <1>2, <1>3, <1>6, SumAdd
  <1>8. SumOf(RowSizes(more)) = SumOf(RowSizes(z)) + RowSizes(more)[x]
    BY <1>2, <1>3, <1>6, SumAdd
  <1>9. ByteSizes(more)[x] = more[x].bytes /\ RowSizes(more)[x] = more[x].rows
    BY DEF ByteSizes, RowSizes
  <1> QED BY <1>7, <1>8, <1>9

-----------------------------------------------------------------------------
(* advance_watermark                                                        *)

(* c is the end of the longest prefix of resolved sequence numbers. *)
Candidate(r, c) ==
    IF HeldSeqs(r) = {} THEN c = r.nextSeq - 1
    ELSE c + 1 \in HeldSeqs(r) /\ \A s \in HeldSeqs(r) : c < s

(* The watermark of r is that of a ring with the watermark old after fetch_max. *)
Advanced(old, r) ==
    \E c \in 0..MaxSeq : Candidate(r, c) /\ r.committedSeq = IF c > old THEN c ELSE old

(* t charges at most what r does. *)
Shrinks(r, t) ==
    /\ Charged(t) \subseteq Charged(r)
    /\ t.bytesInFlight + t.unreclaimedBytes <= r.bytesInFlight + r.unreclaimedBytes

(* The fields advance_watermark leaves alone. *)
SameQueue(r, t) ==
    /\ t.queue = r.queue /\ t.slots = r.slots /\ t.nextSeq = r.nextSeq
    /\ t.bytesInFlight = r.bytesInFlight /\ t.rowsInFlight = r.rowsInFlight
    /\ t.inflightLeases = r.inflightLeases

SameFlags(r, t) ==
    t.closed = r.closed /\ t.receiverDropped = r.receiverDropped /\ t.fatal = r.fatal /\ t.mode = r.mode

(* advance_watermark moves the watermark and stops charging what it has passed. *)
LEMMA WatermarkMoves ==
    ASSUME NEW r \in Rings, \A s \in HeldSeqs(r) : s < r.nextSeq,
           r.unreclaimedBytes = SumOf(r.unreclaimed)
    PROVE  LET t == AdvanceWatermark(r)
           IN  /\ t \in Rings /\ SameQueue(r, t) /\ SameFlags(r, t)
               /\ DOMAIN t.unreclaimed \subseteq DOMAIN r.unreclaimed
               /\ t.unreclaimedBytes = SumOf(t.unreclaimed)
               /\ t.unreclaimedBytes <= r.unreclaimedBytes
               /\ Advanced(r.committedSeq, t)
  <1> DEFINE c == IF HeldSeqs(r) = {} THEN r.nextSeq - 1 ELSE Min(HeldSeqs(r)) - 1
             w == Max({r.committedSeq, c})
             passed == {s \in DOMAIN r.unreclaimed : s <= w}
             kept == [s \in DOMAIN r.unreclaimed \ passed |-> r.unreclaimed[s]]
             gone == [s \in passed |-> r.unreclaimed[s]]
             t == AdvanceWatermark(r)
  <1>0. /\ MaxSeq \in Nat /\ Seqs = 1..MaxSeq
        /\ r.nextSeq \in 1..(MaxSeq + 1) /\ r.committedSeq \in 0..MaxSeq
        /\ HeldSeqs(r) \in SUBSET Seqs
        /\ r.unreclaimedBytes \in Int
        /\ DOMAIN r.unreclaimed \in SUBSET Seqs
    BY ConstantTypes, RingTypes DEF Seqs
  <1>1. c \in 0..MaxSeq /\ Candidate(r, c)
    <2>1. CASE HeldSeqs(r) = {}
      BY <1>0, <2>1 DEF Candidate
    <2>2. CASE HeldSeqs(r) # {}
      <3>1. HeldSeqs(r) \in SUBSET Nat
        BY <1>0
      <3> DEFINE m == Min(HeldSeqs(r))
      <3>2. m \in HeldSeqs(r) /\ \A s \in HeldSeqs(r) : m <= s
        BY <2>2, <3>1, MinIsLeast
      <3>3. c = m - 1
        BY <2>2
      <3> HIDE DEF m, c
      <3>4. m \in 1..MaxSeq
        BY <1>0, <3>2
      <3>5. c \in 0..MaxSeq /\ c + 1 = m
        BY <1>0, <3>3, <3>4
      <3>6. \A s \in HeldSeqs(r) : c < s
        BY <1>0, <3>2, <3>4, <3>5
      <3> QED BY <2>2, <3>2, <3>5, <3>6 DEF Candidate
    <2> QED BY <2>1, <2>2
  <1> HIDE DEF c
  <1>2. w \in 0..MaxSeq /\ w = IF c > r.committedSeq THEN c ELSE r.committedSeq
    <2>1. {r.committedSeq, c} \in SUBSET (0..MaxSeq) /\ {r.committedSeq, c} # {}
      BY <1>0, <1>1
    <2>2. w \in {r.committedSeq, c} /\ \A x \in {r.committedSeq, c} : x <= w
      BY <1>0, <2>1, MaxIsGreatest
    <2> HIDE DEF w
    <2> QED BY <1>0, <1>1, <2>2
  <1>3. t = [r EXCEPT !.committedSeq = w, !.unreclaimed = kept,
                      !.unreclaimedBytes = r.unreclaimedBytes - SumOf(gone)]
    BY DEF AdvanceWatermark, c
  <1>4. r.unreclaimed = [s \in DOMAIN r.unreclaimed |-> r.unreclaimed[s]]
        /\ \A s \in DOMAIN r.unreclaimed : r.unreclaimed[s] \in Nat \ {0}
    BY RingTypes, MapTypes
  <1> HIDE DEF w
  <1>5. /\ IsFiniteWeight(kept) /\ IsFiniteWeight(gone) /\ kept \in ChargeMaps
        /\ SumOf(r.unreclaimed) = SumOf(kept) + SumOf(gone)
    <2>1. IsFiniteSet(DOMAIN r.unreclaimed)
      BY RingTypes DEF IsFiniteWeight
    <2>2. DOMAIN kept = DOMAIN r.unreclaimed \ passed /\ DOMAIN gone = passed
      OBVIOUS
    <2>3. passed \subseteq DOMAIN r.unreclaimed
      OBVIOUS
    <2>4. IsFiniteSet(DOMAIN kept) /\ IsFiniteSet(DOMAIN gone)
      BY <2>1, <2>2, <2>3, FS_Subset
    <2>5. \A s \in DOMAIN kept : kept[s] = r.unreclaimed[s] /\ kept[s] \in Nat \ {0}
      BY <1>4
    <2>6. \A s \in DOMAIN gone : gone[s] = r.unreclaimed[s] /\ gone[s] \in Nat
      BY <1>4
    <2>7. kept = [s \in DOMAIN kept |-> kept[s]] /\ gone = [s \in DOMAIN gone |-> gone[s]]
      OBVIOUS
    <2> HIDE DEF kept, gone, passed
    <2>8. IsFiniteWeight(kept) /\ IsFiniteWeight(gone)
      BY <2>4, <2>5, <2>6, <2>7 DEF IsFiniteWeight
    <2>9. r.unreclaimed \in [DOMAIN kept \union DOMAIN gone -> Nat]
      <3>1. DOMAIN kept \union DOMAIN gone = DOMAIN r.unreclaimed
        BY <2>2, <2>3
      <3> QED BY <3>1, RingTypes DEF IsFiniteWeight
    <2>10. DOMAIN kept \intersect DOMAIN gone = {}
      BY <2>2
    <2>11. SumOf(r.unreclaimed) = SumOf(kept) + SumOf(gone)
      BY <2>5, <2>6, <2>8, <2>9, <2>10, SumUnion
    <2>12. kept \in ChargeMaps
      <3>1. DOMAIN kept \subseteq Seqs
        BY <1>0, <2>2
      <3> QED BY <2>5, <2>7, <3>1, MapTypes
    <2> QED BY <2>8, <2>11, <2>12
  <1>6. SumOf(kept) \in Nat /\ SumOf(gone) \in Nat
    BY <1>5, SumType
  <1>7. DOMAIN kept \subseteq DOMAIN r.unreclaimed
    OBVIOUS
  <1> DEFINE u == r.unreclaimedBytes - SumOf(gone)
  <1>8. u \in Int /\ u = SumOf(kept) /\ u <= r.unreclaimedBytes
    BY <1>0, <1>5, <1>6
  <1> HIDE DEF kept, gone, t, u
  <1>9. t = [r EXCEPT !.committedSeq = w, !.unreclaimed = kept, !.unreclaimedBytes = u]
    BY <1>3 DEF u
  <1>10. t \in Rings /\ t.unreclaimed = kept /\ t.unreclaimedBytes = u /\ t.committedSeq = w
    BY <1>2, <1>5, <1>8, <1>9 DEF Rings
  <1>11. SameQueue(r, t) /\ SameFlags(r, t)
    BY <1>9 DEF SameQueue, SameFlags, Rings
  <1>12. Advanced(r.committedSeq, t)
    <2>1. Candidate(t, c)
      BY <1>1, <1>11 DEF Candidate, SameQueue, HeldSeqs
    <2> QED BY <1>1, <1>2, <1>10, <2>1 DEF Advanced
  <1> QED BY <1>7, <1>8, <1>10, <1>11, <1>12 DEF t

(* The invariant sees a ring through its queue, slots and counters. *)
LEMMA SameRing ==
    ASSUME NEW r, NEW A, NEW L, RingInv(r, A, L), NEW t \in Rings, SameQueue(r, t),
           DOMAIN t.unreclaimed \subseteq DOMAIN r.unreclaimed,
           t.unreclaimedBytes = SumOf(t.unreclaimed)
    PROVE  RingInv(t, A, L)
  <1>1. HeldSeqs(t) = HeldSeqs(r) /\ \A x : SeqsIn(t, x) = SeqsIn(r, x)
    BY DEF SameQueue, HeldSeqs, SeqsIn
  <1>2. RingShapes(t, A, L)
    BY DEF RingInv, RingShapes
  <1>3. QueueAgrees(t)
    BY <1>1 DEF RingInv, QueueAgrees, SameQueue
  <1>4. AppendsAgree(t, A)
    BY <1>1 DEF RingInv, AppendsAgree, SameQueue
  <1>5. LeasesAgree(t, L)
    BY <1>1 DEF RingInv, LeasesAgree, SameQueue
  <1>6. PICK z \in [HeldSeqs(r) -> Batches] : Sized(r, A, L, z) /\ Counts(r, L, z)
    BY DEF RingInv
  <1>7. Sized(t, A, L, z)
    BY <1>1, <1>6 DEF Sized, SameQueue
  <1>8. Live(t, L) = Live(r, L)
    BY <1>1 DEF Live
  <1>9. Counts(t, L, z)
    BY <1>6, <1>8 DEF Counts, SameQueue
  <1> QED BY <1>1, <1>2, <1>3, <1>4, <1>5, <1>6, <1>7, <1>9 DEF RingInv

(* advance_watermark keeps the invariant. *)
LEMMA WatermarkKeeps ==
    ASSUME NEW r, NEW A, NEW L, RingInv(r, A, L)
    PROVE  LET t == AdvanceWatermark(r)
           IN  /\ RingInv(t, A, L) /\ SameQueue(r, t) /\ SameFlags(r, t)
               /\ Shrinks(r, t) /\ Advanced(r.committedSeq, t)
  <1> DEFINE t == AdvanceWatermark(r)
  <1>1. /\ r \in Rings /\ \A s \in HeldSeqs(r) : s < r.nextSeq
        /\ r.unreclaimedBytes = SumOf(r.unreclaimed)
    BY DEF RingInv, RingShapes, QueueAgrees, Counts
  <1>2. /\ t \in Rings /\ SameQueue(r, t) /\ SameFlags(r, t)
        /\ DOMAIN t.unreclaimed \subseteq DOMAIN r.unreclaimed
        /\ t.unreclaimedBytes = SumOf(t.unreclaimed)
        /\ t.unreclaimedBytes <= r.unreclaimedBytes
        /\ Advanced(r.committedSeq, t)
    BY <1>1, WatermarkMoves
  <1> HIDE DEF t
  <1>3. RingInv(t, A, L)
    BY <1>2, SameRing
  <1>4. Shrinks(r, t)
    <2>1. Charged(t) \subseteq Charged(r)
      BY <1>2 DEF Charged, SameQueue, HeldSeqs
    <2>2. t.bytesInFlight = r.bytesInFlight
      BY <1>2 DEF SameQueue
    <2>3. r.bytesInFlight \in Int /\ r.unreclaimedBytes \in Int /\ t.unreclaimedBytes \in Int
      BY <1>1, <1>2, RingTypes
    <2> QED BY <1>2, <2>1, <2>2, <2>3 DEF Shrinks
  <1> QED BY <1>2, <1>3, <1>4 DEF t

(* A ring that charges no more than one within the budget is within it. *)
LEMMA BudgetKeeps ==
    ASSUME NEW r, NEW t, NEW A, NEW L, RingInv(t, A, L), r \in Rings, WithinBudget(r), Shrinks(r, t)
    PROVE  WithinBudget(t)
  <1>1. SUFFICES ASSUME t.bytesInFlight + t.unreclaimedBytes > Budget
                 PROVE  Cardinality(Charged(t)) = 1
    BY DEF WithinBudget
  <1>2. t \in Rings
    BY DEF RingInv, RingShapes
  <1>3. /\ r.bytesInFlight \in Int /\ r.unreclaimedBytes \in Int
        /\ t.bytesInFlight \in Int /\ t.unreclaimedBytes \in Int /\ Budget \in Nat
    BY <1>2, RingTypes, ConstantTypes
  <1>4. r.bytesInFlight + r.unreclaimedBytes > Budget
    BY <1>1, <1>3 DEF Shrinks
  <1>5. Cardinality(Charged(r)) = 1
    BY <1>4 DEF WithinBudget
  <1>6. IsFiniteSet(Charged(r))
    <2>1. Charged(r) \subseteq Seqs
      BY RingTypes DEF Charged
    <2> QED BY <2>1, ConstantTypes, FS_Subset
  <1>7. Charged(t) # {}
    <2>1. SUFFICES ASSUME Charged(t) = {} PROVE FALSE
      OBVIOUS
    <2>2. PICK z \in [HeldSeqs(t) -> Batches] : Sized(t, A, L, z) /\ Counts(t, L, z)
      BY DEF RingInv
    <2>3. HeldSeqs(t) = {} /\ DOMAIN t.unreclaimed = {}
      BY <2>1 DEF Charged
    <2>4. DOMAIN ByteSizes(z) = {}
      BY <2>2, <2>3 DEF ByteSizes
    <2>5. t.bytesInFlight = 0 /\ t.unreclaimedBytes = 0
      BY <2>2, <2>3, <2>4, SumEmpty DEF Counts
    <2> QED BY <1>1, <1>3, <2>5
  <1>8. Charged(t) \subseteq Charged(r)
    BY DEF Shrinks
  <1>9. Charged(t) = Charged(r)
    <2>1. PICK x : Charged(r) = {x}
      BY <1>5, <1>6, FS_Singleton
    <2> QED BY <1>7, <1>8, <2>1
  <1> QED BY <1>5, <1>9

-----------------------------------------------------------------------------
(* Slots are removed: evicted, rolled back or acknowledged.                 *)

(* The size of one batch. *)
LEMMA SizeOfOne ==
    ASSUME NEW x \in Seqs, NEW z \in [{x} -> Batches]
    PROVE  SumOf(ByteSizes(z)) = z[x].bytes /\ SumOf(RowSizes(z)) = z[x].rows
  <1> DEFINE none == [s \in {} |-> z[x]]
  <1>1. {} \in SUBSET Seqs /\ none \in [{} -> Batches] /\ x \notin {}
    OBVIOUS
  <1>2. z \in [{} \union {x} -> Batches] /\ \A s \in {} : z[s] = none[s]
    <2>1. {} \union {x} = {x}
      OBVIOUS
    <2> QED BY <2>1
  <1> HIDE DEF none
  <1>3. /\ SumOf(ByteSizes(z)) = SumOf(ByteSizes(none)) + z[x].bytes
        /\ SumOf(RowSizes(z)) = SumOf(RowSizes(none)) + z[x].rows
    BY <1>1, <1>2, SizesWith
  <1>4. DOMAIN ByteSizes(none) = {} /\ DOMAIN RowSizes(none) = {}
    BY <1>1 DEF ByteSizes, RowSizes
  <1>5. SumOf(ByteSizes(none)) = 0 /\ SumOf(RowSizes(none)) = 0
    BY <1>4, SumEmpty
  <1>6. z[x].bytes \in Nat /\ z[x].rows \in Nat
    BY ConstantTypes
  <1> QED BY <1>3, <1>5, <1>6

(* Entries and sequence numbers of a queue. *)
LEMMA EntrySeqs ==
    ASSUME NEW q
    PROVE  ItemSeqs(q) = {e.seq : e \in Entries(q)}
  BY DEF ItemSeqs, Entries

(* p is r without the slots in D, which held the batches gone, and without their queue entries; the
   reservations A2 and the leases L2 are those that have slots in p, and perhaps some that have none. *)
Removes(r, A, L, z, D, gone, p, A2, L2) ==
    /\ RingInv(r, A, L)
    /\ z \in [HeldSeqs(r) -> Batches] /\ Sized(r, A, L, z) /\ Counts(r, L, z)
    /\ D \in SUBSET HeldSeqs(r)
    /\ gone \in [D -> Batches] /\ \A s \in D : gone[s] = z[s]
    /\ p \in Rings /\ p.slots = [s \in HeldSeqs(r) \ D |-> r.slots[s]]
    /\ p.nextSeq = r.nextSeq
    /\ Ascends(p.queue) /\ Entries(p.queue) \subseteq Entries(r.queue)
    /\ ItemSeqs(p.queue) = ItemSeqs(r.queue) \ D
    /\ A2 \in SUBSET A /\ \A a \in A : a.seq \in HeldSeqs(r) \ D => a \in A2
    /\ L2 \in SUBSET L /\ \A l \in L2 : ItemSeqs(l.items) \intersect D = {}
    /\ \A l \in L \ L2 : ItemSeqs(l.items) \intersect HeldSeqs(r) \subseteq D
    /\ \A s \in DOMAIN p.unreclaimed : s < r.nextSeq /\ s \notin HeldSeqs(r) \ D
    /\ p.unreclaimedBytes = SumOf(p.unreclaimed)
    /\ p.inflightLeases = Cardinality(Live(r, L2))
    /\ p.bytesInFlight = r.bytesInFlight - SumOf(ByteSizes(gone))
    /\ p.rowsInFlight = r.rowsInFlight - SumOf(RowSizes(gone))

(* What is left when slots go agrees as before. *)
LEMMA RemovalKeeps ==
    ASSUME NEW r, NEW A, NEW L, NEW z, NEW D, NEW gone, NEW p, NEW A2, NEW L2,
           Removes(r, A, L, z, D, gone, p, A2, L2)
    PROVE  RingInv(p, A2, L2)
  <1>0. /\ RingInv(r, A, L)
        /\ z \in [HeldSeqs(r) -> Batches] /\ Sized(r, A, L, z) /\ Counts(r, L, z)
        /\ D \in SUBSET HeldSeqs(r)
        /\ gone \in [D -> Batches] /\ \A s \in D : gone[s] = z[s]
        /\ p \in Rings /\ p.slots = [s \in HeldSeqs(r) \ D |-> r.slots[s]]
        /\ p.nextSeq = r.nextSeq
        /\ Ascends(p.queue) /\ Entries(p.queue) \subseteq Entries(r.queue)
        /\ ItemSeqs(p.queue) = ItemSeqs(r.queue) \ D
        /\ A2 \in SUBSET A /\ \A a \in A : a.seq \in HeldSeqs(r) \ D => a \in A2
        /\ L2 \in SUBSET L /\ \A l \in L2 : ItemSeqs(l.items) \intersect D = {}
        /\ \A l \in L \ L2 : ItemSeqs(l.items) \intersect HeldSeqs(r) \subseteq D
        /\ \A s \in DOMAIN p.unreclaimed : s < r.nextSeq /\ s \notin HeldSeqs(r) \ D
        /\ p.unreclaimedBytes = SumOf(p.unreclaimed)
        /\ p.inflightLeases = Cardinality(Live(r, L2))
        /\ p.bytesInFlight = r.bytesInFlight - SumOf(ByteSizes(gone))
        /\ p.rowsInFlight = r.rowsInFlight - SumOf(RowSizes(gone))
    BY DEF Removes
  <1>1. HeldSeqs(p) = HeldSeqs(r) \ D /\ \A s \in HeldSeqs(p) : p.slots[s] = r.slots[s]
    BY <1>0 DEF HeldSeqs
  <1>2. \A x : SeqsIn(p, x) = SeqsIn(r, x) \ D
    BY <1>0, <1>1 DEF SeqsIn, HeldSeqs
  <1>3. RingShapes(p, A2, L2)
    <2>1. IsFiniteSet(L2)
      BY <1>0, FS_Subset DEF RingInv, RingShapes
    <2> QED BY <1>0, <2>1 DEF RingInv, RingShapes
  <1>4. QueueAgrees(p)
    <2>1. ItemSeqs(p.queue) = SeqsIn(p, "Queued")
      BY <1>0, <1>2 DEF RingInv, QueueAgrees
    <2>2. \A s \in HeldSeqs(p) : s < p.nextSeq
      BY <1>0, <1>1 DEF RingInv, QueueAgrees
    <2>3. \A s \in DOMAIN p.unreclaimed : s < p.nextSeq /\ s \notin HeldSeqs(p)
      BY <1>0, <1>1
    <2> QED BY <1>0, <2>1, <2>2, <2>3 DEF QueueAgrees
  <1>5. AppendsAgree(p, A2)
    <2>1. AppendsAgree(r, A)
      BY <1>0 DEF RingInv
    <2>2. \A s \in SeqsIn(p, "Reserved") : \E a \in A2 : a.seq = s
      <3>1. ASSUME NEW s \in SeqsIn(p, "Reserved") PROVE \E a \in A2 : a.seq = s
        <4>1. s \in SeqsIn(r, "Reserved") /\ s \in HeldSeqs(r) \ D
          BY <1>0, <1>2 DEF SeqsIn, HeldSeqs
        <4>2. PICK a \in A : a.seq = s
          BY <1>0, <2>1, <4>1 DEF AppendsAgree
        <4> QED BY <1>0, <4>1, <4>2
      <3> QED BY <1>0, <3>1
    <2>3. \A a \in A2 : a.seq < p.nextSeq /\ (a.seq \in HeldSeqs(p) => p.slots[a.seq] = "Reserved")
      BY <1>0, <1>1, <2>1 DEF AppendsAgree
    <2>4. \A a, b \in A2 : a.seq = b.seq => a = b
      BY <1>0, <2>1 DEF AppendsAgree
    <2> QED BY <1>0, <2>2, <2>3, <2>4 DEF AppendsAgree
  <1>6. LeasesAgree(p, L2)
    <2>1. LeasesAgree(r, L)
      BY <1>0 DEF RingInv
    <2>2. ASSUME NEW l \in L2
          PROVE  /\ Consecutive(l.items) /\ \A s \in ItemSeqs(l.items) : s < p.nextSeq
                 /\ \/ ItemSeqs(l.items) \subseteq SeqsIn(p, "InFlight")
                    \/ ItemSeqs(l.items) \intersect HeldSeqs(p) = {}
      <3>1. /\ Consecutive(l.items) /\ \A s \in ItemSeqs(l.items) : s < r.nextSeq
            /\ \/ ItemSeqs(l.items) \subseteq SeqsIn(r, "InFlight")
               \/ ItemSeqs(l.items) \intersect HeldSeqs(r) = {}
        BY <1>0, <2>1 DEF LeasesAgree
      <3>2. ItemSeqs(l.items) \intersect D = {}
        BY <1>0
      <3>3. ItemSeqs(l.items) \subseteq SeqsIn(r, "InFlight") => ItemSeqs(l.items) \subseteq SeqsIn(p, "InFlight")
        BY <1>0, <1>2, <3>2
      <3>4. ItemSeqs(l.items) \intersect HeldSeqs(r) = {} => ItemSeqs(l.items) \intersect HeldSeqs(p) = {}
        BY <1>0, <1>1
      <3> QED BY <1>0, <3>1, <3>3, <3>4
    <2>3. \A l, m \in L2 : l # m => ItemSeqs(l.items) \intersect ItemSeqs(m.items) = {}
      BY <1>0, <2>1 DEF LeasesAgree
    <2>4. ASSUME NEW s \in SeqsIn(p, "InFlight") PROVE \E l \in L2 : s \in ItemSeqs(l.items)
      <3>1. s \in SeqsIn(r, "InFlight") /\ s \in HeldSeqs(r) /\ s \notin D
        BY <1>0, <1>2 DEF SeqsIn, HeldSeqs
      <3>2. PICK l \in L : s \in ItemSeqs(l.items)
        BY <1>0, <2>1, <3>1 DEF LeasesAgree
      <3> QED BY <1>0, <3>1, <3>2
    <2> QED BY <1>0, <2>2, <2>3, <2>4 DEF LeasesAgree
  <1> DEFINE less == [s \in HeldSeqs(r) \ D |-> z[s]]
  <1>7. /\ less \in [HeldSeqs(p) -> Batches] /\ less \in [HeldSeqs(r) \ D -> Batches]
        /\ \A s \in HeldSeqs(r) \ D : less[s] = z[s]
    BY <1>0, <1>1
  <1> HIDE DEF less
  <1>8. Sized(p, A2, L2, less)
    <2>1. \A a \in A2 : a.seq \in HeldSeqs(p) => less[a.seq] = a.batch
      BY <1>0, <1>1, <1>7 DEF Sized
    <2>2. ASSUME NEW e \in Entries(p.queue) PROVE less[e.seq] = e.batch
      <3>1. e \in Entries(r.queue) /\ e.seq \in ItemSeqs(p.queue)
        BY <1>0, EntrySeqs
      <3>2. e.seq \in HeldSeqs(r) \ D
        BY <1>0, <1>4, <1>1, <3>1 DEF QueueAgrees, SeqsIn, HeldSeqs
      <3> QED BY <1>0, <1>7, <3>1, <3>2 DEF Sized
    <2>3. ASSUME NEW l \in L2, NEW e \in Entries(l.items), e.seq \in HeldSeqs(p)
          PROVE  less[e.seq] = e.batch
      <3>1. e.seq \in HeldSeqs(r) \ D
        BY <1>0, <1>1, <2>3
      <3>2. z[e.seq] = e.batch
        BY <1>0, <3>1 DEF Sized
      <3> QED BY <1>0, <1>7, <3>1, <3>2
    <2> QED BY <1>0, <1>7, <2>1, <2>2, <2>3 DEF Sized
  <1>9. Counts(p, L2, less)
    <2>1. HeldSeqs(r) \in SUBSET Seqs
      BY <1>0, RingTypes DEF RingInv, RingShapes
    <2>2. /\ SumOf(ByteSizes(z)) = SumOf(ByteSizes(less)) + SumOf(ByteSizes(gone))
          /\ SumOf(RowSizes(z)) = SumOf(RowSizes(less)) + SumOf(RowSizes(gone))
      <3> DEFINE H == HeldSeqs(r)
      <3>1. /\ H \in SUBSET Seqs /\ z \in [H -> Batches] /\ D \in SUBSET H
            /\ less \in [H \ D -> Batches] /\ \A s \in H \ D : less[s] = z[s]
            /\ gone \in [D -> Batches] /\ \A s \in D : gone[s] = z[s]
        BY <1>0, <1>7, <2>1
      <3> HIDE DEF H
      <3> QED BY <3>1, SizesWithout
    <2>3. HeldSeqs(r) \ D \in SUBSET Seqs /\ D \in SUBSET Seqs
      BY <1>0, <2>1
    <2>4. /\ SumOf(ByteSizes(less)) \in Nat /\ SumOf(RowSizes(less)) \in Nat
          /\ SumOf(ByteSizes(gone)) \in Nat /\ SumOf(RowSizes(gone)) \in Nat
      BY <1>0, <1>7, <2>3, SizeTypes
    <2>5. r.bytesInFlight = SumOf(ByteSizes(z)) /\ r.rowsInFlight = SumOf(RowSizes(z))
      BY <1>0 DEF Counts
    <2>6. p.bytesInFlight = SumOf(ByteSizes(less)) /\ p.rowsInFlight = SumOf(RowSizes(less))
      BY <1>0, <2>2, <2>4, <2>5
    <2>7. Live(p, L2) = Live(r, L2)
      <3>1. ASSUME NEW l \in L2
            PROVE  ItemSeqs(l.items) \intersect SeqsIn(p, "InFlight") =
                      ItemSeqs(l.items) \intersect SeqsIn(r, "InFlight")
        <4>1. ItemSeqs(l.items) \intersect D = {}
          BY <1>0
        <4> QED BY <1>0, <1>2, <4>1
      <3> QED BY <1>0, <3>1 DEF Live
    <2> QED BY <1>0, <2>6, <2>7 DEF Counts
  <1> QED BY <1>3, <1>4, <1>5, <1>6, <1>7, <1>8, <1>9 DEF RingInv

-----------------------------------------------------------------------------
(* Batches leave the front of the queue.                                    *)

(* The queue is cut after its n oldest entries. *)
LEMMA QueueCut ==
    ASSUME NEW q \in Seq(Items), Ascends(q), NEW n \in 0..Len(q), MaxSeq \in Nat
    PROVE  LET front == SubSeq(q, 1, n)
               rest  == SubSeq(q, n + 1, Len(q))
           IN  /\ front \in Seq(Items) /\ Len(front) = n /\ Ascends(front)
               /\ DOMAIN front = 1..n /\ \A i \in 1..n : front[i] = q[i]
               /\ rest \in Seq(Items) /\ Len(rest) = Len(q) - n /\ Ascends(rest)
               /\ Entries(q) = Entries(front) \union Entries(rest)
               /\ ItemSeqs(front) = {q[i].seq : i \in 1..n}
               /\ ItemSeqs(front) \subseteq ItemSeqs(q)
               /\ ItemSeqs(rest) = ItemSeqs(q) \ ItemSeqs(front)
               /\ \A s \in ItemSeqs(front), t \in ItemSeqs(rest) : s < t
  <1> DEFINE front == SubSeq(q, 1, n)
             rest == SubSeq(q, n + 1, Len(q))
             m == Len(q)
  <1>0. /\ m \in Nat /\ DOMAIN q = 1..m /\ n \in 0..m /\ n \in Nat
        /\ \A i \in 1..m : q[i] \in Items
    BY ElementOfSeq, LenProperties
  <1>1. /\ front \in Seq(Items) /\ Len(front) = n
        /\ \A i \in 1..n : front[i] = q[i]
    <2>1. 1 \in Int /\ n \in Int /\ \A i \in 1..n : q[i] \in Items
      BY <1>0
    <2>2. /\ front \in Seq(Items) /\ Len(front) = IF 1 <= n THEN n - 1 + 1 ELSE 0
          /\ \A i \in 1..(n - 1 + 1) : front[i] = q[1 + i - 1]
      BY <2>1, SubSeqProperties
    <2> HIDE DEF front
    <2>3. \A i \in 1..n : front[i] = q[1 + i - 1] /\ 1 + i - 1 = i
      BY <1>0, <2>2
    <2> QED BY <1>0, <2>2, <2>3
  <1>2. /\ rest \in Seq(Items) /\ Len(rest) = m - n
        /\ \A i \in 1..(m - n) : rest[i] = q[n + i]
    <2>1. n + 1 \in Int /\ m \in Int /\ \A i \in (n + 1)..m : q[i] \in Items
      BY <1>0
    <2>2. /\ rest \in Seq(Items) /\ Len(rest) = IF n + 1 <= m THEN m - (n + 1) + 1 ELSE 0
          /\ \A i \in 1..(m - (n + 1) + 1) : rest[i] = q[n + 1 + i - 1]
      BY <2>1, SubSeqProperties
    <2> HIDE DEF rest, m
    <2>3. \A i \in 1..(m - n) : rest[i] = q[n + 1 + i - 1] /\ n + 1 + i - 1 = n + i
      BY <1>0, <2>2
    <2> QED BY <1>0, <2>2, <2>3
  <1>3. DOMAIN front = 1..n /\ DOMAIN rest = 1..(m - n)
    BY <1>1, <1>2, LenProperties
  <1>4. \A i \in 1..m : q[i].seq \in Nat
    BY <1>0 DEF Items, Seqs
  <1> HIDE DEF front, rest, m
  <1>5. \A i, j \in 1..m : i < j => q[i].seq < q[j].seq
    BY <1>0 DEF Ascends
  <1>6. Ascends(front)
    BY <1>0, <1>1, <1>3, <1>5 DEF Ascends
  <1>7. Ascends(rest)
    BY <1>0, <1>2, <1>3, <1>5 DEF Ascends
  <1>8. \A i \in 1..m : i \in 1..n \/ (i - n \in 1..(m - n) /\ n + (i - n) = i)
    BY <1>0
  <1>9. Entries(front) = {q[i] : i \in 1..n} /\ ItemSeqs(front) = {q[i].seq : i \in 1..n}
    BY <1>1, <1>3 DEF Entries, ItemSeqs
  <1>10. \A i \in 1..(m - n) : n + i \in 1..m
    BY <1>0
  <1>11. /\ Entries(rest) = {q[n + i] : i \in 1..(m - n)}
         /\ ItemSeqs(rest) = {q[n + i].seq : i \in 1..(m - n)}
    BY <1>2, <1>3 DEF Entries, ItemSeqs
  <1>12. 1..n \subseteq 1..m
    BY <1>0
  <1>13. Entries(q) = Entries(front) \union Entries(rest)
    <2>1. Entries(front) \subseteq Entries(q) /\ Entries(rest) \subseteq Entries(q)
      BY <1>0, <1>9, <1>10, <1>11, <1>12 DEF Entries
    <2>2. ASSUME NEW e \in Entries(q) PROVE e \in Entries(front) \union Entries(rest)
      <3>1. PICK i \in 1..m : e = q[i]
        BY <1>0 DEF Entries
      <3>2. CASE i \in 1..n
        BY <1>9, <3>1, <3>2
      <3>3. CASE i - n \in 1..(m - n) /\ n + (i - n) = i
        <4>1. e = q[n + (i - n)]
          BY <3>1, <3>3
        <4> QED BY <1>11, <3>3, <4>1
      <3> QED BY <1>8, <3>1, <3>2, <3>3
    <2> QED BY <2>1, <2>2
  <1>14. ASSUME NEW s \in ItemSeqs(front), NEW t \in ItemSeqs(rest) PROVE s < t
    <2>1. PICK i \in 1..n : s = q[i].seq
      BY <1>9
    <2>2. PICK j \in 1..(m - n) : t = q[n + j].seq
      BY <1>11
    <2>3. i \in 1..m /\ n + j \in 1..m /\ i < n + j
      BY <1>0
    <2> QED BY <1>5, <2>1, <2>2, <2>3
  <1>15. ItemSeqs(front) \subseteq Nat /\ ItemSeqs(rest) \subseteq Nat
    BY <1>4, <1>9, <1>10, <1>11, <1>12
  <1>16. ItemSeqs(q) = ItemSeqs(front) \union ItemSeqs(rest)
    BY <1>13, EntrySeqs
  <1>17. ItemSeqs(front) \intersect ItemSeqs(rest) = {}
    BY <1>14, <1>15
  <1>18. ItemSeqs(rest) = ItemSeqs(q) \ ItemSeqs(front) /\ ItemSeqs(front) \subseteq ItemSeqs(q)
    BY <1>16, <1>17
  <1> QED BY <1>1, <1>2, <1>3, <1>6, <1>7, <1>9, <1>13, <1>14, <1>18 DEF front, rest, m

(* A ring that charges no more than one that charges no more. *)
LEMMA ShrinksOn ==
    ASSUME NEW r \in Rings, NEW p \in Rings, NEW t \in Rings, Shrinks(r, p), Shrinks(p, t)
    PROVE  Shrinks(r, t)
  <1>1. /\ r.bytesInFlight + r.unreclaimedBytes \in Int /\ p.bytesInFlight + p.unreclaimedBytes \in Int
        /\ t.bytesInFlight + t.unreclaimedBytes \in Int
    BY RingTypes
  <1> QED BY <1>1 DEF Shrinks

(* One eviction takes the front of the queue, and the invariant holds for the rest. *)
LEMMA EvictStep ==
    ASSUME NEW r, NEW A, NEW L, RingInv(r, A, L), r.queue # <<>>
    PROVE  LET t == EvictOldest(r)
               h == r.queue[1].seq
           IN  /\ RingInv(t, A, L) /\ t.queue = Tail(r.queue) /\ h \in HeldSeqs(r)
               /\ t.slots = [s \in HeldSeqs(r) \ {h} |-> r.slots[s]]
               /\ t.nextSeq = r.nextSeq /\ t.inflightLeases = r.inflightLeases
               /\ SameFlags(r, t) /\ Shrinks(r, t) /\ Advanced(r.committedSeq, t)
  <1> DEFINE e == r.queue[1]
             h == e.seq
             q == Tail(r.queue)
             charges == IF Disk THEN [s \in DOMAIN r.unreclaimed \union {h} |->
                                        IF s = h THEN e.batch.bytes ELSE r.unreclaimed[s]]
                        ELSE r.unreclaimed
             u == IF Disk THEN r.unreclaimedBytes + e.batch.bytes ELSE r.unreclaimedBytes
             p == [r EXCEPT !.queue = q,
                            !.slots = [s \in HeldSeqs(r) \ {h} |-> r.slots[s]],
                            !.bytesInFlight = r.bytesInFlight - e.batch.bytes,
                            !.rowsInFlight = r.rowsInFlight - e.batch.rows,
                            !.unreclaimed = charges,
                            !.unreclaimedBytes = u]
             t == EvictOldest(r)
  <1>1. r \in Rings /\ MaxSeq \in Nat
    BY ConstantTypes DEF RingInv, RingShapes
  <1>2. /\ r.queue \in Seq(Items) /\ Len(r.queue) \in Nat /\ DOMAIN r.queue = 1..Len(r.queue)
        /\ r.bytesInFlight \in Int /\ r.rowsInFlight \in Int /\ r.unreclaimedBytes \in Int
        /\ HeldSeqs(r) \in SUBSET Seqs /\ r.slots \in SlotMaps /\ r.unreclaimed \in ChargeMaps
        /\ DOMAIN r.unreclaimed \in SUBSET Seqs
    BY <1>1, RingTypes
  <1>3. 1 \in DOMAIN r.queue /\ e \in Items /\ Head(r.queue) = e /\ 1 \in 0..Len(r.queue)
    <2>1. Len(r.queue) # 0
      BY <1>2, EmptySeq
    <2>2. 1 \in 1..Len(r.queue)
      BY <1>2, <2>1
    <2>3. e \in Items
      BY <1>2, <2>2, ElementOfSeq
    <2> QED BY <1>2, <2>2, <2>3
  <1>4. h \in Seqs /\ e.batch \in Batches /\ e.batch.bytes \in Nat \ {0} /\ e.batch.rows \in Nat \ {0}
    BY <1>3, ConstantTypes DEF Items
  <1>5. t = AdvanceWatermark(p)
    <2>1. t = RecordEvictedBatch([r EXCEPT !.queue = q], e)
      BY <1>3 DEF EvictOldest
    <2>2. CASE Disk
      <3>1. RecordEvictedBatch([r EXCEPT !.queue = q], e) = AdvanceWatermark(p)
        BY <1>1, <2>2 DEF RecordEvictedBatch, RemoveSlots, HeldSeqs, Rings
      <3> QED BY <2>1, <3>1
    <2>3. CASE ~Disk
      <3>1. RecordEvictedBatch([r EXCEPT !.queue = q], e) = AdvanceWatermark(p)
        BY <1>1, <2>3, ZenonT(60) DEF RecordEvictedBatch, RemoveSlots, HeldSeqs, Rings
      <3> QED BY <2>1, <3>1
    <2> QED BY <2>2, <2>3
  <1> HIDE DEF t
  <1>6. /\ q \in Seq(Items) /\ Ascends(q) /\ Entries(q) \subseteq Entries(r.queue)
        /\ ItemSeqs(q) = ItemSeqs(r.queue) \ {h}
        /\ e \in Entries(r.queue) /\ h \in SeqsIn(r, "Queued")
    <2> DEFINE n == 1
    <2>1. q = SubSeq(r.queue, n + 1, Len(r.queue)) /\ n \in 0..Len(r.queue)
      BY <1>2, <1>3, TailIsSubSeq
    <2>2. Ascends(r.queue) /\ ItemSeqs(r.queue) = SeqsIn(r, "Queued")
      BY DEF RingInv, QueueAgrees
    <2> HIDE DEF n, q
    <2>3. /\ q \in Seq(Items) /\ Ascends(q)
          /\ Entries(r.queue) = Entries(SubSeq(r.queue, 1, n)) \union Entries(q)
          /\ ItemSeqs(SubSeq(r.queue, 1, n)) = {r.queue[i].seq : i \in 1..n}
          /\ ItemSeqs(q) = ItemSeqs(r.queue) \ ItemSeqs(SubSeq(r.queue, 1, n))
      BY <1>1, <1>2, <2>1, <2>2, QueueCut
    <2>4. {r.queue[i].seq : i \in 1..n} = {h}
      <3>1. 1..n = {1}
        BY DEF n
      <3> QED BY <3>1
    <2>5. e \in Entries(r.queue) /\ h \in ItemSeqs(r.queue)
      BY <1>3 DEF Entries, ItemSeqs
    <2> QED BY <2>2, <2>3, <2>4, <2>5
  <1>7. h \in HeldSeqs(r) /\ r.slots[h] = "Queued" /\ h < r.nextSeq /\ h \notin DOMAIN r.unreclaimed
    BY <1>6 DEF SeqsIn, HeldSeqs, RingInv, QueueAgrees
  <1>8. PICK z \in [HeldSeqs(r) -> Batches] : Sized(r, A, L, z) /\ Counts(r, L, z)
    BY DEF RingInv
  <1>9. z[h] = e.batch
    BY <1>6, <1>8 DEF Sized
  <1>10. /\ charges \in ChargeMaps /\ DOMAIN charges \subseteq DOMAIN r.unreclaimed \union {h}
         /\ u = SumOf(charges) /\ u \in Int
    <2>1. r.unreclaimedBytes = SumOf(r.unreclaimed) /\ IsFiniteWeight(r.unreclaimed)
      BY <1>1, <1>8, RingTypes DEF Counts
    <2>2. CASE ~Disk
      BY <1>2, <2>1, <2>2
    <2>3. CASE Disk
      <3>1. DOMAIN charges = DOMAIN r.unreclaimed \union {h} /\ charges[h] = e.batch.bytes
            /\ \A s \in DOMAIN r.unreclaimed : charges[s] = r.unreclaimed[s]
        BY <1>7, <2>3
      <3>2. \A s \in DOMAIN r.unreclaimed : r.unreclaimed[s] \in Nat \ {0}
        BY <1>2, MapTypes
      <3>3. charges = [s \in DOMAIN charges |-> charges[s]]
        BY <2>3
      <3>4. u = r.unreclaimedBytes + e.batch.bytes
        BY <2>3
      <3> HIDE DEF charges, u, e, h
      <3>5. charges \in ChargeMaps
        <4>1. DOMAIN charges \subseteq Seqs
          BY <1>2, <1>4, <3>1
        <4>2. \A s \in DOMAIN charges : charges[s] \in Nat \ {0}
          BY <1>4, <3>1, <3>2
        <4> QED BY <3>3, <4>1, <4>2, MapTypes
      <3>6. charges \in [DOMAIN r.unreclaimed \union {h} -> Nat]
        BY <1>4, <3>1, <3>2, <3>3
      <3>7. SumOf(charges) = SumOf(r.unreclaimed) + charges[h]
        BY <1>7, <2>1, <3>1, <3>6, SumAdd, ZenonT(60)
      <3> QED BY <1>2, <1>4, <2>1, <3>1, <3>4, <3>5, <3>7
    <2> QED BY <2>2, <2>3
  <1> HIDE DEF charges, u, q, e
  <1>11. [s \in HeldSeqs(r) \ {h} |-> r.slots[s]] \in SlotMaps
    <2> DEFINE f == [s \in HeldSeqs(r) \ {h} |-> r.slots[s]]
    <2>1. DOMAIN f \subseteq Seqs /\ f = [s \in DOMAIN f |-> f[s]]
      BY <1>2
    <2>2. \A s \in DOMAIN r.slots : r.slots[s] \in {"Reserved", "Queued", "InFlight"}
      BY <1>2, MapTypes
    <2>3. \A s \in DOMAIN f : f[s] \in {"Reserved", "Queued", "InFlight"}
      BY <2>2 DEF HeldSeqs
    <2> HIDE DEF f
    <2> QED BY <2>1, <2>3, MapTypes DEF f
  <1> DEFINE bytes == r.bytesInFlight - e.batch.bytes
             rows == r.rowsInFlight - e.batch.rows
  <1>12. bytes \in Int /\ rows \in Int
    BY <1>2, <1>4
  <1>13. /\ p \in Rings /\ p.queue = q /\ p.slots = [s \in HeldSeqs(r) \ {h} |-> r.slots[s]]
         /\ p.bytesInFlight = bytes /\ p.rowsInFlight = rows /\ p.unreclaimed = charges
         /\ p.unreclaimedBytes = u /\ p.nextSeq = r.nextSeq /\ p.inflightLeases = r.inflightLeases
         /\ p.committedSeq = r.committedSeq /\ SameFlags(r, p)
    <2>1. p = [r EXCEPT !.queue = q, !.slots = [s \in HeldSeqs(r) \ {h} |-> r.slots[s]],
                        !.bytesInFlight = bytes, !.rowsInFlight = rows,
                        !.unreclaimed = charges, !.unreclaimedBytes = u]
      OBVIOUS
    <2> DEFINE f == [s \in HeldSeqs(r) \ {h} |-> r.slots[s]]
    <2> HIDE DEF bytes, rows, f, p
    <2>2. f \in SlotMaps /\ p = [r EXCEPT !.queue = q, !.slots = f,
                        !.bytesInFlight = bytes, !.rowsInFlight = rows,
                        !.unreclaimed = charges, !.unreclaimedBytes = u]
      BY <1>11, <2>1 DEF f
    <2>3. /\ p \in Rings /\ p.queue = q /\ p.slots = f
          /\ p.bytesInFlight = bytes /\ p.rowsInFlight = rows /\ p.unreclaimed = charges
          /\ p.unreclaimedBytes = u /\ p.nextSeq = r.nextSeq /\ p.inflightLeases = r.inflightLeases
          /\ p.committedSeq = r.committedSeq /\ SameFlags(r, p)
      BY <1>1, <1>6, <1>10, <1>12, <2>2 DEF Rings, SameFlags
    <2> QED BY <2>3 DEF f
  <1> DEFINE gone == [s \in {h} |-> z[s]]
  <1>14. /\ gone \in [{h} -> Batches] /\ \A s \in {h} : gone[s] = z[s]
         /\ SumOf(ByteSizes(gone)) = e.batch.bytes /\ SumOf(RowSizes(gone)) = e.batch.rows
    <2>1. gone \in [{h} -> Batches] /\ gone[h] = e.batch /\ \A s \in {h} : gone[s] = z[s]
      BY <1>7, <1>8, <1>9
    <2> HIDE DEF gone
    <2> QED BY <1>4, <2>1, SizeOfOne
  <1> HIDE DEF p, gone
  <1>15. RingInv(p, A, L)
    <2>1. \A l \in L : ItemSeqs(l.items) \intersect {h} = {}
      BY <1>7 DEF RingInv, LeasesAgree, SeqsIn
    <2>2. \A s \in DOMAIN p.unreclaimed : s < r.nextSeq /\ s \notin HeldSeqs(r) \ {h}
      BY <1>7, <1>10, <1>13 DEF RingInv, QueueAgrees
    <2>3. p.inflightLeases = Cardinality(Live(r, L))
      BY <1>8, <1>13 DEF Counts
    <2>4. {h} \in SUBSET HeldSeqs(r)
      BY <1>7
    <2>5. /\ p.bytesInFlight = r.bytesInFlight - SumOf(ByteSizes(gone))
          /\ p.rowsInFlight = r.rowsInFlight - SumOf(RowSizes(gone))
      BY <1>13, <1>14
    <2>6. Removes(r, A, L, z, {h}, gone, p, A, L)
      BY <1>6, <1>8, <1>10, <1>13, <1>14, <2>1, <2>2, <2>3, <2>4, <2>5 DEF Removes
    <2> QED BY <2>6, RemovalKeeps
  <1>16. Shrinks(r, p)
    <2>1. HeldSeqs(p) = HeldSeqs(r) \ {h}
      BY <1>13 DEF HeldSeqs
    <2>2. Charged(p) \subseteq Charged(r)
      BY <1>7, <1>10, <1>13, <2>1 DEF Charged
    <2>3. p.bytesInFlight + p.unreclaimedBytes <= r.bytesInFlight + r.unreclaimedBytes
      BY <1>2, <1>4, <1>13 DEF u
    <2> QED BY <2>2, <2>3 DEF Shrinks
  <1>17. /\ RingInv(t, A, L) /\ SameQueue(p, t) /\ SameFlags(p, t)
         /\ Shrinks(p, t) /\ Advanced(p.committedSeq, t)
    BY <1>5, <1>15, WatermarkKeeps
  <1>18. Shrinks(r, t)
    <2>1. t \in Rings
      BY <1>17 DEF RingInv, RingShapes
    <2> QED BY <1>1, <1>13, <1>16, <1>17, <2>1, ShrinksOn
  <1>19. /\ t.queue = q /\ t.slots = [s \in HeldSeqs(r) \ {h} |-> r.slots[s]]
         /\ t.nextSeq = r.nextSeq /\ t.inflightLeases = r.inflightLeases
         /\ SameFlags(r, t) /\ Advanced(r.committedSeq, t)
    BY <1>13, <1>17 DEF SameQueue, SameFlags
  <1> QED BY <1>7, <1>17, <1>18, <1>19 DEF t, q, e

(* advance_watermark, called for every slot that goes, leaves what one call at the end would. *)
LEMMA AdvancedOn ==
    ASSUME NEW p \in Rings, NEW t \in Rings, NEW w \in 0..MaxSeq,
           Advanced(w, p), Advanced(p.committedSeq, t),
           HeldSeqs(t) \subseteq HeldSeqs(p), t.nextSeq = p.nextSeq,
           \A s \in HeldSeqs(p) : s < p.nextSeq
    PROVE  Advanced(w, t)
  <1>0. MaxSeq \in Nat /\ HeldSeqs(p) \subseteq Nat /\ p.nextSeq \in Nat
    BY ConstantTypes, RingTypes
  <1>1. PICK c \in 0..MaxSeq : Candidate(p, c) /\ p.committedSeq = IF c > w THEN c ELSE w
    BY DEF Advanced
  <1>2. PICK d \in 0..MaxSeq : /\ Candidate(t, d)
                               /\ t.committedSeq = IF d > p.committedSeq THEN d ELSE p.committedSeq
    BY DEF Advanced
  <1>3. c <= d
    <2>1. CASE HeldSeqs(p) = {}
      BY <1>0, <1>1, <1>2, <2>1 DEF Candidate
    <2>2. CASE HeldSeqs(p) # {} /\ HeldSeqs(t) = {}
      <3>1. c + 1 \in HeldSeqs(p) /\ d = p.nextSeq - 1
        BY <1>1, <1>2, <2>2 DEF Candidate
      <3>2. c + 1 < p.nextSeq
        BY <3>1
      <3> QED BY <1>0, <3>1, <3>2
    <2>3. CASE HeldSeqs(p) # {} /\ HeldSeqs(t) # {}
      <3>1. d + 1 \in HeldSeqs(p) /\ \A s \in HeldSeqs(p) : c < s
        BY <1>1, <1>2, <2>3 DEF Candidate
      <3>2. c < d + 1
        BY <3>1
      <3> QED BY <1>0, <3>2
    <2> QED BY <2>1, <2>2, <2>3
  <1>4. t.committedSeq = IF d > w THEN d ELSE w
    BY <1>0, <1>1, <1>2, <1>3
  <1> QED BY <1>2, <1>4 DEF Advanced

(* t is what r is after its k oldest queued batches, and nothing else, have been evicted. *)
EvictedTo(r, A, L, k, t) ==
    LET E == {r.queue[i].seq : i \in 1..k}
    IN  /\ RingInv(t, A, L)
        /\ t.queue = SubSeq(r.queue, k + 1, Len(r.queue))
        /\ E \subseteq SeqsIn(r, "Queued")
        /\ t.slots = [s \in HeldSeqs(r) \ E |-> r.slots[s]]
        /\ t.nextSeq = r.nextSeq /\ t.inflightLeases = r.inflightLeases
        /\ SameFlags(r, t) /\ Shrinks(r, t)
        /\ IF k = 0 THEN t = r ELSE Advanced(r.committedSeq, t)

(* Evicting one more. *)
LEMMA EvictOneMore ==
    ASSUME NEW r, NEW A, NEW L, RingInv(r, A, L), NEW k \in 0..(Len(r.queue) - 1),
           NEW p, EvictedTo(r, A, L, k, p)
    PROVE  EvictedTo(r, A, L, k + 1, EvictOldest(p))
  <1> DEFINE n == Len(r.queue)
             E == {r.queue[i].seq : i \in 1..k}
             F == {r.queue[i].seq : i \in 1..(k + 1)}
             h == r.queue[k + 1].seq
             t == EvictOldest(p)
  <1>0. /\ r \in Rings /\ p \in Rings /\ MaxSeq \in Nat
        /\ r.queue \in Seq(Items) /\ n \in Nat /\ DOMAIN r.queue = 1..n
    <2>1. r \in Rings /\ p \in Rings
      BY DEF RingInv, RingShapes, EvictedTo
    <2> QED BY <2>1, ConstantTypes, RingTypes
  <1>1. k \in Nat /\ k + 1 \in 1..n /\ n \in (k + 1)..n
    BY <1>0
  <1>2. p.queue = SubSeq(r.queue, k + 1, n)
    BY DEF EvictedTo
  <1>3. Head(p.queue) = r.queue[k + 1] /\ Tail(p.queue) = SubSeq(r.queue, (k + 1) + 1, n)
    BY <1>0, <1>1, <1>2, HeadTailOfSubSeq
  <1>4. p.queue # <<>> /\ p.queue[1] = Head(p.queue)
    <2>1. k + 1 \in Int /\ n \in Int /\ \A i \in (k + 1)..n : r.queue[i] \in Items
      BY <1>0, <1>1, ElementOfSeq
    <2>2. Len(p.queue) = IF k + 1 <= n THEN n - (k + 1) + 1 ELSE 0
      BY <1>2, <2>1, SubSeqProperties
    <2>3. Len(p.queue) # 0
      BY <1>1, <2>2
    <2>4. p.queue # <<>>
      BY <2>3, EmptySeq
    <2> QED BY <2>4
  <1>5. /\ RingInv(t, A, L) /\ t.queue = Tail(p.queue) /\ h \in HeldSeqs(p)
        /\ t.slots = [s \in HeldSeqs(p) \ {h} |-> p.slots[s]]
        /\ t.nextSeq = p.nextSeq /\ t.inflightLeases = p.inflightLeases
        /\ SameFlags(p, t) /\ Shrinks(p, t) /\ Advanced(p.committedSeq, t)
    <2>1. RingInv(p, A, L) /\ p.queue # <<>> /\ p.queue[1].seq = h
      BY <1>3, <1>4 DEF EvictedTo
    <2> QED BY <2>1, EvictStep
  <1> HIDE DEF t, n
  <1>6. F = E \union {h}
    <2>1. 1..(k + 1) = (1..k) \union {k + 1}
      BY <1>1
    <2> QED BY <2>1
  <1>7. h \in SeqsIn(r, "Queued")
    <2>1. h \in ItemSeqs(r.queue)
      BY <1>0, <1>1 DEF ItemSeqs
    <2> QED BY <2>1 DEF RingInv, QueueAgrees
  <1>8. /\ E \subseteq SeqsIn(r, "Queued") /\ p.slots = [s \in HeldSeqs(r) \ E |-> r.slots[s]]
        /\ p.nextSeq = r.nextSeq /\ p.inflightLeases = r.inflightLeases
        /\ SameFlags(r, p) /\ Shrinks(r, p)
        /\ IF k = 0 THEN p = r ELSE Advanced(r.committedSeq, p)
        /\ RingInv(p, A, L)
    BY DEF EvictedTo
  <1>9. HeldSeqs(p) = HeldSeqs(r) \ E
    BY <1>8 DEF HeldSeqs
  <1>10. t.slots = [s \in HeldSeqs(r) \ F |-> r.slots[s]]
    <2> HIDE DEF E, F, h
    <2>1. HeldSeqs(p) \ {h} = HeldSeqs(r) \ F
      BY <1>6, <1>9
    <2>2. \A s \in HeldSeqs(r) \ F : p.slots[s] = r.slots[s]
      BY <1>6, <1>8
    <2> QED BY <1>5, <2>1, <2>2
  <1>11. t \in Rings
    BY <1>5 DEF RingInv, RingShapes
  <1>12. Shrinks(r, t)
    BY <1>0, <1>5, <1>8, <1>11, ShrinksOn
  <1>13. Advanced(r.committedSeq, t)
    <2>1. CASE k = 0
      BY <1>5, <1>8, <2>1
    <2>2. CASE k # 0
      <3>1. Advanced(r.committedSeq, p) /\ r.committedSeq \in 0..MaxSeq
        BY <1>0, <1>8, <2>2, RingTypes
      <3>2. HeldSeqs(t) \subseteq HeldSeqs(p)
        BY <1>5 DEF HeldSeqs
      <3>3. \A s \in HeldSeqs(p) : s < p.nextSeq
        BY <1>8 DEF RingInv, QueueAgrees
      <3> QED BY <1>0, <1>5, <1>11, <3>1, <3>2, <3>3, AdvancedOn
    <2> QED BY <2>1, <2>2
  <1>14. SameFlags(r, t) /\ t.nextSeq = r.nextSeq /\ t.inflightLeases = r.inflightLeases
    BY <1>5, <1>8 DEF SameFlags
  <1>15. F \subseteq SeqsIn(r, "Queued")
    BY <1>6, <1>7, <1>8
  <1>16. k + 1 # 0
    BY <1>1
  <1> QED BY <1>3, <1>5, <1>10, <1>12, <1>13, <1>14, <1>15, <1>16 DEF EvictedTo, t, n

(* DropOldest's loop. *)
LEMMA EvictFrontKeeps ==
    ASSUME NEW r, NEW A, NEW L, RingInv(r, A, L), NEW n \in 0..Len(r.queue)
    PROVE  EvictedTo(r, A, L, n, EvictFront(r, n))
  <1> DEFINE f == CHOOSE g : g = [k \in 0..n |-> IF k = 0 THEN r ELSE EvictOldest(g[k - 1])]
             S == {k \in Nat : \E g : g = [j \in 0..k |-> IF j = 0 THEN r ELSE EvictOldest(g[j - 1])]}
             T == {k \in 0..n : EvictedTo(r, A, L, k, f[k])}
  <1>0. /\ r \in Rings /\ r.queue \in Seq(Items) /\ Len(r.queue) \in Nat /\ n \in Nat
        /\ n <= Len(r.queue) /\ r.bytesInFlight \in Int /\ r.unreclaimedBytes \in Int
    <2>1. r \in Rings
      BY DEF RingInv, RingShapes
    <2> QED BY <2>1, RingTypes
  <1>1. EvictFront(r, n) = f[n]
    BY DEF EvictFront
  <1>2. n \in S
    <2>1. 0 \in S
      <3>1. [j \in 0..0 |-> r] = [j \in 0..0 |-> IF j = 0 THEN r ELSE EvictOldest([i \in 0..0 |-> r][j - 1])]
        OBVIOUS
      <3> QED BY <3>1
    <2>2. ASSUME NEW k \in 0..(n - 1), k \in S PROVE k + 1 \in S
      <3>0. k \in Nat
        BY <1>0
      <3>1. PICK g : g = [j \in 0..k |-> IF j = 0 THEN r ELSE EvictOldest(g[j - 1])]
        BY <2>2
      <3> DEFINE h == [j \in 0..(k + 1) |-> IF j = 0 THEN r ELSE EvictOldest(g[j - 1])]
      <3>2. \A j \in 0..k : h[j] = g[j]
        BY <3>0, <3>1
      <3>3. \A j \in 0..(k + 1) : j # 0 => h[j - 1] = g[j - 1]
        <4>1. \A j \in 0..(k + 1) : j # 0 => j - 1 \in 0..k
          BY <3>0
        <4> HIDE DEF h
        <4> QED BY <3>2, <4>1
      <3>4. h = [j \in 0..(k + 1) |-> IF j = 0 THEN r ELSE EvictOldest(h[j - 1])]
        BY <3>3
      <3>5. k + 1 \in Nat
        BY <3>0
      <3> HIDE DEF h
      <3> QED BY <3>4, <3>5
    <2> HIDE DEF S
    <2> QED BY <1>0, <2>1, <2>2, UpTo
  <1>3. f = [k \in 0..n |-> IF k = 0 THEN r ELSE EvictOldest(f[k - 1])]
    BY <1>2
  <1> HIDE DEF f
  <1>4. 0 \in T
    <2>1. f[0] = r /\ 0 \in 0..n
      BY <1>0, <1>3
    <2>2. SubSeq(r.queue, 0 + 1, Len(r.queue)) = r.queue
      BY <1>0, SubSeqFull
    <2>3. {r.queue[i].seq : i \in 1..0} = {}
      OBVIOUS
    <2>4. r.slots = [s \in HeldSeqs(r) \ {} |-> r.slots[s]]
      <3>1. r.slots = [s \in DOMAIN r.slots |-> r.slots[s]]
        BY <1>0, RingTypes, MapTypes
      <3>2. HeldSeqs(r) \ {} = DOMAIN r.slots
        BY DEF HeldSeqs
      <3> QED BY <3>1, <3>2
    <2>5. SameFlags(r, r) /\ Shrinks(r, r)
      BY <1>0 DEF SameFlags, Shrinks
    <2>6. EvictedTo(r, A, L, 0, r)
      BY <2>2, <2>3, <2>4, <2>5 DEF EvictedTo
    <2> QED BY <2>1, <2>6
  <1>5. ASSUME NEW k \in 0..(n - 1), k \in T PROVE k + 1 \in T
    <2>1. k \in 0..(Len(r.queue) - 1) /\ k + 1 \in 0..n /\ k + 1 # 0 /\ (k + 1) - 1 = k
      BY <1>0
    <2>2. f[k + 1] = EvictOldest(f[k])
      BY <1>3, <2>1
    <2>3. EvictedTo(r, A, L, k, f[k])
      BY <1>5
    <2>4. EvictedTo(r, A, L, k + 1, EvictOldest(f[k]))
      BY <2>1, <2>3, EvictOneMore
    <2> QED BY <2>1, <2>2, <2>4
  <1>6. n \in T
    <2> HIDE DEF T
    <2> QED BY <1>0, <1>4, <1>5, UpTo
  <1> QED BY <1>1, <1>6

(* DropOldest stops at the front's end at the latest. *)
LEMMA EvictionCountType ==
    ASSUME NEW r, NEW A, NEW L, RingInv(r, A, L), NEW b
    PROVE  EvictionCount(r, b) \in 0..Len(r.queue)
  <1> DEFINE n == Len(r.queue)
             S == {k \in 0..n : LET e == EvictFront(r, k)
                                IN  CanAdmit(e, b) \/ e.queue = <<>> \/ FrontIsPinned(e)}
  <1>0. r \in Rings /\ n \in Nat
    <2>1. r \in Rings
      BY DEF RingInv, RingShapes
    <2> QED BY <2>1, RingTypes
  <1>1. n \in S
    <2>1. n \in 0..n /\ n + 1 \in Int /\ n \in Int /\ n < n + 1
      BY <1>0
    <2>2. EvictFront(r, n).queue = SubSeq(r.queue, n + 1, n)
      BY <2>1, EvictFrontKeeps DEF EvictedTo
    <2>3. EvictFront(r, n).queue = <<>>
      BY <2>1, <2>2, SubSeqEmpty
    <2> QED BY <2>1, <2>3
  <1>2. S \in SUBSET Nat /\ S # {}
    BY <1>0, <1>1
  <1>3. Min(S) \in S
    BY <1>2, MinIsLeast
  <1>4. Min(S) \in 0..n
    BY <1>3
  <1>5. 0 \in 0..n
    BY <1>0
  <1> QED BY <1>4, <1>5 DEF EvictionCount

-----------------------------------------------------------------------------
(* A batch is admitted.                                                     *)

Put(r, S, state) ==
    [s \in HeldSeqs(r) \union S |-> IF s \in S THEN state ELSE r.slots[s]]

(* SetSlots gives the slots in S a state, *)
LEMMA PutSlots ==
    ASSUME NEW r \in Rings, NEW S \in SUBSET Seqs, NEW state \in {"Reserved", "Queued", "InFlight"}
    PROVE  /\ Put(r, S, state) \in SlotMaps
           /\ SetSlots(r, S, state) = [r EXCEPT !.slots = Put(r, S, state)]
  <1> DEFINE f == Put(r, S, state)
  <1>1. /\ DOMAIN f = HeldSeqs(r) \union S /\ \A s \in S : f[s] = state
        /\ f = [s \in DOMAIN f |-> f[s]]
    BY DEF Put
  <1>2. \A s \in HeldSeqs(r) \ S : f[s] = r.slots[s]
    BY DEF Put
  <1>3. SetSlots(r, S, state) = [r EXCEPT !.slots = f]
    BY DEF SetSlots, Put, HeldSeqs, Rings
  <1> HIDE DEF f
  <1>4. f \in SlotMaps
    <2>1. /\ HeldSeqs(r) \in SUBSET Seqs
          /\ \A s \in HeldSeqs(r) : r.slots[s] \in {"Reserved", "Queued", "InFlight"}
      BY RingTypes, MapTypes DEF HeldSeqs
    <2>2. DOMAIN f \subseteq Seqs
      BY <1>1, <2>1
    <2>3. \A s \in DOMAIN f : f[s] \in {"Reserved", "Queued", "InFlight"}
      BY <1>1, <1>2, <2>1
    <2> QED BY <1>1, <2>2, <2>3, MapTypes
  <1> QED BY <1>3, <1>4 DEF f

SlotsMoved(r, S, state, p) ==
    /\ HeldSeqs(p) = HeldSeqs(r) \union S
    /\ SeqsIn(p, state) = SeqsIn(r, state) \union S
    /\ \A x : x # state => SeqsIn(p, x) = SeqsIn(r, x) \ S
    /\ \A s \in S : p.slots[s] = state
    /\ \A s \in HeldSeqs(r) \ S : p.slots[s] = r.slots[s]

(* and the others keep theirs. *)
LEMMA SlotsPut ==
    ASSUME NEW r, NEW S, NEW state, NEW p, p.slots = Put(r, S, state)
    PROVE  SlotsMoved(r, S, state, p)
  <1>1. HeldSeqs(p) = HeldSeqs(r) \union S
    BY DEF HeldSeqs, Put
  <1>2. \A s \in S : p.slots[s] = state
    BY DEF Put
  <1>3. \A s \in HeldSeqs(r) \ S : p.slots[s] = r.slots[s]
    BY DEF Put
  <1>4. \A x : /\ SeqsIn(p, x) = {s \in HeldSeqs(p) : p.slots[s] = x}
               /\ SeqsIn(r, x) = {s \in HeldSeqs(r) : r.slots[s] = x}
    BY DEF SeqsIn, HeldSeqs
  <1>5. SeqsIn(p, state) = SeqsIn(r, state) \union S
    BY <1>1, <1>2, <1>3, <1>4
  <1>6. ASSUME NEW x, x # state PROVE SeqsIn(p, x) = SeqsIn(r, x) \ S
    BY <1>1, <1>2, <1>3, <1>4, <1>6
  <1> QED BY <1>1, <1>2, <1>3, <1>5, <1>6 DEF SlotsMoved

(* A ring that charges nothing holds nothing. *)
LEMMA NothingCharged ==
    ASSUME NEW r, NEW A, NEW L, RingInv(r, A, L)
    PROVE  /\ r.bytesInFlight \in Nat /\ r.rowsInFlight \in Nat /\ r.inflightLeases \in Nat
           /\ r.unreclaimedBytes \in Nat
           /\ r.bytesInFlight + r.unreclaimedBytes = 0 => Charged(r) = {}
  <1>1. r \in Rings
    BY DEF RingInv, RingShapes
  <1>2. PICK z \in [HeldSeqs(r) -> Batches] : Sized(r, A, L, z) /\ Counts(r, L, z)
    BY DEF RingInv
  <1>3. /\ HeldSeqs(r) \in SUBSET Seqs /\ IsFiniteWeight(r.unreclaimed)
        /\ \A s \in DOMAIN r.unreclaimed : r.unreclaimed[s] \in Nat \ {0}
    BY <1>1, RingTypes, MapTypes
  <1>4. /\ DOMAIN ByteSizes(z) = HeldSeqs(r) /\ IsFiniteWeight(ByteSizes(z))
        /\ SumOf(ByteSizes(z)) \in Nat /\ SumOf(RowSizes(z)) \in Nat
    BY <1>2, <1>3, SizeTypes
  <1>5. \A s \in HeldSeqs(r) : ByteSizes(z)[s] \in Nat \ {0}
    BY <1>2, ConstantTypes DEF ByteSizes
  <1>6. \A s \in HeldSeqs(r) : ByteSizes(z)[s] <= SumOf(ByteSizes(z))
    BY <1>4, SumBounds
  <1>7. \A s \in DOMAIN r.unreclaimed : r.unreclaimed[s] <= SumOf(r.unreclaimed)
    BY <1>3, SumBounds
  <1>8. SumOf(r.unreclaimed) \in Nat
    BY <1>3, SumType
  <1>9. r.bytesInFlight = SumOf(ByteSizes(z)) /\ r.unreclaimedBytes = SumOf(r.unreclaimed)
        /\ r.rowsInFlight = SumOf(RowSizes(z)) /\ r.inflightLeases = Cardinality(Live(r, L))
    BY <1>2 DEF Counts
  <1>10. r.inflightLeases \in Nat
    <2>1. IsFiniteSet(L) /\ Live(r, L) \subseteq L
      BY DEF RingInv, RingShapes, Live
    <2>2. IsFiniteSet(Live(r, L))
      BY <2>1, FS_Subset
    <2> QED BY <1>9, <2>2, FS_CardinalityType
  <1>11. ASSUME r.bytesInFlight + r.unreclaimedBytes = 0 PROVE Charged(r) = {}
    <2>1. SumOf(ByteSizes(z)) = 0 /\ SumOf(r.unreclaimed) = 0
      BY <1>4, <1>8, <1>9, <1>11
    <2>2. HeldSeqs(r) = {}
      BY <1>5, <1>6, <2>1
    <2>3. DOMAIN r.unreclaimed = {}
      BY <1>3, <1>7, <2>1
    <2> QED BY <2>2, <2>3 DEF Charged
  <1> QED BY <1>4, <1>8, <1>9, <1>10, <1>11

(* The reservations once s has sent b into r. *)
ReservedBy(r, A, b, s) ==
    IF Disk THEN A \union {[seq |-> r.nextSeq, batch |-> b, by |-> s]} ELSE A

(* An admitted batch gets the next sequence number, in the queue or in a reservation. *)
LEMMA AssignKeeps ==
    ASSUME NEW r, NEW A, NEW L, RingInv(r, A, L), NEW b \in Batches, NEW s \in Senders,
           r.nextSeq <= MaxSeq
    PROVE  LET t == AssignSeq(r, b)
           IN  /\ RingInv(t, ReservedBy(r, A, b, s), L)
               /\ t.nextSeq = r.nextSeq + 1 /\ t.committedSeq = r.committedSeq
               /\ t.slots = Put(r, {r.nextSeq}, IF Disk THEN "Reserved" ELSE "Queued")
               /\ t.bytesInFlight = r.bytesInFlight + b.bytes
               /\ t.unreclaimed = r.unreclaimed /\ t.unreclaimedBytes = r.unreclaimedBytes
               /\ SameFlags(r, t)
  <1> DEFINE seq == r.nextSeq
             st == IF Disk THEN "Reserved" ELSE "Queued"
             new == Entry(seq, b)
             q == IF Disk THEN r.queue ELSE Append(r.queue, new)
             f == Put(r, {seq}, st)
             bytes == r.bytesInFlight + b.bytes
             rows == r.rowsInFlight + b.rows
             a == [seq |-> seq, batch |-> b, by |-> s]
             A2 == ReservedBy(r, A, b, s)
             t == AssignSeq(r, b)
  <1>0. r \in Rings /\ MaxSeq \in Nat
    BY ConstantTypes DEF RingInv, RingShapes
  <1>1. /\ seq \in Nat /\ seq \in Seqs /\ seq + 1 \in 1..(MaxSeq + 1)
        /\ r.bytesInFlight \in Int /\ r.rowsInFlight \in Int
        /\ r.queue \in Seq(Items) /\ Len(r.queue) \in Nat /\ DOMAIN r.queue = 1..Len(r.queue)
        /\ HeldSeqs(r) \in SUBSET Seqs
    BY <1>0, RingTypes DEF Seqs
  <1>2. b.bytes \in Nat \ {0} /\ b.rows \in Nat \ {0} /\ bytes \in Int /\ rows \in Int
    BY <1>1, ConstantTypes, SMTT(60)
  <1>3. st \in {"Reserved", "Queued", "InFlight"} /\ {seq} \in SUBSET Seqs
    BY <1>1
  <1>4. /\ f \in SlotMaps /\ SetSlots(r, {seq}, st) = [r EXCEPT !.slots = f]
    <2> HIDE DEF st
    <2> QED BY <1>0, <1>3, PutSlots
  <1>5. new \in Items /\ new.seq = seq /\ new.batch = b
    BY <1>1 DEF Items, Entry
  <1>6. /\ \A x \in HeldSeqs(r) : x < seq /\ \A y \in DOMAIN r.unreclaimed : y < seq /\ y \notin HeldSeqs(r)
        /\ Ascends(r.queue) /\ ItemSeqs(r.queue) = SeqsIn(r, "Queued")
    BY DEF RingInv, QueueAgrees
  <1>7. \A x \in HeldSeqs(r) : x < seq /\ x # seq
    BY <1>1, <1>6
  <1>8. \A x \in DOMAIN r.unreclaimed : x < seq /\ x # seq /\ x \notin HeldSeqs(r)
    <2>1. DOMAIN r.unreclaimed \in SUBSET Seqs /\ Seqs \subseteq Nat
      BY <1>0, RingTypes, ConstantTypes
    <2>2. \A x \in DOMAIN r.unreclaimed : x < seq /\ x \notin HeldSeqs(r)
      BY DEF RingInv, QueueAgrees
    <2> QED BY <1>1, <2>1, <2>2
  <1>9. /\ q \in Seq(Items) /\ Ascends(q)
        /\ Entries(q) = IF Disk THEN Entries(r.queue) ELSE Entries(r.queue) \union {new}
    <2>1. CASE Disk
      BY <1>1, <1>6, <2>1
    <2>2. CASE ~Disk
      <3> DEFINE n == Len(r.queue)
      <3>1. q = Append(r.queue, new)
        BY <2>2
      <3> HIDE DEF new, q
      <3>2. /\ q \in Seq(Items) /\ Len(q) = n + 1
            /\ \A i \in 1..n : q[i] = r.queue[i]
            /\ q[n + 1] = new
        BY <1>1, <1>5, <3>1, AppendProperties
      <3>3. DOMAIN q = 1..(n + 1)
        BY <3>2, LenProperties
      <3> HIDE DEF n
      <3>4. n \in Nat /\ DOMAIN r.queue = 1..n
        BY <1>1 DEF n
      <3>5. 1..(n + 1) = (1..n) \union {n + 1}
        BY <3>4
      <3>6. Entries(q) = Entries(r.queue) \union {new}
        BY <3>2, <3>3, <3>4, <3>5 DEF Entries
      <3>7. \A i \in 1..n : r.queue[i].seq < seq
        <4>1. \A i \in 1..n : r.queue[i].seq \in HeldSeqs(r)
          BY <1>6, <3>4 DEF ItemSeqs, SeqsIn, HeldSeqs
        <4> QED BY <1>7, <4>1
      <3>8. Ascends(q)
        <4>1. SUFFICES ASSUME NEW i \in 1..(n + 1), NEW j \in 1..(n + 1), i < j
                       PROVE  q[i].seq < q[j].seq
          BY <3>3 DEF Ascends
        <4>2. i \in 1..n
          BY <3>4, <4>1
        <4>3. CASE j \in 1..n
          BY <1>6, <3>2, <3>4, <4>1, <4>2, <4>3 DEF Ascends
        <4>4. CASE j = n + 1
          BY <1>5, <3>2, <3>7, <4>2, <4>4
        <4> QED BY <3>5, <4>3, <4>4
      <3> QED BY <2>2, <3>2, <3>6, <3>8
    <2> QED BY <2>1, <2>2
  <1>10. t = [r EXCEPT !.nextSeq = seq + 1, !.bytesInFlight = bytes, !.rowsInFlight = rows,
                       !.slots = f, !.queue = q]
    <2>1. CASE Disk
      BY <1>0, <2>1, ZenonT(60) DEF AssignSeq, SetSlots, Put, HeldSeqs, Rings
    <2>2. CASE ~Disk
      BY <1>0, <2>2 DEF AssignSeq, SetSlots, Put, HeldSeqs, Rings
    <2> QED BY <2>1, <2>2
  <1> HIDE DEF t, q, f, bytes, rows, new
  <1>11. /\ t \in Rings /\ t.nextSeq = seq + 1 /\ t.bytesInFlight = bytes /\ t.rowsInFlight = rows
         /\ t.slots = f /\ t.queue = q /\ t.committedSeq = r.committedSeq
         /\ t.inflightLeases = r.inflightLeases
         /\ t.unreclaimed = r.unreclaimed /\ t.unreclaimedBytes = r.unreclaimedBytes
         /\ SameFlags(r, t)
    BY <1>0, <1>1, <1>2, <1>4, <1>9, <1>10 DEF Rings, SameFlags
  <1>12. /\ HeldSeqs(t) = HeldSeqs(r) \union {seq} /\ t.slots[seq] = st
         /\ \A x \in HeldSeqs(r) : t.slots[x] = r.slots[x]
         /\ SeqsIn(t, st) = SeqsIn(r, st) \union {seq}
         /\ \A x : x # st => SeqsIn(t, x) = SeqsIn(r, x)
    <2>1. \A x : seq \notin SeqsIn(r, x)
      BY <1>7 DEF SeqsIn, HeldSeqs
    <2>2. HeldSeqs(r) \ {seq} = HeldSeqs(r) /\ seq \in {seq}
      BY <1>7
    <2> DEFINE S == {seq}
    <2>3. t.slots = Put(r, S, st)
      BY <1>11 DEF f
    <2> HIDE DEF S, st
    <2>4. /\ HeldSeqs(t) = HeldSeqs(r) \union S
          /\ SeqsIn(t, st) = SeqsIn(r, st) \union S
          /\ \A x : x # st => SeqsIn(t, x) = SeqsIn(r, x) \ S
          /\ \A x \in S : t.slots[x] = st
          /\ \A x \in HeldSeqs(r) \ S : t.slots[x] = r.slots[x]
      <3>1. SlotsMoved(r, S, st, t)
        BY <2>3, SlotsPut
      <3> QED BY <3>1 DEF SlotsMoved
    <2> QED BY <2>1, <2>2, <2>4 DEF S
  <1>13. RingShapes(t, A2, L)
    <2>1. a \in Reservations
      BY <1>1 DEF Reservations
    <2>2. A \subseteq Reservations /\ L \subseteq Grants /\ IsFiniteSet(L)
      BY DEF RingInv, RingShapes
    <2>3. A2 \subseteq Reservations
      BY <2>1, <2>2 DEF ReservedBy
    <2> QED BY <1>11, <2>2, <2>3 DEF RingShapes
  <1>14. QueueAgrees(t)
    <2>1. ItemSeqs(q) = SeqsIn(t, "Queued")
      <3>1. ItemSeqs(q) = {e.seq : e \in Entries(q)} /\ ItemSeqs(r.queue) = {e.seq : e \in Entries(r.queue)}
        BY EntrySeqs
      <3>2. CASE Disk
        BY <1>6, <1>9, <1>12, <3>1, <3>2
      <3>3. CASE ~Disk
        <4>1. {e.seq : e \in Entries(q)} = {e.seq : e \in Entries(r.queue)} \union {seq}
          BY <1>5, <1>9, <3>3
        <4> QED BY <1>6, <1>12, <3>1, <3>3, <4>1
      <3> QED BY <3>2, <3>3
    <2>2. \A x \in HeldSeqs(t) : x < t.nextSeq
      <3>1. \A x \in HeldSeqs(r) \union {seq} : x \in Nat /\ (x = seq \/ x < seq)
        BY <1>1, <1>7, ConstantTypes
      <3> QED BY <1>1, <1>11, <1>12, <3>1
    <2>3. \A x \in DOMAIN t.unreclaimed : x < t.nextSeq /\ x \notin HeldSeqs(t)
      <3>1. DOMAIN r.unreclaimed \subseteq Nat
        BY <1>0, RingTypes, ConstantTypes
      <3> QED BY <1>1, <1>8, <1>11, <1>12, <3>1
    <2> QED BY <1>9, <1>11, <2>1, <2>2, <2>3 DEF QueueAgrees
  <1>15. AppendsAgree(t, A2)
    <2>1. AppendsAgree(r, A) /\ A \subseteq Reservations
      BY DEF RingInv, RingShapes
    <2>2. \A c \in A : c.seq \in Nat /\ c.seq < seq /\ c.seq # seq
      <3>1. \A c \in A : c.seq \in Nat /\ c.seq < seq
        BY <2>1, ConstantTypes DEF AppendsAgree, Reservations
      <3> QED BY <1>1, <3>1
    <2>3. \A c \in A : c.seq < t.nextSeq /\ (c.seq \in HeldSeqs(t) => t.slots[c.seq] = "Reserved")
      <3>1. \A c \in A : c.seq < t.nextSeq
        BY <1>1, <1>11, <2>2
      <3>2. \A c \in A : c.seq \in HeldSeqs(r) => r.slots[c.seq] = "Reserved"
        BY <2>1 DEF AppendsAgree
      <3> QED BY <1>12, <2>2, <3>1, <3>2
    <2>4. CASE Disk
      <3>1. A2 = A \union {a}
        BY <2>4 DEF ReservedBy
      <3>2. a.seq = seq /\ seq < t.nextSeq /\ t.slots[seq] = "Reserved"
        BY <1>1, <1>11, <1>12, <2>4
      <3> HIDE DEF a, A2
      <3>3. \A c, d \in A2 : c.seq = d.seq => c = d
        BY <2>1, <2>2, <3>1, <3>2 DEF AppendsAgree
      <3>4. \A x \in SeqsIn(t, "Reserved") : \E c \in A2 : c.seq = x
        <4>1. SeqsIn(t, "Reserved") = SeqsIn(r, "Reserved") \union {seq}
          BY <1>12, <2>4
        <4> QED BY <2>1, <3>1, <3>2, <4>1 DEF AppendsAgree
      <3> QED BY <2>3, <3>1, <3>2, <3>3, <3>4 DEF AppendsAgree
    <2>5. CASE ~Disk
      <3>1. A2 = A /\ SeqsIn(t, "Reserved") = SeqsIn(r, "Reserved")
        BY <1>12, <2>5 DEF ReservedBy
      <3> HIDE DEF A2
      <3> QED BY <2>1, <2>3, <3>1 DEF AppendsAgree
    <2> QED BY <2>4, <2>5
  <1>16. SeqsIn(t, "InFlight") = SeqsIn(r, "InFlight")
    BY <1>12
  <1>17. LeasesAgree(t, L)
    <2>1. LeasesAgree(r, L)
      BY DEF RingInv
    <2>2. \A l \in L : \A x \in ItemSeqs(l.items) : x < t.nextSeq /\ x # seq
      <3>1. ASSUME NEW l \in L, NEW x \in ItemSeqs(l.items) PROVE x \in Nat /\ x < seq
        <4>1. l.items \in Seq(Items)
          BY DEF RingInv, RingShapes, Grants
        <4>2. PICK i \in 1..Len(l.items) : x = l.items[i].seq
          BY <4>1, LenProperties DEF ItemSeqs
        <4>3. l.items[i] \in Items
          BY <4>1, <4>2, ElementOfSeq
        <4>4. x \in Nat
          BY <4>2, <4>3, ConstantTypes DEF Items
        <4> QED BY <2>1, <4>4 DEF LeasesAgree
      <3>2. \A x \in Nat : x < seq => x < t.nextSeq /\ x # seq
        BY <1>1, <1>11
      <3> QED BY <3>1, <3>2
    <2>3. \A l \in L : ItemSeqs(l.items) \intersect HeldSeqs(r) = {} => ItemSeqs(l.items) \intersect HeldSeqs(t) = {}
      BY <1>12, <2>2
    <2> QED BY <1>16, <2>1, <2>2, <2>3 DEF LeasesAgree
  <1>18. PICK z \in [HeldSeqs(r) -> Batches] : Sized(r, A, L, z) /\ Counts(r, L, z)
    BY DEF RingInv
  <1> DEFINE more == [x \in HeldSeqs(r) \union {seq} |-> IF x = seq THEN b ELSE z[x]]
  <1>19. /\ more \in [HeldSeqs(r) \union {seq} -> Batches] /\ more[seq] = b
         /\ \A x \in HeldSeqs(r) : more[x] = z[x]
    BY <1>7, <1>18
  <1> HIDE DEF more
  <1>20. Sized(t, A2, L, more)
    <2>0. \A c \in A : c.seq # seq
      <3>1. \A c \in A : c.seq \in Nat /\ c.seq < seq
        BY ConstantTypes DEF RingInv, RingShapes, AppendsAgree, Reservations
      <3> QED BY <1>1, <3>1
    <2>1. ASSUME NEW c \in A2, c.seq \in HeldSeqs(t) PROVE more[c.seq] = c.batch
      <3>1. c \in A \/ c = a
        BY DEF ReservedBy
      <3>2. CASE c \in A
        <4>1. c.seq \in HeldSeqs(r)
          BY <1>12, <2>0, <2>1, <3>2
        <4>2. z[c.seq] = c.batch
          BY <1>18, <3>2, <4>1 DEF Sized
        <4> QED BY <1>19, <4>1, <4>2
      <3>3. CASE c = a
        BY <1>19, <3>3
      <3> QED BY <3>1, <3>2, <3>3
    <2>2. ASSUME NEW e \in Entries(q) PROVE more[e.seq] = e.batch
      <3>1. e \in Entries(r.queue) \/ e = new
        BY <1>9
      <3>2. CASE e \in Entries(r.queue)
        <4>1. e.seq \in HeldSeqs(r)
          BY <1>6, <3>2, EntrySeqs DEF SeqsIn, HeldSeqs
        <4>2. z[e.seq] = e.batch
          BY <1>18, <3>2 DEF Sized
        <4> QED BY <1>19, <4>1, <4>2
      <3>3. CASE e = new
        BY <1>5, <1>19, <3>3
      <3> QED BY <3>1, <3>2, <3>3
    <2>3. ASSUME NEW l \in L, NEW e \in Entries(l.items), e.seq \in HeldSeqs(t)
          PROVE  more[e.seq] = e.batch
      <3>1. e.seq \in ItemSeqs(l.items)
        BY EntrySeqs
      <3>2. e.seq \in SeqsIn(t, "InFlight")
        BY <1>17, <2>3, <3>1 DEF LeasesAgree
      <3>3. e.seq \in HeldSeqs(r)
        BY <1>16, <3>2 DEF SeqsIn, HeldSeqs
      <3>4. z[e.seq] = e.batch
        BY <1>18, <3>3 DEF Sized
      <3> QED BY <1>19, <3>3, <3>4
    <2> QED BY <1>11, <1>12, <1>19, <2>1, <2>2, <2>3 DEF Sized
  <1>21. Counts(t, L, more)
    <2> DEFINE H == HeldSeqs(r)
    <2>1. /\ H \in SUBSET Seqs /\ z \in [H -> Batches] /\ seq \in Seqs /\ seq \notin H
          /\ more \in [H \union {seq} -> Batches] /\ \A x \in H : more[x] = z[x]
      BY <1>1, <1>7, <1>18, <1>19
    <2> HIDE DEF H
    <2>2. /\ SumOf(ByteSizes(more)) = SumOf(ByteSizes(z)) + more[seq].bytes
          /\ SumOf(RowSizes(more)) = SumOf(RowSizes(z)) + more[seq].rows
      <3> HIDE DEF seq
      <3> QED BY <2>1, SizesWith
    <2>3. Live(t, L) = Live(r, L)
      BY <1>16 DEF Live
    <2>4. bytes = SumOf(ByteSizes(more)) /\ rows = SumOf(RowSizes(more))
      BY <1>18, <1>19, <2>2 DEF Counts, bytes, rows
    <2> QED BY <1>11, <1>18, <2>3, <2>4 DEF Counts
  <1>22. RingInv(t, A2, L)
    BY <1>12, <1>13, <1>14, <1>15, <1>17, <1>19, <1>20, <1>21 DEF RingInv
  <1> QED BY <1>11, <1>22 DEF t, f, bytes

(* An admission stays within the budget, or finds the ring empty. *)
LEMMA AssignBudget ==
    ASSUME NEW r, NEW A, NEW L, RingInv(r, A, L), NEW b \in Batches, CanAdmit(r, b), NEW t,
           HeldSeqs(t) = HeldSeqs(r) \union {r.nextSeq},
           t.bytesInFlight = r.bytesInFlight + b.bytes,
           t.unreclaimed = r.unreclaimed, t.unreclaimedBytes = r.unreclaimedBytes
    PROVE  WithinBudget(t)
  <1>1. /\ r.bytesInFlight \in Nat /\ r.unreclaimedBytes \in Nat
        /\ r.bytesInFlight + r.unreclaimedBytes = 0 => Charged(r) = {}
    BY NothingCharged
  <1>2. b.bytes \in Nat /\ Budget \in Nat
    BY ConstantTypes
  <1>3. CASE r.bytesInFlight + r.unreclaimedBytes = 0
    <2>1. HeldSeqs(r) = {} /\ DOMAIN r.unreclaimed = {}
      BY <1>1, <1>3 DEF Charged
    <2>2. Charged(t) = {r.nextSeq}
      BY <2>1 DEF Charged
    <2>3. Cardinality({r.nextSeq}) = 1
      BY FS_Singleton
    <2> QED BY <2>2, <2>3 DEF WithinBudget
  <1>4. CASE r.bytesInFlight + r.unreclaimedBytes + b.bytes <= Budget
    <2>1. ~(t.bytesInFlight + t.unreclaimedBytes > Budget)
      BY <1>1, <1>2, <1>4
    <2> QED BY <2>1 DEF WithinBudget
  <1> QED BY <1>3, <1>4 DEF CanAdmit

-----------------------------------------------------------------------------
(* A reservation ends.                                                      *)

(* A reservation whose slot a discard took away ends without a trace. *)
LEMMA ReservationEnds ==
    ASSUME NEW r, NEW A, NEW L, RingInv(r, A, L), NEW a \in A, a.seq \notin HeldSeqs(r)
    PROVE  RingInv(r, A \ {a}, L)
  <1>1. RingShapes(r, A \ {a}, L) /\ QueueAgrees(r) /\ LeasesAgree(r, L)
    BY DEF RingInv, RingShapes
  <1>2. AppendsAgree(r, A \ {a})
    <2>1. AppendsAgree(r, A)
      BY DEF RingInv
    <2>2. \A s \in SeqsIn(r, "Reserved") : \E c \in A \ {a} : c.seq = s
      BY <2>1 DEF AppendsAgree, SeqsIn, HeldSeqs
    <2> QED BY <2>1, <2>2 DEF AppendsAgree
  <1>3. PICK z \in [HeldSeqs(r) -> Batches] : Sized(r, A, L, z) /\ Counts(r, L, z)
    BY DEF RingInv
  <1>4. Sized(r, A \ {a}, L, z)
    BY <1>3 DEF Sized
  <1> QED BY <1>1, <1>2, <1>3, <1>4 DEF RingInv

Appended(r, a) ==
    [SetSlots(r, {a.seq}, "Queued") EXCEPT !.queue = EnqueueOrdered(@, Entry(a.seq, a.batch))]

(* finish(Ok): the batch takes its place in the queue. *)
LEMMA AppendKeeps ==
    ASSUME NEW r, NEW A, NEW L, RingInv(r, A, L), NEW a \in A, a.seq \in SeqsIn(r, "Reserved"),
           NEW t, t = Appended(r, a)
    PROVE  /\ RingInv(t, A \ {a}, L)
           /\ t.slots = Put(r, {a.seq}, "Queued")
           /\ t.nextSeq = r.nextSeq /\ t.committedSeq = r.committedSeq
           /\ t.bytesInFlight = r.bytesInFlight
           /\ t.unreclaimed = r.unreclaimed /\ t.unreclaimedBytes = r.unreclaimedBytes
           /\ SameFlags(r, t)
  <1> DEFINE x == a.seq
             new == Entry(x, a.batch)
             q == EnqueueOrdered(r.queue, new)
             f == Put(r, {x}, "Queued")
  <1>0. r \in Rings /\ MaxSeq \in Nat /\ A \subseteq Reservations /\ L \subseteq Grants /\ IsFiniteSet(L)
    BY ConstantTypes DEF RingInv, RingShapes
  <1>1. /\ r.queue \in Seq(Items) /\ HeldSeqs(r) \in SUBSET Seqs
        /\ x \in Seqs /\ a.batch \in Batches /\ x \in HeldSeqs(r) /\ r.slots[x] = "Reserved"
    BY <1>0, RingTypes DEF Reservations, SeqsIn, HeldSeqs
  <1>2. new \in Items /\ new.seq = x /\ new.batch = a.batch
    BY <1>1 DEF Items, Entry
  <1>3. /\ Ascends(r.queue) /\ ItemSeqs(r.queue) = SeqsIn(r, "Queued")
        /\ \A s \in HeldSeqs(r) : s < r.nextSeq
        /\ \A s \in DOMAIN r.unreclaimed : s < r.nextSeq /\ s \notin HeldSeqs(r)
    BY DEF RingInv, QueueAgrees
  <1>4. x \notin ItemSeqs(r.queue)
    BY <1>1, <1>3 DEF SeqsIn
  <1>5. q \in Seq(Items) /\ Ascends(q) /\ Entries(q) = Entries(r.queue) \union {new}
    <2> HIDE DEF new
    <2> QED BY <1>0, <1>1, <1>2, <1>3, <1>4, Enqueued
  <1>6. f \in SlotMaps /\ t = [r EXCEPT !.slots = f, !.queue = q]
    <2>1. {x} \in SUBSET Seqs
      BY <1>1
    <2>2. f \in SlotMaps /\ SetSlots(r, {x}, "Queued") = [r EXCEPT !.slots = f]
      BY <1>0, <2>1, PutSlots
    <2> HIDE DEF f
    <2> QED BY <1>0, <2>2 DEF Rings, Appended
  <1> HIDE DEF q, f, new
  <1>7. /\ t \in Rings /\ t.slots = f /\ t.queue = q /\ t.nextSeq = r.nextSeq
        /\ t.committedSeq = r.committedSeq /\ t.inflightLeases = r.inflightLeases
        /\ t.bytesInFlight = r.bytesInFlight /\ t.rowsInFlight = r.rowsInFlight
        /\ t.unreclaimed = r.unreclaimed /\ t.unreclaimedBytes = r.unreclaimedBytes
        /\ SameFlags(r, t)
    BY <1>0, <1>5, <1>6 DEF Rings, SameFlags
  <1>8. /\ HeldSeqs(t) = HeldSeqs(r) /\ SeqsIn(t, "Queued") = SeqsIn(r, "Queued") \union {x}
        /\ SeqsIn(t, "Reserved") = SeqsIn(r, "Reserved") \ {x}
        /\ SeqsIn(t, "InFlight") = SeqsIn(r, "InFlight")
        /\ \A s \in HeldSeqs(r) \ {x} : t.slots[s] = r.slots[s]
    <2> DEFINE S == {x}
    <2>1. S \subseteq HeldSeqs(r) /\ SeqsIn(r, "InFlight") \ S = SeqsIn(r, "InFlight")
      BY <1>1 DEF SeqsIn
    <2>2. t.slots = Put(r, S, "Queued")
      BY <1>7 DEF f
    <2> HIDE DEF S
    <2>3. SlotsMoved(r, S, "Queued", t)
      BY <2>2, SlotsPut
    <2>4. /\ HeldSeqs(t) = HeldSeqs(r) /\ SeqsIn(t, "Queued") = SeqsIn(r, "Queued") \union S
          /\ SeqsIn(t, "Reserved") = SeqsIn(r, "Reserved") \ S
          /\ SeqsIn(t, "InFlight") = SeqsIn(r, "InFlight")
          /\ \A s \in HeldSeqs(r) \ S : t.slots[s] = r.slots[s]
      BY <2>1, <2>3 DEF SlotsMoved
    <2> QED BY <2>4 DEF S
  <1>9. RingShapes(t, A \ {a}, L)
    BY <1>0, <1>7 DEF RingShapes
  <1>10. QueueAgrees(t)
    <2>1. ItemSeqs(q) = ItemSeqs(r.queue) \union {x}
      BY <1>2, <1>5, EntrySeqs
    <2> QED BY <1>3, <1>5, <1>7, <1>8, <2>1 DEF QueueAgrees
  <1>11. AppendsAgree(r, A)
    BY DEF RingInv
  <1>12. \A c \in A \ {a} : c.seq # x
    BY <1>11 DEF AppendsAgree
  <1>13. AppendsAgree(t, A \ {a})
    <2>1. \A c \in A \ {a} : c.seq < t.nextSeq /\ (c.seq \in HeldSeqs(t) => t.slots[c.seq] = "Reserved")
      BY <1>7, <1>8, <1>11, <1>12 DEF AppendsAgree
    <2>2. \A s \in SeqsIn(t, "Reserved") : \E c \in A \ {a} : c.seq = s
      <3>1. ASSUME NEW s \in SeqsIn(t, "Reserved") PROVE \E c \in A \ {a} : c.seq = s
        <4>1. s \in SeqsIn(r, "Reserved") /\ s # x
          BY <1>8
        <4>2. PICK c \in A : c.seq = s
          BY <1>11, <4>1 DEF AppendsAgree
        <4> QED BY <4>1, <4>2
      <3> QED BY <3>1
    <2> QED BY <1>11, <2>1, <2>2 DEF AppendsAgree
  <1>14. LeasesAgree(t, L)
    BY <1>7, <1>8 DEF RingInv, LeasesAgree
  <1>15. PICK z \in [HeldSeqs(r) -> Batches] : Sized(r, A, L, z) /\ Counts(r, L, z)
    BY DEF RingInv
  <1>16. Sized(t, A \ {a}, L, z)
    <2>1. z[x] = a.batch
      BY <1>1, <1>15 DEF Sized
    <2>2. \A e \in Entries(q) : z[e.seq] = e.batch
      BY <1>2, <1>5, <1>15, <2>1 DEF Sized
    <2> QED BY <1>7, <1>8, <1>15, <2>2 DEF Sized
  <1>17. Counts(t, L, z)
    BY <1>7, <1>8, <1>15 DEF Counts, Live
  <1>18. RingInv(t, A \ {a}, L)
    BY <1>8, <1>9, <1>10, <1>13, <1>14, <1>15, <1>16, <1>17 DEF RingInv
  <1> QED BY <1>7, <1>18 DEF f

Without(r, S) == [s \in HeldSeqs(r) \ S |-> r.slots[s]]

(* RemoveSlots leaves the other slots. *)
LEMMA SlotsWithout ==
    ASSUME NEW r \in Rings, NEW S
    PROVE  /\ Without(r, S) \in SlotMaps
           /\ RemoveSlots(r, S) = [r EXCEPT !.slots = Without(r, S)]
           /\ S \intersect HeldSeqs(r) = {} => Without(r, S) = r.slots
  <1> DEFINE f == Without(r, S)
  <1>1. DOMAIN f = HeldSeqs(r) \ S /\ f = [s \in DOMAIN f |-> f[s]] /\ \A s \in DOMAIN f : f[s] = r.slots[s]
    BY DEF Without
  <1>2. RemoveSlots(r, S) = [r EXCEPT !.slots = f]
    BY DEF RemoveSlots, Without, HeldSeqs, Rings
  <1> HIDE DEF f
  <1>3. /\ HeldSeqs(r) \in SUBSET Seqs /\ r.slots = [s \in DOMAIN r.slots |-> r.slots[s]]
        /\ \A s \in HeldSeqs(r) : r.slots[s] \in {"Reserved", "Queued", "InFlight"}
    BY RingTypes, MapTypes DEF HeldSeqs
  <1>4. f \in SlotMaps
    <2>1. DOMAIN f \subseteq Seqs /\ \A s \in DOMAIN f : f[s] \in {"Reserved", "Queued", "InFlight"}
      BY <1>1, <1>3
    <2> QED BY <1>1, <2>1, MapTypes
  <1>5. ASSUME S \intersect HeldSeqs(r) = {} PROVE f = r.slots
    <2>1. DOMAIN f = DOMAIN r.slots
      BY <1>1, <1>5 DEF HeldSeqs
    <2> QED BY <1>1, <1>3, <2>1
  <1> QED BY <1>2, <1>4, <1>5 DEF f

(* rollback_slot: the batch leaves the ring. *)
LEMMA RollbackKeeps ==
    ASSUME NEW r, NEW A, NEW L, RingInv(r, A, L), NEW a \in A, NEW t, t = RollbackSlot(r, a)
    PROVE  /\ RingInv(t, A \ {a}, L) /\ Shrinks(r, t) /\ SameFlags(r, t) /\ t.nextSeq = r.nextSeq
           /\ IF a.seq \notin HeldSeqs(r) THEN t = r
              ELSE /\ r.slots[a.seq] = "Reserved" /\ t.slots = Without(r, {a.seq})
                   /\ Advanced(r.committedSeq, t)
  <1>0. r \in Rings /\ A \subseteq Reservations
    BY DEF RingInv, RingShapes
  <1>1. CASE a.seq \notin HeldSeqs(r)
    <2>1. t = r
      BY <1>1 DEF RollbackSlot
    <2>2. r.bytesInFlight \in Int /\ r.unreclaimedBytes \in Int
      BY <1>0, RingTypes
    <2> QED BY <1>1, <2>1, <2>2, ReservationEnds DEF Shrinks, SameFlags
  <1>2. CASE a.seq \in HeldSeqs(r)
    <2> DEFINE x == a.seq
               f == Without(r, {x})
               bytes == r.bytesInFlight - a.batch.bytes
               rows == r.rowsInFlight - a.batch.rows
               p == [r EXCEPT !.slots = f, !.bytesInFlight = bytes, !.rowsInFlight = rows]
    <2>1. /\ x \in Seqs /\ a.batch \in Batches
          /\ r.bytesInFlight \in Int /\ r.rowsInFlight \in Int /\ r.unreclaimedBytes \in Int
          /\ a.batch.bytes \in Nat \ {0} /\ a.batch.rows \in Nat \ {0}
      BY <1>0, RingTypes, ConstantTypes DEF Reservations
    <2>2. bytes \in Int /\ rows \in Int
      BY <2>1
    <2>3. f \in SlotMaps /\ RemoveSlots(r, {x}) = [r EXCEPT !.slots = f]
      BY <1>0, SlotsWithout
    <2>4. t = AdvanceWatermark(p)
      <3> HIDE DEF f
      <3>1. t = AdvanceWatermark([RemoveSlots(r, {x}) EXCEPT !.bytesInFlight = @ - a.batch.bytes,
                                                            !.rowsInFlight = @ - a.batch.rows])
        BY <1>2 DEF RollbackSlot
      <3>2. [RemoveSlots(r, {x}) EXCEPT !.bytesInFlight = @ - a.batch.bytes,
                                        !.rowsInFlight = @ - a.batch.rows] = p
        BY <1>0, <2>3 DEF Rings
      <3> QED BY <3>1, <3>2
    <2> HIDE DEF f, bytes, rows, p
    <2>5. /\ p \in Rings /\ p.slots = f /\ p.bytesInFlight = bytes /\ p.rowsInFlight = rows
          /\ p.queue = r.queue /\ p.nextSeq = r.nextSeq /\ p.committedSeq = r.committedSeq
          /\ p.inflightLeases = r.inflightLeases /\ p.unreclaimed = r.unreclaimed
          /\ p.unreclaimedBytes = r.unreclaimedBytes /\ SameFlags(r, p)
      BY <1>0, <2>2, <2>3 DEF Rings, SameFlags, p
    <2>6. r.slots[x] = "Reserved"
      BY <1>2 DEF RingInv, AppendsAgree
    <2>7. PICK z \in [HeldSeqs(r) -> Batches] : Sized(r, A, L, z) /\ Counts(r, L, z)
      BY DEF RingInv
    <2>8. z[x] = a.batch
      BY <1>2, <2>7 DEF Sized
    <2> DEFINE gone == [s \in {x} |-> z[s]]
    <2>9. /\ gone \in [{x} -> Batches] /\ \A s \in {x} : gone[s] = z[s]
          /\ SumOf(ByteSizes(gone)) = a.batch.bytes /\ SumOf(RowSizes(gone)) = a.batch.rows
      <3>1. gone \in [{x} -> Batches] /\ gone[x] = a.batch /\ \A s \in {x} : gone[s] = z[s]
        BY <1>2, <2>7, <2>8
      <3> HIDE DEF gone
      <3> QED BY <2>1, <3>1, SizeOfOne
    <2> HIDE DEF gone
    <2>10. RingInv(p, A \ {a}, L)
      <3>1. ItemSeqs(p.queue) = ItemSeqs(r.queue) \ {x} /\ Ascends(p.queue)
        BY <2>5, <2>6 DEF RingInv, QueueAgrees, SeqsIn
      <3>2. \A l \in L : ItemSeqs(l.items) \intersect {x} = {}
        BY <1>2, <2>6 DEF RingInv, LeasesAgree, SeqsIn
      <3>3. \A c \in A : c.seq \in HeldSeqs(r) \ {x} => c \in A \ {a}
        OBVIOUS
      <3>4. \A s \in DOMAIN p.unreclaimed : s < r.nextSeq /\ s \notin HeldSeqs(r) \ {x}
        BY <2>5 DEF RingInv, QueueAgrees
      <3>5. /\ p.unreclaimedBytes = SumOf(p.unreclaimed) /\ p.inflightLeases = Cardinality(Live(r, L))
        BY <2>5, <2>7 DEF Counts
      <3>6. /\ p.bytesInFlight = r.bytesInFlight - SumOf(ByteSizes(gone))
            /\ p.rowsInFlight = r.rowsInFlight - SumOf(RowSizes(gone))
        BY <2>5, <2>9 DEF bytes, rows
      <3>7. {x} \in SUBSET HeldSeqs(r) /\ p.slots = [s \in HeldSeqs(r) \ {x} |-> r.slots[s]]
        BY <1>2, <2>5 DEF f, Without
      <3>8. Removes(r, A, L, z, {x}, gone, p, A \ {a}, L)
        BY <2>5, <2>7, <2>9, <3>1, <3>2, <3>3, <3>4, <3>5, <3>6, <3>7 DEF Removes
      <3> QED BY <3>8, RemovalKeeps
    <2>11. Shrinks(r, p)
      <3>1. Charged(p) \subseteq Charged(r)
        BY <2>5 DEF Charged, f, Without, HeldSeqs
      <3> QED BY <2>1, <2>5, <3>1 DEF Shrinks, bytes
    <2>12. /\ RingInv(t, A \ {a}, L) /\ SameQueue(p, t) /\ SameFlags(p, t)
           /\ Shrinks(p, t) /\ Advanced(p.committedSeq, t)
      BY <2>4, <2>10, WatermarkKeeps
    <2>13. Shrinks(r, t)
      <3>1. t \in Rings
        BY <2>12 DEF RingInv, RingShapes
      <3> QED BY <1>0, <2>5, <2>11, <2>12, <3>1, ShrinksOn
    <2>14. /\ SameFlags(r, t) /\ t.nextSeq = r.nextSeq /\ t.slots = f /\ Advanced(r.committedSeq, t)
      BY <2>5, <2>12 DEF SameQueue, SameFlags
    <2> QED BY <1>2, <2>6, <2>12, <2>13, <2>14 DEF f
  <1> QED BY <1>1, <1>2

-----------------------------------------------------------------------------
(* Leases                                                                   *)

(* The items of a lease are an unbroken range of sequence numbers. *)
LEMMA RunOfItems ==
    ASSUME NEW items \in Seq(Items), Consecutive(items)
    PROVE  LET n == Len(items)
           IN  /\ n \in Nat \ {0} /\ DOMAIN items = 1..n /\ 1 \in 1..n /\ n \in 1..n
               /\ \A i \in 1..n : items[i] \in Items /\ items[i].seq \in Nat
               /\ \A i \in 1..n : items[i].seq = items[1].seq + i - 1
               /\ \A i, j \in 1..n : items[i].seq = items[j].seq => i = j
               /\ items[1].seq \in ItemSeqs(items) /\ items[1].seq <= items[n].seq
               /\ ItemSeqs(items) = items[1].seq..items[n].seq
  <1> DEFINE n == Len(items)
             x == items[1].seq
  <1>1. n \in Nat /\ DOMAIN items = 1..n /\ \A i \in 1..n : items[i] \in Items
    BY ElementOfSeq, LenProperties
  <1>2. n # 0
    BY <1>1, EmptySeq DEF Consecutive
  <1>3. 1 \in 1..n /\ n \in 1..n
    BY <1>1, <1>2
  <1>4. \A i \in 1..n : items[i].seq \in Nat
    BY <1>1, ConstantTypes DEF Items
  <1>5. \A i \in 1..n : items[i].seq = x + i - 1
    BY <1>1 DEF Consecutive
  <1>6. x \in Nat
    BY <1>3, <1>4
  <1> HIDE DEF n, x
  <1>7. \A i, j \in 1..n : items[i].seq = items[j].seq => i = j
    BY <1>1, <1>5, <1>6
  <1>8. x <= items[n].seq /\ items[n].seq = x + n - 1
    BY <1>1, <1>2, <1>3, <1>5, <1>6
  <1>9. ItemSeqs(items) = {x + i - 1 : i \in 1..n}
    BY <1>1, <1>5 DEF ItemSeqs
  <1>10. {x + i - 1 : i \in 1..n} = x..(x + n - 1)
    <2>1. \A i \in 1..n : x + i - 1 \in x..(x + n - 1)
      BY <1>1, <1>6
    <2>2. \A s \in x..(x + n - 1) : s - x + 1 \in 1..n /\ x + (s - x + 1) - 1 = s
      BY <1>1, <1>6
    <2> QED BY <2>1, <2>2
  <1>11. items[1].seq \in ItemSeqs(items)
    BY <1>1, <1>3 DEF ItemSeqs
  <1> QED BY <1>1, <1>2, <1>3, <1>4, <1>5, <1>7, <1>8, <1>9, <1>10, <1>11 DEF n, x

(* What a lease is. *)
LEMMA LeaseTypes ==
    ASSUME NEW r, NEW A, NEW L, RingInv(r, A, L), NEW l \in L
    PROVE  /\ l.items \in Seq(Items) /\ Consecutive(l.items) /\ l.attempt \in Nat
           /\ \/ ItemSeqs(l.items) \subseteq SeqsIn(r, "InFlight")
              \/ ItemSeqs(l.items) \intersect HeldSeqs(r) = {}
           /\ \A m \in L : m # l => ItemSeqs(l.items) \intersect ItemSeqs(m.items) = {}
           /\ ItemSeqs(l.items) # {}
  <1>1. l.items \in Seq(Items) /\ l.attempt \in Nat
    BY DEF RingInv, RingShapes, Grants
  <1>2. /\ Consecutive(l.items)
        /\ \/ ItemSeqs(l.items) \subseteq SeqsIn(r, "InFlight")
           \/ ItemSeqs(l.items) \intersect HeldSeqs(r) = {}
        /\ \A m \in L : m # l => ItemSeqs(l.items) \intersect ItemSeqs(m.items) = {}
    BY DEF RingInv, LeasesAgree
  <1>3. ItemSeqs(l.items) # {}
    BY <1>1, <1>2, RunOfItems
  <1> QED BY <1>1, <1>2, <1>3

(* inflight_leases without one of the leases that hold slots. *)
LEMMA LiveWithout ==
    ASSUME NEW r, NEW L, IsFiniteSet(L), NEW l \in L
    PROVE  /\ Live(r, L \ {l}) = Live(r, L) \ {l}
           /\ ItemSeqs(l.items) \intersect SeqsIn(r, "InFlight") # {} =>
                 Cardinality(Live(r, L \ {l})) = Cardinality(Live(r, L)) - 1
           /\ ItemSeqs(l.items) \intersect SeqsIn(r, "InFlight") = {} =>
                 Live(r, L \ {l}) = Live(r, L)
  <1>1. Live(r, L \ {l}) = Live(r, L) \ {l}
    BY DEF Live
  <1>2. ASSUME ItemSeqs(l.items) \intersect SeqsIn(r, "InFlight") # {}
        PROVE  Cardinality(Live(r, L \ {l})) = Cardinality(Live(r, L)) - 1
    <2>1. l \in Live(r, L) /\ Live(r, L) \subseteq L
      BY <1>2 DEF Live
    <2>2. IsFiniteSet(Live(r, L))
      BY <2>1, FS_Subset
    <2> QED BY <1>1, <2>1, <2>2, FS_RemoveElement
  <1>3. ASSUME ItemSeqs(l.items) \intersect SeqsIn(r, "InFlight") = {}
        PROVE  Live(r, L \ {l}) = Live(r, L)
    BY <1>3 DEF Live
  <1> QED BY <1>1, <1>2, <1>3

(* A lease whose slots a discard took away ends without a trace. *)
LEMMA LeaseEnds ==
    ASSUME NEW r, NEW A, NEW L, RingInv(r, A, L), NEW l \in L,
           ItemSeqs(l.items) \intersect HeldSeqs(r) = {}
    PROVE  RingInv(r, A, L \ {l}) /\ Live(r, L \ {l}) = Live(r, L)
  <1>0. IsFiniteSet(L)
    BY DEF RingInv, RingShapes
  <1>1. IsFiniteSet(L \ {l})
    BY <1>0, FS_Subset
  <1>2. RingShapes(r, A, L \ {l}) /\ QueueAgrees(r) /\ AppendsAgree(r, A)
    BY <1>1 DEF RingInv, RingShapes
  <1>3. LeasesAgree(r, L \ {l})
    <2>1. LeasesAgree(r, L)
      BY DEF RingInv
    <2>2. \A s \in SeqsIn(r, "InFlight") : \E m \in L \ {l} : s \in ItemSeqs(m.items)
      BY <2>1 DEF LeasesAgree, SeqsIn, HeldSeqs
    <2> QED BY <2>1, <2>2 DEF LeasesAgree
  <1>4. ItemSeqs(l.items) \intersect SeqsIn(r, "InFlight") = {}
    BY DEF SeqsIn, HeldSeqs
  <1>5. Live(r, L \ {l}) = Live(r, L)
    BY <1>0, <1>4, LiveWithout
  <1>6. PICK z \in [HeldSeqs(r) -> Batches] : Sized(r, A, L, z) /\ Counts(r, L, z)
    BY DEF RingInv
  <1>7. Sized(r, A, L \ {l}, z) /\ Counts(r, L \ {l}, z)
    BY <1>5, <1>6 DEF Sized, Counts
  <1> QED BY <1>2, <1>3, <1>5, <1>6, <1>7 DEF RingInv

(* ack_entries takes off what the lease's items say, and that is what their slots were charged. *)
LEMMA LeaseSizes ==
    ASSUME NEW items \in Seq(Items), Consecutive(items), ItemSeqs(items) \in SUBSET Seqs,
           NEW gone \in [ItemSeqs(items) -> Batches],
           \A i \in DOMAIN items : gone[items[i].seq] = items[i].batch
    PROVE  /\ SumOf([i \in DOMAIN items |-> items[i].batch.bytes]) = SumOf(ByteSizes(gone))
           /\ SumOf([i \in DOMAIN items |-> items[i].batch.rows]) = SumOf(RowSizes(gone))
  <1> DEFINE n == Len(items)
             x == items[1].seq
             S == ItemSeqs(items)
             g == [i \in 1..n |-> items[i].seq]
             h == [s \in S |-> s - x + 1]
             vb == [i \in 1..n |-> items[i].batch.bytes]
             vr == [i \in 1..n |-> items[i].batch.rows]
  <1>1. /\ n \in Nat /\ DOMAIN items = 1..n /\ x \in Nat
        /\ \A i \in 1..n : items[i] \in Items /\ items[i].seq = x + i - 1
        /\ \A i, j \in 1..n : items[i].seq = items[j].seq => i = j
    BY RunOfItems
  <1>2. \A i \in 1..n : items[i].batch.bytes \in Nat /\ items[i].batch.rows \in Nat
    BY <1>1, ConstantTypes DEF Items
  <1>3. IsFiniteSet(1..n)
    BY <1>1, FS_Interval
  <1>4. IsFiniteWeight(vb) /\ IsFiniteWeight(vr) /\ DOMAIN vb = 1..n /\ DOMAIN vr = 1..n
    BY <1>2, <1>3 DEF IsFiniteWeight
  <1>5. /\ IsFiniteWeight(ByteSizes(gone)) /\ DOMAIN ByteSizes(gone) = S
        /\ IsFiniteWeight(RowSizes(gone)) /\ DOMAIN RowSizes(gone) = S
    BY SizeTypes
  <1>6. /\ \A i \in 1..n : items[i].seq \in S
        /\ \A s \in S : \E i \in 1..n : s = items[i].seq
    BY <1>1 DEF ItemSeqs
  <1>7. \A s \in S : s - x + 1 \in 1..n /\ items[s - x + 1].seq = s
    <2>1. ASSUME NEW s \in S PROVE s - x + 1 \in 1..n /\ items[s - x + 1].seq = s
      <3>1. PICK i \in 1..n : s = items[i].seq
        BY <1>6
      <3>2. s - x + 1 = i
        BY <1>1, <3>1
      <3> QED BY <3>1, <3>2
    <2> QED BY <2>1
  <1>8. g \in Injection(1..n, S)
    <2>1. g \in [1..n -> S]
      BY <1>6
    <2>2. IsInjective(g)
      BY <1>1 DEF IsInjective
    <2> QED BY <2>1, <2>2 DEF Injection
  <1>9. h \in Injection(S, 1..n)
    <2>1. h \in [S -> 1..n]
      BY <1>7
    <2>2. \A s, t \in S : h[s] = h[t] => s = t
      <3>1. \A s \in S : h[s] = s - x + 1 /\ s \in Nat
        BY ConstantTypes
      <3> QED BY <1>1, <3>1
    <2>3. IsInjective(h)
      BY <2>2 DEF IsInjective
    <2> QED BY <2>1, <2>3 DEF Injection
  <1>10. /\ \A i \in 1..n : g[i] = items[i].seq /\ vb[i] = items[i].batch.bytes /\ vr[i] = items[i].batch.rows
         /\ \A s \in S : h[s] = s - x + 1
    OBVIOUS
  <1>11. \A s \in S : ByteSizes(gone)[s] = gone[s].bytes /\ RowSizes(gone)[s] = gone[s].rows
    BY DEF ByteSizes, RowSizes
  <1>12. [i \in DOMAIN items |-> items[i].batch.bytes] = vb /\ [i \in DOMAIN items |-> items[i].batch.rows] = vr
    BY <1>1
  <1> HIDE DEF g, h, vb, vr, S, n
  <1>13. \A i \in 1..n : vb[i] = ByteSizes(gone)[g[i]] /\ vr[i] = RowSizes(gone)[g[i]]
    <2>1. ASSUME NEW i \in 1..n PROVE vb[i] = ByteSizes(gone)[g[i]] /\ vr[i] = RowSizes(gone)[g[i]]
      <3>1. g[i] = items[i].seq /\ g[i] \in S
        BY <1>6, <1>10
      <3>2. gone[g[i]] = items[i].batch
        BY <1>1, <3>1
      <3> QED BY <1>10, <1>11, <3>1, <3>2
    <2> QED BY <2>1
  <1>14. \A s \in S : ByteSizes(gone)[s] = vb[h[s]] /\ RowSizes(gone)[s] = vr[h[s]]
    <2>1. ASSUME NEW s \in S PROVE ByteSizes(gone)[s] = vb[h[s]] /\ RowSizes(gone)[s] = vr[h[s]]
      <3>1. h[s] \in 1..n /\ items[h[s]].seq = s
        BY <1>7, <1>10
      <3>2. gone[s] = items[h[s]].batch
        BY <1>1, <3>1
      <3> QED BY <1>10, <1>11, <3>1, <3>2
    <2> QED BY <2>1
  <1>15. SumOf(vb) = SumOf(ByteSizes(gone))
    <2> DEFINE w == ByteSizes(gone)
    <2>1. /\ IsFiniteWeight(vb) /\ IsFiniteWeight(w)
          /\ g \in Injection(DOMAIN vb, DOMAIN w) /\ h \in Injection(DOMAIN w, DOMAIN vb)
          /\ \A i \in DOMAIN vb : vb[i] = w[g[i]]
          /\ \A s \in DOMAIN w : w[s] = vb[h[s]]
      BY <1>4, <1>5, <1>8, <1>9, <1>13, <1>14
    <2> HIDE DEF w
    <2>2. SumOf(vb) = SumOf(w)
      BY <2>1, SumSame
    <2> QED BY <2>2 DEF w
  <1>16. SumOf(vr) = SumOf(RowSizes(gone))
    <2> DEFINE w == RowSizes(gone)
    <2>1. /\ IsFiniteWeight(vr) /\ IsFiniteWeight(w)
          /\ g \in Injection(DOMAIN vr, DOMAIN w) /\ h \in Injection(DOMAIN w, DOMAIN vr)
          /\ \A i \in DOMAIN vr : vr[i] = w[g[i]]
          /\ \A s \in DOMAIN w : w[s] = vr[h[s]]
      BY <1>4, <1>5, <1>8, <1>9, <1>13, <1>14
    <2> HIDE DEF w
    <2>2. SumOf(vr) = SumOf(w)
      BY <2>1, SumSame
    <2> QED BY <2>2 DEF w
  <1> QED BY <1>12, <1>15, <1>16

(* The items of a lease are all live or all gone. *)
LEMMA LeaseIsWhole ==
    ASSUME NEW r, NEW A, NEW L, RingInv(r, A, L), NEW l \in L, NEW items,
           DOMAIN items = DOMAIN l.items, \A i \in DOMAIN items : items[i].seq = l.items[i].seq
    PROVE  /\ ItemSeqs(items) = ItemSeqs(l.items) /\ DOMAIN items # {}
           /\ ItemSeqs(items) \intersect HeldSeqs(r) = {} => InFlightAt(r, items) = {}
           /\ ItemSeqs(items) \intersect HeldSeqs(r) # {} =>
                /\ InFlightAt(r, items) = DOMAIN items
                /\ ItemSeqs(items) \subseteq SeqsIn(r, "InFlight")
  <1>1. ItemSeqs(items) = ItemSeqs(l.items)
    BY DEF ItemSeqs
  <1>2. /\ \/ ItemSeqs(items) \subseteq SeqsIn(r, "InFlight")
           \/ ItemSeqs(items) \intersect HeldSeqs(r) = {}
        /\ ItemSeqs(items) # {}
    BY <1>1, LeaseTypes
  <1>3. DOMAIN items # {}
    BY <1>2 DEF ItemSeqs
  <1>4. ASSUME ItemSeqs(items) \intersect HeldSeqs(r) = {} PROVE InFlightAt(r, items) = {}
    BY <1>4 DEF InFlightAt, ItemSeqs, SeqsIn, HeldSeqs
  <1>5. ASSUME ItemSeqs(items) \intersect HeldSeqs(r) # {}
        PROVE  InFlightAt(r, items) = DOMAIN items /\ ItemSeqs(items) \subseteq SeqsIn(r, "InFlight")
    <2>1. ItemSeqs(items) \subseteq SeqsIn(r, "InFlight")
      BY <1>2, <1>5
    <2> QED BY <2>1 DEF InFlightAt, ItemSeqs
  <1> QED BY <1>1, <1>3, <1>4, <1>5

Acked(r, A, L, l, t) ==
    /\ RingInv(t, A, L \ {l}) /\ Shrinks(r, t) /\ SameFlags(r, t) /\ t.nextSeq = r.nextSeq
    /\ IF ItemSeqs(l.items) \intersect HeldSeqs(r) = {} THEN t = r
       ELSE /\ ItemSeqs(l.items) \subseteq SeqsIn(r, "InFlight")
            /\ t.slots = Without(r, ItemSeqs(l.items))
            /\ Advanced(r.committedSeq, t)

(* ack_entries: the lease's batches leave the ring. *)
LEMMA AckKeeps ==
    ASSUME NEW r, NEW A, NEW L, RingInv(r, A, L), NEW l \in L, NEW t, t = AckEntries(r, l.items)
    PROVE  Acked(r, A, L, l, t)
  <1> SUFFICES /\ RingInv(t, A, L \ {l}) /\ Shrinks(r, t) /\ SameFlags(r, t) /\ t.nextSeq = r.nextSeq
               /\ IF ItemSeqs(l.items) \intersect HeldSeqs(r) = {} THEN t = r
                  ELSE /\ ItemSeqs(l.items) \subseteq SeqsIn(r, "InFlight")
                       /\ t.slots = Without(r, ItemSeqs(l.items))
                       /\ Advanced(r.committedSeq, t)
    BY DEF Acked
  <1> DEFINE items == l.items
             X == ItemSeqs(items)
  <1>0. r \in Rings /\ IsFiniteSet(L)
    BY DEF RingInv, RingShapes
  <1>1. /\ DOMAIN items # {}
        /\ X \intersect HeldSeqs(r) = {} => InFlightAt(r, items) = {}
        /\ X \intersect HeldSeqs(r) # {} => /\ InFlightAt(r, items) = DOMAIN items
                                            /\ X \subseteq SeqsIn(r, "InFlight")
    BY LeaseIsWhole
  <1>2. /\ r.bytesInFlight \in Int /\ r.rowsInFlight \in Int /\ r.unreclaimedBytes \in Int
        /\ r.inflightLeases \in Int /\ HeldSeqs(r) \in SUBSET Seqs
    BY <1>0, RingTypes
  <1>3. CASE X \intersect HeldSeqs(r) = {}
    <2>1. t = RemoveSlots(r, X)
      BY <1>1, <1>3 DEF AckEntries
    <2>2. RemoveSlots(r, X) = [r EXCEPT !.slots = r.slots]
      <3> HIDE DEF X
      <3>1. Without(r, X) = r.slots /\ RemoveSlots(r, X) = [r EXCEPT !.slots = Without(r, X)]
        BY <1>0, <1>3, SlotsWithout
      <3> QED BY <3>1
    <2>3. [r EXCEPT !.slots = r.slots] = r
      BY <1>0 DEF Rings
    <2>4. t = r
      BY <2>1, <2>2, <2>3
    <2>5. RingInv(r, A, L \ {l})
      BY <1>3, LeaseEnds
    <2> QED BY <1>2, <1>3, <2>4, <2>5 DEF Shrinks, SameFlags
  <1>4. CASE X \intersect HeldSeqs(r) # {}
    <2>1. PICK z \in [HeldSeqs(r) -> Batches] : Sized(r, A, L, z) /\ Counts(r, L, z)
      BY DEF RingInv
    <2>2. X \subseteq SeqsIn(r, "InFlight") /\ X \in SUBSET HeldSeqs(r) /\ X \in SUBSET Seqs
      BY <1>1, <1>2, <1>4 DEF SeqsIn, HeldSeqs
    <2> DEFINE f == Without(r, X)
               gone == [s \in X |-> z[s]]
               bytes == r.bytesInFlight - SumOf(ByteSizes(gone))
               rows == r.rowsInFlight - SumOf(RowSizes(gone))
               live == r.inflightLeases - 1
               p == [r EXCEPT !.slots = f, !.bytesInFlight = bytes, !.rowsInFlight = rows,
                              !.inflightLeases = live]
    <2>3. gone \in [X -> Batches] /\ \A s \in X : gone[s] = z[s]
      BY <2>1, <2>2
    <2> HIDE DEF gone
    <2>4. SumOf(ByteSizes(gone)) \in Nat /\ SumOf(RowSizes(gone)) \in Nat
      <3> HIDE DEF X
      <3> QED BY <2>2, <2>3, SizeTypes
    <2>5. /\ SumOf([i \in DOMAIN items |-> items[i].batch.bytes]) = SumOf(ByteSizes(gone))
          /\ SumOf([i \in DOMAIN items |-> items[i].batch.rows]) = SumOf(RowSizes(gone))
      <3>1. items \in Seq(Items) /\ Consecutive(items)
        BY LeaseTypes
      <3>2. ASSUME NEW i \in DOMAIN items PROVE gone[items[i].seq] = items[i].batch
        <4>1. items[i].seq \in X /\ items[i] \in Entries(items)
          BY DEF ItemSeqs, Entries
        <4>2. z[items[i].seq] = items[i].batch
          BY <2>1, <2>2, <4>1 DEF Sized
        <4> QED BY <2>3, <4>1, <4>2
      <3> HIDE DEF items
      <3> QED BY <2>2, <2>3, <3>1, <3>2, LeaseSizes
    <2>6. f \in SlotMaps /\ RemoveSlots(r, X) = [r EXCEPT !.slots = f]
      BY <1>0, SlotsWithout
    <2>7. t = AdvanceWatermark(p)
      <3>1. t = AdvanceWatermark([RemoveSlots(r, X) EXCEPT
                     !.bytesInFlight = @ - SumOf([i \in DOMAIN items |-> items[i].batch.bytes]),
                     !.rowsInFlight = @ - SumOf([i \in DOMAIN items |-> items[i].batch.rows]),
                     !.inflightLeases = @ - 1])
        BY <1>1, <1>4 DEF AckEntries
      <3>2. t = AdvanceWatermark([RemoveSlots(r, X) EXCEPT
                     !.bytesInFlight = @ - SumOf(ByteSizes(gone)),
                     !.rowsInFlight = @ - SumOf(RowSizes(gone)),
                     !.inflightLeases = @ - 1])
        BY <2>5, <3>1
      <3> HIDE DEF f, X
      <3>3. [RemoveSlots(r, X) EXCEPT
                     !.bytesInFlight = @ - SumOf(ByteSizes(gone)),
                     !.rowsInFlight = @ - SumOf(RowSizes(gone)),
                     !.inflightLeases = @ - 1] = p
        BY <1>0, <2>6 DEF Rings
      <3> QED BY <3>2, <3>3
    <2>8. bytes \in Int /\ rows \in Int /\ live \in Int
      BY <1>2, <2>4
    <2> HIDE DEF f, bytes, rows, live, p
    <2>9. /\ p \in Rings /\ p.slots = f /\ p.bytesInFlight = bytes /\ p.rowsInFlight = rows
          /\ p.inflightLeases = live
          /\ p.queue = r.queue /\ p.nextSeq = r.nextSeq /\ p.committedSeq = r.committedSeq
          /\ p.unreclaimed = r.unreclaimed /\ p.unreclaimedBytes = r.unreclaimedBytes
          /\ SameFlags(r, p)
      BY <1>0, <2>6, <2>8 DEF Rings, SameFlags, p
    <2>10. RingInv(p, A, L \ {l})
      <3>1. ItemSeqs(p.queue) = ItemSeqs(r.queue) \ X /\ Ascends(p.queue)
        BY <2>2, <2>9 DEF RingInv, QueueAgrees, SeqsIn
      <3>2. \A m \in L \ {l} : ItemSeqs(m.items) \intersect X = {}
        BY LeaseTypes
      <3>3. \A m \in L \ (L \ {l}) : ItemSeqs(m.items) \intersect HeldSeqs(r) \subseteq X
        OBVIOUS
      <3>4. \A s \in DOMAIN p.unreclaimed : s < r.nextSeq /\ s \notin HeldSeqs(r) \ X
        BY <2>9 DEF RingInv, QueueAgrees
      <3>5. p.unreclaimedBytes = SumOf(p.unreclaimed)
        BY <2>1, <2>9 DEF Counts
      <3>6. p.inflightLeases = Cardinality(Live(r, L \ {l}))
        <4>1. ItemSeqs(l.items) \intersect SeqsIn(r, "InFlight") # {}
          BY <1>4, <2>2
        <4>2. Cardinality(Live(r, L \ {l})) = Cardinality(Live(r, L)) - 1
          BY <1>0, <4>1, LiveWithout
        <4> QED BY <2>1, <2>9, <4>2 DEF Counts, live
      <3>7. p.slots = [s \in HeldSeqs(r) \ X |-> r.slots[s]]
        BY <2>9 DEF f, Without
      <3>8. /\ p.bytesInFlight = r.bytesInFlight - SumOf(ByteSizes(gone))
            /\ p.rowsInFlight = r.rowsInFlight - SumOf(RowSizes(gone))
        BY <2>9 DEF bytes, rows
      <3>9. L \ {l} \in SUBSET L /\ A \in SUBSET A /\ \A c \in A : c.seq \in HeldSeqs(r) \ X => c \in A
        OBVIOUS
      <3>10. Removes(r, A, L, z, X, gone, p, A, L \ {l})
        <4> HIDE DEF X
        <4> QED BY <2>1, <2>2, <2>3, <2>9, <3>1, <3>2, <3>3, <3>4, <3>5, <3>6, <3>7, <3>8, <3>9 DEF Removes
      <3> QED BY <3>10, RemovalKeeps
    <2>11. Shrinks(r, p)
      <3>1. Charged(p) \subseteq Charged(r)
        BY <2>9 DEF Charged, f, Without, HeldSeqs
      <3> QED BY <1>2, <2>4, <2>9, <3>1 DEF Shrinks, bytes
    <2>12. /\ RingInv(t, A, L \ {l}) /\ SameQueue(p, t) /\ SameFlags(p, t)
           /\ Shrinks(p, t) /\ Advanced(p.committedSeq, t)
      BY <2>7, <2>10, WatermarkKeeps
    <2>13. Shrinks(r, t)
      <3>1. t \in Rings
        BY <2>12 DEF RingInv, RingShapes
      <3> QED BY <1>0, <2>9, <2>11, <2>12, <3>1, ShrinksOn
    <2>14. /\ SameFlags(r, t) /\ t.nextSeq = r.nextSeq /\ t.slots = f /\ Advanced(r.committedSeq, t)
      BY <2>9, <2>12 DEF SameQueue, SameFlags
    <2> QED BY <1>4, <2>2, <2>12, <2>13, <2>14 DEF f
  <1> QED BY <1>3, <1>4

(* The same batches, with other retry marks. *)
SameBatches(items, old) ==
    /\ DOMAIN items = DOMAIN old
    /\ \A i \in DOMAIN items : items[i].seq = old[i].seq /\ items[i].batch = old[i].batch

Returned(r, A, L, l, t) ==
    /\ RingInv(t, A, L \ {l}) /\ SameFlags(r, t)
    /\ t.nextSeq = r.nextSeq /\ t.committedSeq = r.committedSeq
    /\ t.bytesInFlight = r.bytesInFlight
    /\ t.unreclaimed = r.unreclaimed /\ t.unreclaimedBytes = r.unreclaimedBytes
    /\ IF ItemSeqs(l.items) \intersect HeldSeqs(r) = {} THEN t = r
       ELSE /\ ItemSeqs(l.items) \subseteq SeqsIn(r, "InFlight")
            /\ t.slots = Put(r, ItemSeqs(l.items), "Queued")

(* requeue_at_head: the lease's batches take their places in the queue again. *)
LEMMA RequeueKeeps ==
    ASSUME NEW r, NEW A, NEW L, RingInv(r, A, L), NEW l \in L, NEW items \in Seq(Items),
           SameBatches(items, l.items),
           NEW attempt \in Nat, NEW readyAt \in {0} \union Seqs,
           NEW t, t = RequeueAtHead(r, items, attempt, readyAt)
    PROVE  Returned(r, A, L, l, t)
  <1> SUFFICES ASSUME DOMAIN items = DOMAIN l.items,
                      \A i \in DOMAIN items : /\ items[i].seq = l.items[i].seq
                                              /\ items[i].batch = l.items[i].batch
               PROVE  /\ RingInv(t, A, L \ {l}) /\ SameFlags(r, t)
                      /\ t.nextSeq = r.nextSeq /\ t.committedSeq = r.committedSeq
                      /\ t.bytesInFlight = r.bytesInFlight
                      /\ t.unreclaimed = r.unreclaimed /\ t.unreclaimedBytes = r.unreclaimedBytes
                      /\ IF ItemSeqs(l.items) \intersect HeldSeqs(r) = {} THEN t = r
                         ELSE /\ ItemSeqs(l.items) \subseteq SeqsIn(r, "InFlight")
                              /\ t.slots = Put(r, ItemSeqs(l.items), "Queued")
    BY DEF Returned, SameBatches
  <1> DEFINE X == ItemSeqs(l.items)
             live == InFlightAt(r, items)
  <1>0. r \in Rings /\ MaxSeq \in Nat /\ A \subseteq Reservations /\ L \subseteq Grants /\ IsFiniteSet(L)
    BY ConstantTypes DEF RingInv, RingShapes
  <1>1. /\ ItemSeqs(items) = X /\ DOMAIN items # {}
        /\ X \intersect HeldSeqs(r) = {} => live = {}
        /\ X \intersect HeldSeqs(r) # {} => live = DOMAIN items /\ X \subseteq SeqsIn(r, "InFlight")
    BY LeaseIsWhole
  <1>2. CASE X \intersect HeldSeqs(r) = {}
    <2>1. t = r
      BY <1>1, <1>2 DEF RequeueAtHead
    <2>2. RingInv(r, A, L \ {l})
      BY <1>2, LeaseEnds
    <2> QED BY <1>2, <2>1, <2>2 DEF SameFlags
  <1>3. CASE X \intersect HeldSeqs(r) # {}
    <2> DEFINE q == Requeued(r.queue, items, DOMAIN items, attempt, readyAt)
               f == Put(r, X, "Queued")
               n == r.inflightLeases - 1
    <2>1. live = DOMAIN items /\ X \subseteq SeqsIn(r, "InFlight") /\ X \subseteq HeldSeqs(r)
      BY <1>1, <1>3 DEF SeqsIn, HeldSeqs
    <2>2. /\ r.queue \in Seq(Items) /\ HeldSeqs(r) \in SUBSET Seqs /\ r.inflightLeases \in Int
      BY <1>0, RingTypes
    <2>3. X \in SUBSET Seqs
      BY <2>1, <2>2
    <2>4. f \in SlotMaps /\ SetSlots(r, X, "Queued") = [r EXCEPT !.slots = f]
      <3> HIDE DEF X
      <3> QED BY <1>0, <2>3, PutSlots
    <2>5. t = [r EXCEPT !.slots = f, !.queue = q, !.inflightLeases = n]
      <3>1. {items[i].seq : i \in DOMAIN items} = X
        BY <1>1 DEF ItemSeqs
      <3>2. t = [SetSlots(r, X, "Queued") EXCEPT
                   !.queue = Requeued(@, items, DOMAIN items, attempt, readyAt),
                   !.inflightLeases = @ - 1]
        BY <1>1, <2>1, <3>1 DEF RequeueAtHead
      <3> HIDE DEF f, X
      <3> QED BY <1>0, <2>4, <3>2 DEF Rings
    <2>6. /\ Ascends(r.queue) /\ ItemSeqs(r.queue) = SeqsIn(r, "Queued")
          /\ \A s \in HeldSeqs(r) : s < r.nextSeq
          /\ \A s \in DOMAIN r.unreclaimed : s < r.nextSeq /\ s \notin HeldSeqs(r)
      BY DEF RingInv, QueueAgrees
    <2>7. /\ q \in Seq(Items) /\ Ascends(q)
          /\ Entries(q) = Entries(r.queue) \union {Again(items[i], attempt, readyAt) : i \in DOMAIN items}
      <3>1. \A i, j \in DOMAIN items : items[i].seq = items[j].seq => i = j
        <4>1. l.items \in Seq(Items) /\ Consecutive(l.items)
          BY LeaseTypes
        <4>2. \A i, j \in DOMAIN l.items : l.items[i].seq = l.items[j].seq => i = j
          BY <4>1, RunOfItems, ZenonT(60)
        <4> QED BY <4>2
      <3>2. \A i \in DOMAIN items : items[i].seq \notin ItemSeqs(r.queue)
        <4>1. \A i \in DOMAIN items : items[i].seq \in X
          BY DEF ItemSeqs
        <4> QED BY <2>1, <2>6, <4>1 DEF SeqsIn
      <3>3. CanRequeue(r.queue, items, DOMAIN items, attempt, readyAt)
        BY <2>2, <2>6, <3>1, <3>2 DEF CanRequeue
      <3>4. /\ q \in Seq(Items) /\ Ascends(q)
            /\ Entries(q) = Entries(r.queue) \union PutBack(items, DOMAIN items, attempt, readyAt)
        BY <1>0, <3>3, RequeuedInOrder
      <3> QED BY <3>4 DEF PutBack
    <2>8. ASSUME NEW i \in DOMAIN items
          PROVE  /\ Again(items[i], attempt, readyAt).seq = l.items[i].seq
                 /\ Again(items[i], attempt, readyAt).batch = l.items[i].batch
      <3>1. items[i] \in Items
        BY ElementOfSeq, LenProperties
      <3> QED BY <3>1 DEF Again, Items
    <2>9. n \in Int
      BY <2>2
    <2> HIDE DEF q, f, n
    <2>10. /\ t \in Rings /\ t.slots = f /\ t.queue = q /\ t.inflightLeases = n
           /\ t.nextSeq = r.nextSeq /\ t.committedSeq = r.committedSeq
           /\ t.bytesInFlight = r.bytesInFlight /\ t.rowsInFlight = r.rowsInFlight
           /\ t.unreclaimed = r.unreclaimed /\ t.unreclaimedBytes = r.unreclaimedBytes
           /\ SameFlags(r, t)
      BY <1>0, <2>4, <2>5, <2>7, <2>9, ZenonT(60) DEF Rings, SameFlags
    <2>11. /\ HeldSeqs(t) = HeldSeqs(r) /\ SeqsIn(t, "Queued") = SeqsIn(r, "Queued") \union X
           /\ SeqsIn(t, "Reserved") = SeqsIn(r, "Reserved")
           /\ SeqsIn(t, "InFlight") = SeqsIn(r, "InFlight") \ X
           /\ \A s \in HeldSeqs(r) \ X : t.slots[s] = r.slots[s]
      <3>1. SlotsMoved(r, X, "Queued", t)
        <4>1. t.slots = Put(r, X, "Queued")
          BY <2>10 DEF f
        <4> HIDE DEF X
        <4> QED BY <4>1, SlotsPut
      <3>2. SeqsIn(r, "Reserved") \ X = SeqsIn(r, "Reserved")
        BY <2>1 DEF SeqsIn
      <3> HIDE DEF X
      <3> QED BY <2>1, <3>1, <3>2 DEF SlotsMoved
    <2>12. RingShapes(t, A, L \ {l})
      <3>1. IsFiniteSet(L \ {l})
        BY <1>0, FS_Subset
      <3> QED BY <1>0, <2>10, <3>1 DEF RingShapes
    <2>13. QueueAgrees(t)
      <3>1. ItemSeqs(q) = ItemSeqs(r.queue) \union X
        <4>1. ItemSeqs(q) = {e.seq : e \in Entries(q)} /\ ItemSeqs(r.queue) = {e.seq : e \in Entries(r.queue)}
          BY EntrySeqs
        <4>2. {e.seq : e \in {Again(items[i], attempt, readyAt) : i \in DOMAIN items}} = X
          BY <2>8 DEF ItemSeqs
        <4>3. {e.seq : e \in Entries(q)} = {e.seq : e \in Entries(r.queue)} \union
                  {e.seq : e \in {Again(items[i], attempt, readyAt) : i \in DOMAIN items}}
          BY <2>7
        <4> QED BY <4>1, <4>2, <4>3
      <3> QED BY <2>6, <2>7, <2>10, <2>11, <3>1 DEF QueueAgrees
    <2>14. AppendsAgree(t, A)
      <3>1. AppendsAgree(r, A)
        BY DEF RingInv
      <3>2. \A a \in A : a.seq \in HeldSeqs(t) => t.slots[a.seq] = "Reserved"
        <4>1. ASSUME NEW a \in A, a.seq \in HeldSeqs(t) PROVE t.slots[a.seq] = "Reserved"
          <5>1. a.seq \in SeqsIn(r, "Reserved")
            BY <2>11, <3>1, <4>1 DEF AppendsAgree, SeqsIn, HeldSeqs
          <5>2. a.seq \in SeqsIn(t, "Reserved")
            BY <2>11, <5>1
          <5> QED BY <5>2 DEF SeqsIn
        <4> QED BY <4>1
      <3> QED BY <2>10, <2>11, <3>1, <3>2 DEF AppendsAgree
    <2>15. LeasesAgree(t, L \ {l})
      <3>1. LeasesAgree(r, L)
        BY DEF RingInv
      <3>2. \A m \in L \ {l} : ItemSeqs(m.items) \intersect X = {}
        BY LeaseTypes
      <3>3. ASSUME NEW m \in L \ {l}
            PROVE  /\ Consecutive(m.items) /\ \A s \in ItemSeqs(m.items) : s < t.nextSeq
                   /\ \/ ItemSeqs(m.items) \subseteq SeqsIn(t, "InFlight")
                      \/ ItemSeqs(m.items) \intersect HeldSeqs(t) = {}
        <4>1. /\ Consecutive(m.items) /\ \A s \in ItemSeqs(m.items) : s < r.nextSeq
              /\ \/ ItemSeqs(m.items) \subseteq SeqsIn(r, "InFlight")
                 \/ ItemSeqs(m.items) \intersect HeldSeqs(r) = {}
          BY <3>1 DEF LeasesAgree
        <4>2. ItemSeqs(m.items) \subseteq SeqsIn(r, "InFlight") => ItemSeqs(m.items) \subseteq SeqsIn(t, "InFlight")
          BY <2>11, <3>2
        <4> QED BY <2>10, <2>11, <4>1, <4>2
      <3>4. \A m, o \in L \ {l} : m # o => ItemSeqs(m.items) \intersect ItemSeqs(o.items) = {}
        BY <3>1 DEF LeasesAgree
      <3>5. ASSUME NEW s \in SeqsIn(t, "InFlight") PROVE \E m \in L \ {l} : s \in ItemSeqs(m.items)
        <4>1. s \in SeqsIn(r, "InFlight") /\ s \notin X
          BY <2>11
        <4>2. PICK m \in L : s \in ItemSeqs(m.items)
          BY <3>1, <4>1 DEF LeasesAgree
        <4> QED BY <4>1, <4>2
      <3> QED BY <3>3, <3>4, <3>5 DEF LeasesAgree
    <2>16. PICK z \in [HeldSeqs(r) -> Batches] : Sized(r, A, L, z) /\ Counts(r, L, z)
      BY DEF RingInv
    <2>17. Sized(t, A, L \ {l}, z)
      <3>1. ASSUME NEW e \in Entries(q) PROVE z[e.seq] = e.batch
        <4>1. CASE e \in Entries(r.queue)
          BY <2>16, <4>1 DEF Sized
        <4>2. CASE e \in {Again(items[i], attempt, readyAt) : i \in DOMAIN items}
          <5>1. PICK i \in DOMAIN items : e = Again(items[i], attempt, readyAt)
            BY <4>2
          <5>2. e.seq = l.items[i].seq /\ e.batch = l.items[i].batch
            BY <2>8, <5>1
          <5>3. l.items[i] \in Entries(l.items) /\ l.items[i].seq \in X
            BY DEF Entries, ItemSeqs
          <5>4. l.items[i].seq \in HeldSeqs(r)
            BY <2>1, <5>3
          <5>5. z[l.items[i].seq] = l.items[i].batch
            BY <2>16, <5>3, <5>4 DEF Sized
          <5> QED BY <5>2, <5>5
        <4> QED BY <2>7, <4>1, <4>2
      <3>2. \A a \in A : a.seq \in HeldSeqs(t) => z[a.seq] = a.batch
        BY <2>11, <2>16 DEF Sized
      <3>3. \A m \in L \ {l} : \A e \in Entries(m.items) : e.seq \in HeldSeqs(t) => z[e.seq] = e.batch
        BY <2>11, <2>16 DEF Sized
      <3> QED BY <2>10, <2>11, <2>16, <3>1, <3>2, <3>3 DEF Sized
    <2>18. Counts(t, L \ {l}, z)
      <3>1. Live(t, L \ {l}) = Live(r, L \ {l})
        <4>1. \A m \in L \ {l} : ItemSeqs(m.items) \intersect SeqsIn(t, "InFlight") =
                                 ItemSeqs(m.items) \intersect SeqsIn(r, "InFlight")
          <5>1. \A m \in L \ {l} : ItemSeqs(m.items) \intersect X = {}
            BY LeaseTypes
          <5> QED BY <2>11, <5>1
        <4> QED BY <4>1 DEF Live
      <3>2. ItemSeqs(l.items) \intersect SeqsIn(r, "InFlight") # {}
        BY <1>3, <2>1
      <3>3. Cardinality(Live(r, L \ {l})) = Cardinality(Live(r, L)) - 1
        BY <1>0, <3>2, LiveWithout
      <3> QED BY <2>10, <2>16, <3>1, <3>3 DEF Counts, n
    <2>19. RingInv(t, A, L \ {l})
      BY <2>11, <2>12, <2>13, <2>14, <2>15, <2>16, <2>17, <2>18 DEF RingInv
    <2> QED BY <1>3, <2>1, <2>10, <2>19 DEF f
  <1> QED BY <1>2, <1>3

Leased(r, n, items) ==
    [SetSlots(r, ItemSeqs(items), "InFlight") EXCEPT
        !.queue = SubSeq(@, n + 1, Len(@)), !.inflightLeases = @ + 1]

Granted(items, attempt) == [items |-> items, attempt |-> attempt, phase |-> "held"]

Popped(r, A, L, items, l, t) ==
    /\ RingInv(t, A, L \union {l}) /\ SameFlags(r, t)
    /\ t.nextSeq = r.nextSeq /\ t.committedSeq = r.committedSeq
    /\ t.bytesInFlight = r.bytesInFlight
    /\ t.unreclaimed = r.unreclaimed /\ t.unreclaimedBytes = r.unreclaimedBytes
    /\ ItemSeqs(items) \subseteq SeqsIn(r, "Queued")
    /\ t.slots = Put(r, ItemSeqs(items), "InFlight")
    /\ Live(t, L \union {l}) = Live(r, L) \union {l}
    /\ \A s \in SeqsIn(r, "Queued") \ ItemSeqs(items) : \A x \in ItemSeqs(items) : x < s

(* try_pop_signal_lease: the n oldest queued batches become a lease. *)
LEMMA PopKeeps ==
    ASSUME NEW r, NEW A, NEW L, RingInv(r, A, L), NEW n \in 1..Len(r.queue),
           NEW items, items = SubSeq(r.queue, 1, n), Consecutive(items), NEW attempt \in Nat,
           NEW l, l = Granted(items, attempt), NEW t, t = Leased(r, n, items)
    PROVE  Popped(r, A, L, items, l, t)
  <1> SUFFICES ASSUME l = [items |-> items, attempt |-> attempt, phase |-> "held"]
               PROVE
               /\ RingInv(t, A, L \union {l}) /\ SameFlags(r, t)
               /\ t.nextSeq = r.nextSeq /\ t.committedSeq = r.committedSeq
               /\ t.bytesInFlight = r.bytesInFlight
               /\ t.unreclaimed = r.unreclaimed /\ t.unreclaimedBytes = r.unreclaimedBytes
               /\ ItemSeqs(items) \subseteq SeqsIn(r, "Queued")
               /\ t.slots = Put(r, ItemSeqs(items), "InFlight")
               /\ Live(t, L \union {l}) = Live(r, L) \union {l}
               /\ \A s \in SeqsIn(r, "Queued") \ ItemSeqs(items) : \A x \in ItemSeqs(items) : x < s
    BY DEF Popped, Granted
  <1> DEFINE X == ItemSeqs(items)
             q == SubSeq(r.queue, n + 1, Len(r.queue))
             f == Put(r, X, "InFlight")
             c == r.inflightLeases + 1
  <1>0. r \in Rings /\ MaxSeq \in Nat /\ A \subseteq Reservations /\ L \subseteq Grants /\ IsFiniteSet(L)
    BY ConstantTypes DEF RingInv, RingShapes
  <1>1. /\ r.queue \in Seq(Items) /\ HeldSeqs(r) \in SUBSET Seqs /\ r.inflightLeases \in Int
        /\ Len(r.queue) \in Nat
    BY <1>0, RingTypes
  <1>2. /\ Ascends(r.queue) /\ ItemSeqs(r.queue) = SeqsIn(r, "Queued")
        /\ \A s \in HeldSeqs(r) : s < r.nextSeq
        /\ \A s \in DOMAIN r.unreclaimed : s < r.nextSeq /\ s \notin HeldSeqs(r)
    BY DEF RingInv, QueueAgrees
  <1>3. n \in 0..Len(r.queue)
    BY <1>1
  <1>4. /\ items \in Seq(Items)
        /\ q \in Seq(Items) /\ Ascends(q)
        /\ Entries(r.queue) = Entries(items) \union Entries(q)
        /\ X \subseteq ItemSeqs(r.queue) /\ ItemSeqs(q) = ItemSeqs(r.queue) \ X
        /\ \A x \in X, s \in ItemSeqs(q) : x < s
    BY <1>0, <1>1, <1>2, <1>3, QueueCut
  <1>5. X # {}
    BY <1>4, RunOfItems
  <1>6. X \subseteq SeqsIn(r, "Queued") /\ X \subseteq HeldSeqs(r) /\ X \in SUBSET Seqs
    BY <1>1, <1>2, <1>4 DEF SeqsIn, HeldSeqs
  <1>7. f \in SlotMaps /\ t = [r EXCEPT !.slots = f, !.queue = q, !.inflightLeases = c]
    <2> HIDE DEF X
    <2>1. f \in SlotMaps /\ SetSlots(r, X, "InFlight") = [r EXCEPT !.slots = f]
      BY <1>0, <1>6, PutSlots
    <2>2. t = [SetSlots(r, X, "InFlight") EXCEPT
                 !.queue = SubSeq(@, n + 1, Len(@)), !.inflightLeases = @ + 1]
      BY DEF X, Leased
    <2> HIDE DEF f
    <2> QED BY <1>0, <2>1, <2>2 DEF Rings
  <1>8. c \in Int
    BY <1>1
  <1> HIDE DEF q, f, c
  <1>9. /\ t \in Rings /\ t.slots = f /\ t.queue = q /\ t.inflightLeases = c
        /\ t.nextSeq = r.nextSeq /\ t.committedSeq = r.committedSeq
        /\ t.bytesInFlight = r.bytesInFlight /\ t.rowsInFlight = r.rowsInFlight
        /\ t.unreclaimed = r.unreclaimed /\ t.unreclaimedBytes = r.unreclaimedBytes
        /\ SameFlags(r, t)
    BY <1>0, <1>4, <1>7, <1>8, ZenonT(60) DEF Rings, SameFlags
  <1>10. /\ HeldSeqs(t) = HeldSeqs(r) /\ SeqsIn(t, "Queued") = SeqsIn(r, "Queued") \ X
         /\ SeqsIn(t, "Reserved") = SeqsIn(r, "Reserved")
         /\ SeqsIn(t, "InFlight") = SeqsIn(r, "InFlight") \union X
    <2>1. SlotsMoved(r, X, "InFlight", t)
      <3>1. t.slots = Put(r, X, "InFlight")
        BY <1>9 DEF f
      <3> HIDE DEF X
      <3> QED BY <3>1, SlotsPut
    <2>2. SeqsIn(r, "Reserved") \ X = SeqsIn(r, "Reserved")
      BY <1>6 DEF SeqsIn
    <2> HIDE DEF X
    <2> QED BY <1>6, <2>1, <2>2 DEF SlotsMoved
  <1>11. l \in Grants /\ l.items = items
    BY <1>4 DEF Grants, Granted
  <1>12. RingShapes(t, A, L \union {l})
    <2>1. IsFiniteSet(L \union {l})
      BY <1>0, FS_AddElement
    <2> QED BY <1>0, <1>9, <1>11, <2>1 DEF RingShapes
  <1>13. QueueAgrees(t)
    BY <1>2, <1>4, <1>9, <1>10 DEF QueueAgrees
  <1>14. AppendsAgree(t, A)
    <2>1. AppendsAgree(r, A)
      BY DEF RingInv
    <2>2. ASSUME NEW a \in A, a.seq \in HeldSeqs(t) PROVE t.slots[a.seq] = "Reserved"
      <3>1. a.seq \in SeqsIn(r, "Reserved")
        BY <1>10, <2>1, <2>2 DEF AppendsAgree, SeqsIn, HeldSeqs
      <3>2. a.seq \in SeqsIn(t, "Reserved")
        BY <1>10, <3>1
      <3> QED BY <3>2 DEF SeqsIn
    <2> QED BY <1>9, <1>10, <2>1, <2>2 DEF AppendsAgree
  <1>15. LeasesAgree(r, L)
    BY DEF RingInv
  <1>16. \A m \in L : ItemSeqs(m.items) \intersect X = {}
    BY <1>6, <1>15 DEF LeasesAgree, SeqsIn
  <1>17. l \notin L
    BY <1>5, <1>11, <1>16
  <1>18. LeasesAgree(t, L \union {l})
    <2>1. ASSUME NEW m \in L \union {l}
          PROVE  /\ Consecutive(m.items) /\ \A s \in ItemSeqs(m.items) : s < t.nextSeq
                 /\ \/ ItemSeqs(m.items) \subseteq SeqsIn(t, "InFlight")
                    \/ ItemSeqs(m.items) \intersect HeldSeqs(t) = {}
      <3>1. CASE m \in L
        <4>1. /\ Consecutive(m.items) /\ \A s \in ItemSeqs(m.items) : s < r.nextSeq
              /\ \/ ItemSeqs(m.items) \subseteq SeqsIn(r, "InFlight")
                 \/ ItemSeqs(m.items) \intersect HeldSeqs(r) = {}
          BY <1>15, <3>1 DEF LeasesAgree
        <4> QED BY <1>9, <1>10, <4>1
      <3>2. CASE m = l
        BY <1>2, <1>6, <1>9, <1>10, <1>11, <3>2
      <3> QED BY <3>1, <3>2
    <2>2. \A m, o \in L \union {l} : m # o => ItemSeqs(m.items) \intersect ItemSeqs(o.items) = {}
      <3>1. \A m, o \in L : m # o => ItemSeqs(m.items) \intersect ItemSeqs(o.items) = {}
        BY <1>15 DEF LeasesAgree
      <3>2. ItemSeqs(l.items) = X
        BY <1>11
      <3> HIDE DEF X
      <3> QED BY <1>16, <3>1, <3>2
    <2>3. ASSUME NEW s \in SeqsIn(t, "InFlight") PROVE \E m \in L \union {l} : s \in ItemSeqs(m.items)
      <3>1. CASE s \in X
        BY <1>11, <3>1
      <3>2. CASE s \in SeqsIn(r, "InFlight")
        BY <1>15, <3>2 DEF LeasesAgree
      <3> QED BY <1>10, <3>1, <3>2
    <2> QED BY <2>1, <2>2, <2>3 DEF LeasesAgree
  <1>19. PICK z \in [HeldSeqs(r) -> Batches] : Sized(r, A, L, z) /\ Counts(r, L, z)
    BY DEF RingInv
  <1>20. Sized(t, A, L \union {l}, z)
    <2>1. \A e \in Entries(q) : z[e.seq] = e.batch
      BY <1>4, <1>19 DEF Sized
    <2>2. \A e \in Entries(l.items) : z[e.seq] = e.batch
      BY <1>4, <1>11, <1>19 DEF Sized
    <2>3. \A m \in L : \A e \in Entries(m.items) : e.seq \in HeldSeqs(t) => z[e.seq] = e.batch
      BY <1>10, <1>19 DEF Sized
    <2>4. \A a \in A : a.seq \in HeldSeqs(t) => z[a.seq] = a.batch
      BY <1>10, <1>19 DEF Sized
    <2> QED BY <1>9, <1>10, <1>19, <2>1, <2>2, <2>3, <2>4 DEF Sized
  <1>21. Live(t, L \union {l}) = Live(r, L) \union {l}
    <2>1. \A m \in L : ItemSeqs(m.items) \intersect SeqsIn(t, "InFlight") =
                       ItemSeqs(m.items) \intersect SeqsIn(r, "InFlight")
      BY <1>10, <1>16
    <2>2. ItemSeqs(l.items) \intersect SeqsIn(t, "InFlight") # {}
      BY <1>5, <1>10, <1>11
    <2> QED BY <2>1, <2>2 DEF Live
  <1>22. Counts(t, L \union {l}, z)
    <2>1. IsFiniteSet(Live(r, L)) /\ l \notin Live(r, L)
      <3>1. Live(r, L) \subseteq L
        BY DEF Live
      <3> QED BY <1>0, <1>17, <3>1, FS_Subset
    <2>2. Cardinality(Live(r, L) \union {l}) = Cardinality(Live(r, L)) + 1
      BY <2>1, FS_AddElement
    <2> QED BY <1>9, <1>19, <1>21, <2>2 DEF Counts, c
  <1>23. RingInv(t, A, L \union {l})
    BY <1>10, <1>12, <1>13, <1>14, <1>18, <1>19, <1>20, <1>22 DEF RingInv
  <1> QED BY <1>2, <1>4, <1>6, <1>9, <1>21, <1>23 DEF f

(* What coalescing takes is at least the front, and has no gap. *)
LEMMA CoalescedRun ==
    ASSUME NEW q \in Seq(Items), q # <<>>
    PROVE  /\ CoalesceCount(q) \in 1..Len(q)
           /\ Consecutive(SubSeq(q, 1, CoalesceCount(q)))
  <1> DEFINE m == Len(q)
             S == {n \in 1..m : \A k \in 2..n : Coalesces(q, k)}
             n == CoalesceCount(q)
             items == SubSeq(q, 1, n)
             x == q[1].seq
  <1>0. m \in Nat /\ m # 0 /\ DOMAIN q = 1..m /\ \A i \in 1..m : q[i] \in Items /\ q[i].seq \in Nat
    <2>1. m \in Nat /\ DOMAIN q = 1..m /\ \A i \in 1..m : q[i] \in Items
      BY ElementOfSeq, LenProperties
    <2>2. m # 0
      BY EmptySeq
    <2> QED BY <2>1, <2>2, ConstantTypes DEF Items
  <1>1. 1 \in S /\ S \in SUBSET (0..m)
    BY <1>0
  <1>2. n \in S
    <2>1. Max(S) \in S
      <3> HIDE DEF S, m
      <3> QED BY <1>0, <1>1, MaxIsGreatest
    <2> QED BY <2>1 DEF CoalesceCount
  <1>3. n \in 1..m /\ \A k \in 2..n : q[k].seq = q[k - 1].seq + 1
    BY <1>2 DEF Coalesces
  <1> HIDE DEF n, m
  <1>4. \A i \in 1..n : q[i].seq = x + i - 1
    <2> DEFINE T == {k \in 0..(n - 1) : q[k + 1].seq = x + k}
    <2>1. 0 \in T
      BY <1>0, <1>3
    <2>2. ASSUME NEW k \in 0..(n - 1 - 1), k \in T PROVE k + 1 \in T
      <3>1. k + 1 \in 0..(n - 1) /\ (k + 1) + 1 \in 2..n /\ ((k + 1) + 1) - 1 = k + 1
        BY <1>0, <1>3
      <3>2. q[(k + 1) + 1].seq = q[k + 1].seq + 1
        BY <1>3, <3>1
      <3>3. q[k + 1].seq = x + k
        BY <2>2
      <3>4. x \in Nat /\ k \in Int
        BY <1>0, <1>3
      <3>5. x + k + 1 = x + (k + 1)
        <4> HIDE DEF x
        <4> QED BY <3>4
      <3> QED BY <3>1, <3>2, <3>3, <3>5
    <2>3. ASSUME NEW i \in 1..n PROVE q[i].seq = x + i - 1
      <3> DEFINE j == i - 1
      <3>1. j \in Nat /\ j \in 0..(n - 1) /\ j + 1 = i
        BY <1>0, <1>3
      <3>2. \A k \in 0..(j - 1) : k \in 0..(n - 1 - 1)
        BY <1>0, <1>3, <3>1
      <3>3. \A k \in 0..(j - 1) : k \in T => k + 1 \in T
        BY <2>2, <3>2
      <3>4. j \in T
        <4> HIDE DEF T, j
        <4> QED BY <2>1, <3>1, <3>3, UpTo
      <3>5. q[i].seq = x + j
        BY <3>1, <3>4
      <3> QED BY <1>0, <1>3, <3>1, <3>5
    <2> QED BY <2>3
  <1>5. /\ items \in Seq(Items) /\ Len(items) = n /\ DOMAIN items = 1..n
        /\ \A i \in 1..n : items[i] = q[i]
    <2>1. 1 \in Int /\ n \in Int /\ \A i \in 1..n : q[i] \in Items
      BY <1>0, <1>3
    <2>2. /\ items \in Seq(Items) /\ Len(items) = IF 1 <= n THEN n - 1 + 1 ELSE 0
          /\ \A i \in 1..(n - 1 + 1) : items[i] = q[1 + i - 1]
      BY <2>1, SubSeqProperties
    <2>3. DOMAIN items = 1..Len(items)
      BY <2>2, LenProperties
    <2> HIDE DEF items
    <2>4. \A i \in 1..n : items[i] = q[1 + i - 1] /\ 1 + i - 1 = i
      BY <1>0, <1>3, <2>2
    <2> QED BY <1>0, <1>3, <2>2, <2>3, <2>4
  <1> HIDE DEF items
  <1>6. items # <<>> /\ 1 \in 1..n
    <2>1. Len(items) # 0 /\ 1 \in 1..n
      BY <1>0, <1>3, <1>5
    <2> QED BY <2>1, EmptySeq
  <1>7. \A i \in DOMAIN items : items[i].seq = items[1].seq + i - 1
    BY <1>4, <1>5, <1>6
  <1> QED BY <1>3, <1>6, <1>7 DEF Consecutive, items, n, m

(* A lease that goes on to be quarantined holds what it held. *)
LEMMA RegrantKeeps ==
    ASSUME NEW r, NEW A, NEW L, RingInv(r, A, L), NEW l \in L, l.phase = "held",
           NEW m, m = [l EXCEPT !.phase = "quarantining"]
    PROVE  /\ RingInv(r, A, (L \ {l}) \union {m})
           /\ m.items = l.items
  <1> DEFINE M == (L \ {l}) \union {m}
             X == ItemSeqs(l.items)
  <1>0. L \subseteq Grants /\ IsFiniteSet(L) /\ l \in Grants
    BY DEF RingInv, RingShapes
  <1>1. m \in Grants /\ m.items = l.items /\ m # l
    BY <1>0 DEF Grants
  <1>2. X # {} /\ \A o \in L : o # l => X \intersect ItemSeqs(o.items) = {}
    BY LeaseTypes
  <1>3. m \notin L
    BY <1>1, <1>2
  <1>4. IsFiniteSet(L \ {l}) /\ IsFiniteSet(M)
    <2>1. IsFiniteSet(L \ {l})
      BY <1>0, FS_Subset
    <2> QED BY <2>1, FS_AddElement
  <1>5. RingShapes(r, A, M)
    BY <1>0, <1>1, <1>4 DEF RingInv, RingShapes
  <1>6. LeasesAgree(r, M)
    <2>1. LeasesAgree(r, L)
      BY DEF RingInv
    <2>2. \A o \in M : \E k \in L : o.items = k.items
      BY <1>1
    <2>3. \A o \in M : /\ Consecutive(o.items) /\ \A s \in ItemSeqs(o.items) : s < r.nextSeq
                       /\ \/ ItemSeqs(o.items) \subseteq SeqsIn(r, "InFlight")
                          \/ ItemSeqs(o.items) \intersect HeldSeqs(r) = {}
      <3>1. ASSUME NEW o \in M
            PROVE  /\ Consecutive(o.items) /\ \A s \in ItemSeqs(o.items) : s < r.nextSeq
                   /\ \/ ItemSeqs(o.items) \subseteq SeqsIn(r, "InFlight")
                      \/ ItemSeqs(o.items) \intersect HeldSeqs(r) = {}
        <4>1. PICK k \in L : o.items = k.items
          BY <2>2
        <4>2. /\ Consecutive(k.items) /\ \A s \in ItemSeqs(k.items) : s < r.nextSeq
              /\ \/ ItemSeqs(k.items) \subseteq SeqsIn(r, "InFlight")
                 \/ ItemSeqs(k.items) \intersect HeldSeqs(r) = {}
          BY <2>1 DEF LeasesAgree
        <4> QED BY <4>1, <4>2
      <3> QED BY <3>1
    <2>4. ASSUME NEW o \in M, NEW k \in M, o # k PROVE ItemSeqs(o.items) \intersect ItemSeqs(k.items) = {}
      <3>1. CASE o = m
        <4>1. k \in L /\ k # l
          BY <2>4, <3>1
        <4> QED BY <1>1, <1>2, <3>1, <4>1
      <3>2. CASE k = m
        <4>1. o \in L /\ o # l
          BY <2>4, <3>2
        <4> QED BY <1>1, <1>2, <3>2, <4>1
      <3>3. CASE o # m /\ k # m
        <4>1. o \in L /\ k \in L
          BY <3>3
        <4> QED BY <2>1, <2>4, <4>1 DEF LeasesAgree
      <3> QED BY <3>1, <3>2, <3>3
    <2>5. ASSUME NEW s \in SeqsIn(r, "InFlight") PROVE \E o \in M : s \in ItemSeqs(o.items)
      <3>1. PICK k \in L : s \in ItemSeqs(k.items)
        BY <2>1 DEF LeasesAgree
      <3>2. CASE k = l
        BY <1>1, <3>1, <3>2
      <3>3. CASE k # l
        BY <3>1, <3>3
      <3> QED BY <3>2, <3>3
    <2> HIDE DEF M
    <2> QED BY <2>3, <2>4, <2>5 DEF LeasesAgree
  <1>7. PICK z \in [HeldSeqs(r) -> Batches] : Sized(r, A, L, z) /\ Counts(r, L, z)
    BY DEF RingInv
  <1>8. Sized(r, A, M, z)
    BY <1>1, <1>7, ZenonT(60) DEF Sized
  <1>9. Cardinality(Live(r, M)) = Cardinality(Live(r, L))
    <2>1. Live(r, L) \subseteq L
      BY DEF Live
    <2>2. IsFiniteSet(Live(r, L))
      BY <1>0, <2>1, FS_Subset
    <2>3. CASE X \intersect SeqsIn(r, "InFlight") = {}
      <3>1. Live(r, M) = Live(r, L)
        BY <1>1, <1>3, <2>3 DEF Live
      <3> QED BY <3>1
    <2>4. CASE X \intersect SeqsIn(r, "InFlight") # {}
      <3>1. Live(r, M) = Live(r, L \ {l}) \union {m}
        BY <1>1, <2>4 DEF Live
      <3>2. Cardinality(Live(r, L \ {l})) = Cardinality(Live(r, L)) - 1
        BY <1>0, <2>4, LiveWithout
      <3>3. Live(r, L \ {l}) \subseteq L \ {l}
        BY DEF Live
      <3>4. IsFiniteSet(Live(r, L \ {l})) /\ m \notin Live(r, L \ {l})
        BY <1>3, <1>4, <3>3, FS_Subset
      <3>5. Cardinality(Live(r, L \ {l}) \union {m}) = Cardinality(Live(r, L \ {l})) + 1
        BY <3>4, FS_AddElement
      <3>6. Cardinality(Live(r, L)) \in Nat
        BY <2>2, FS_CardinalityType
      <3> HIDE DEF M
      <3> QED BY <3>1, <3>2, <3>5, <3>6
    <2> QED BY <2>3, <2>4
  <1>10. Counts(r, M, z)
    BY <1>7, <1>9 DEF Counts
  <1> QED BY <1>1, <1>5, <1>6, <1>7, <1>8, <1>10 DEF RingInv

-----------------------------------------------------------------------------
(* The other changes to a ring                                              *)

(* Time passes for entries of the queue. *)
LEMMA QueueAges ==
    ASSUME NEW r, NEW A, NEW L, RingInv(r, A, L), NEW q \in Seq(Items),
           DOMAIN q = DOMAIN r.queue,
           \A i \in DOMAIN q : q[i].seq = r.queue[i].seq /\ q[i].batch = r.queue[i].batch,
           NEW t, t = [r EXCEPT !.queue = q]
    PROVE  /\ RingInv(t, A, L) /\ SameFlags(r, t)
           /\ t.slots = r.slots /\ t.nextSeq = r.nextSeq /\ t.committedSeq = r.committedSeq
           /\ t.bytesInFlight = r.bytesInFlight
           /\ t.unreclaimed = r.unreclaimed /\ t.unreclaimedBytes = r.unreclaimedBytes
  <1>0. r \in Rings
    BY DEF RingInv, RingShapes
  <1>1. /\ t \in Rings /\ t.queue = q /\ t.slots = r.slots /\ t.nextSeq = r.nextSeq
        /\ t.committedSeq = r.committedSeq /\ t.inflightLeases = r.inflightLeases
        /\ t.bytesInFlight = r.bytesInFlight /\ t.rowsInFlight = r.rowsInFlight
        /\ t.unreclaimed = r.unreclaimed /\ t.unreclaimedBytes = r.unreclaimedBytes
        /\ SameFlags(r, t)
    BY <1>0 DEF Rings, SameFlags
  <1>2. HeldSeqs(t) = HeldSeqs(r) /\ \A x : SeqsIn(t, x) = SeqsIn(r, x)
    BY <1>1 DEF HeldSeqs, SeqsIn
  <1>3. RingShapes(t, A, L)
    BY <1>1 DEF RingInv, RingShapes
  <1>4. QueueAgrees(t)
    <2>1. ItemSeqs(q) = ItemSeqs(r.queue)
      BY DEF ItemSeqs
    <2>2. Ascends(q)
      BY DEF RingInv, QueueAgrees, Ascends
    <2> QED BY <1>1, <1>2, <2>1, <2>2 DEF RingInv, QueueAgrees
  <1>5. AppendsAgree(t, A)
    BY <1>1, <1>2 DEF RingInv, AppendsAgree
  <1>6. LeasesAgree(t, L)
    BY <1>1, <1>2 DEF RingInv, LeasesAgree
  <1>7. PICK z \in [HeldSeqs(r) -> Batches] : Sized(r, A, L, z) /\ Counts(r, L, z)
    BY DEF RingInv
  <1>8. Sized(t, A, L, z)
    <2>1. ASSUME NEW e \in Entries(q) PROVE z[e.seq] = e.batch
      <3>1. PICK i \in DOMAIN q : e = q[i]
        BY DEF Entries
      <3>2. r.queue[i] \in Entries(r.queue) /\ e.seq = r.queue[i].seq /\ e.batch = r.queue[i].batch
        BY <3>1 DEF Entries
      <3>3. z[r.queue[i].seq] = r.queue[i].batch
        BY <1>7, <3>2 DEF Sized
      <3> QED BY <3>2, <3>3
    <2> QED BY <1>1, <1>2, <1>7, <2>1 DEF Sized
  <1>9. Counts(t, L, z)
    <2>1. Live(t, L) = Live(r, L)
      BY <1>2 DEF Live
    <2> QED BY <1>1, <1>7, <2>1 DEF Counts
  <1> QED BY <1>1, <1>2, <1>3, <1>4, <1>5, <1>6, <1>7, <1>8, <1>9 DEF RingInv

(* A flag of the ring is set. *)
LEMMA FlagsKeep ==
    ASSUME NEW r, NEW A, NEW L, RingInv(r, A, L), NEW t \in Rings, SameQueue(r, t),
           t.unreclaimed = r.unreclaimed, t.unreclaimedBytes = r.unreclaimedBytes
    PROVE  RingInv(t, A, L)
  <1>1. t.unreclaimedBytes = SumOf(t.unreclaimed)
    BY DEF RingInv, Counts
  <1> QED BY <1>1, SameRing

(* The empty function has no slots. *)
LEMMA NoSlots ==
    /\ <<>> \in SlotMaps /\ <<>> \in ChargeMaps /\ DOMAIN <<>> = {} /\ SumOf(<<>>) = 0
    /\ <<>> \in Seq(Items)
  <1>1. DOMAIN <<>> = {}
    OBVIOUS
  <1>2. <<>> = [s \in DOMAIN <<>> |-> <<>>[s]]
    BY <1>1
  <1>3. <<>> \in SlotMaps /\ <<>> \in ChargeMaps
    BY <1>1, <1>2, MapTypes
  <1> QED BY <1>1, <1>3, SumEmpty

(* A ring with nothing in it, whatever reservations and leases outlived a discard. *)
LEMMA EmptyRing ==
    ASSUME NEW p \in Rings, p.queue = <<>>, p.slots = <<>>, p.bytesInFlight = 0,
           p.rowsInFlight = 0, p.inflightLeases = 0, p.unreclaimed = <<>>, p.unreclaimedBytes = 0,
           NEW A \in SUBSET Reservations, NEW L \in SUBSET Grants, IsFiniteSet(L),
           \A a \in A : a.seq < p.nextSeq, \A a, b \in A : a.seq = b.seq => a = b,
           \A l \in L : Consecutive(l.items) /\ \A s \in ItemSeqs(l.items) : s < p.nextSeq,
           \A l, m \in L : l # m => ItemSeqs(l.items) \intersect ItemSeqs(m.items) = {}
    PROVE  /\ RingInv(p, A, L) /\ HeldSeqs(p) = {} /\ WithinBudget(p)
           /\ Live(p, L) = {}
  <1>1. HeldSeqs(p) = {} /\ DOMAIN p.unreclaimed = {}
    BY NoSlots DEF HeldSeqs
  <1>2. \A x : SeqsIn(p, x) = {}
    BY <1>1 DEF SeqsIn, HeldSeqs
  <1>3. Ascends(p.queue) /\ ItemSeqs(p.queue) = {} /\ Entries(p.queue) = {}
    BY NoSlots DEF Ascends, ItemSeqs, Entries
  <1>4. RingShapes(p, A, L)
    BY DEF RingShapes
  <1>5. QueueAgrees(p)
    BY <1>1, <1>2, <1>3 DEF QueueAgrees
  <1>6. AppendsAgree(p, A)
    BY <1>1, <1>2 DEF AppendsAgree
  <1>7. LeasesAgree(p, L)
    BY <1>1, <1>2 DEF LeasesAgree
  <1>8. Live(p, L) = {}
    BY <1>2 DEF Live
  <1> DEFINE z == [s \in {} |-> s]
  <1>9. z \in [HeldSeqs(p) -> Batches] /\ DOMAIN z = {}
    BY <1>1
  <1> HIDE DEF z
  <1>10. Sized(p, A, L, z)
    BY <1>1, <1>3, <1>9 DEF Sized
  <1>11. Counts(p, L, z)
    <2>1. DOMAIN ByteSizes(z) = {} /\ DOMAIN RowSizes(z) = {}
      BY <1>9 DEF ByteSizes, RowSizes
    <2>2. SumOf(ByteSizes(z)) = 0 /\ SumOf(RowSizes(z)) = 0
      BY <2>1, SumEmpty
    <2>3. Cardinality(Live(p, L)) = 0
      BY <1>8, FS_EmptySet
    <2>4. SumOf(p.unreclaimed) = 0
      BY <1>1, SumEmpty
    <2> QED BY <2>2, <2>3, <2>4 DEF Counts
  <1>12. WithinBudget(p)
    BY ConstantTypes DEF WithinBudget
  <1> QED BY <1>1, <1>4, <1>5, <1>6, <1>7, <1>8, <1>9, <1>10, <1>11, <1>12 DEF RingInv

-----------------------------------------------------------------------------
(* Those who send, and the one who receives, keep their shapes.             *)

(* notify_waiters and the answer to an append leave every batch with its sender. *)
LEMMA SendersWake ==
    ASSUME NEW p, NEW b, SendersAgree(p, b)
    PROVE  /\ SendersAgree(WakeSenders(p), b)
           /\ \A q : (/\ q = [s \in Senders |-> q[s]]
                      /\ \A s \in Senders : q[s] = p[s] \/ q[s] = "idle") => SendersAgree(q, b)
  BY DEF SendersAgree, WakeSenders, SenderPlaces

(* One sender moves. *)
LEMMA SenderMoves ==
    ASSUME NEW p, NEW b, SendersAgree(p, b), NEW s \in Senders, NEW x \in SenderPlaces,
           NEW c \in Batches \union {NoBatch},
           x \in {"ready", "blocked", "woken", "retrying"} => c \in Batches
    PROVE  SendersAgree([p EXCEPT ![s] = x], [b EXCEPT ![s] = c])
  BY DEF SendersAgree, SenderPlaces

(* Every step keeps who sends and what. *)
LEMMA SendersKeep ==
    ASSUME SendersAgree(pc, batch), Next
    PROVE  SendersAgree(pc', batch')
  <1>1. ASSUME NEW s \in Senders, SenderStep(s) PROVE SendersAgree(pc', batch')
    <2>1. CASE BeginSend(s)
      <3>1. CASE pc[s] = "idle" /\ \E b \in Batches : batch' = [batch EXCEPT ![s] = b]
        <4>1. PICK b \in Batches : batch' = [batch EXCEPT ![s] = b]
          BY <3>1
        <4>2. pc' = [pc EXCEPT ![s] = "ready"]
          BY <2>1, <3>1 DEF BeginSend
        <4> QED BY <4>1, <4>2, SenderMoves DEF SenderPlaces
      <3>2. CASE pc[s] = "woken" /\ batch' = batch /\ pc' = [pc EXCEPT ![s] = "retrying"]
        BY <3>2 DEF SendersAgree, SenderPlaces
      <3> QED BY <2>1, <3>1, <3>2 DEF BeginSend
    <2>2. CASE TrySend(s)
      <3>1. batch[s] \in Batches
        BY <2>2 DEF TrySend, SendersAgree
      <3>2. \/ pc' = [pc EXCEPT ![s] = "blocked"] /\ batch' = batch
            \/ /\ pc' = [pc EXCEPT ![s] = IF Disk THEN "appending" ELSE "idle"]
               /\ batch' = [batch EXCEPT ![s] = NoBatch]
        BY <2>2 DEF TrySend
      <3>3. CASE pc' = [pc EXCEPT ![s] = "blocked"] /\ batch' = batch
        BY <3>1, <3>3 DEF SendersAgree, SenderPlaces
      <3>4. CASE /\ pc' = [pc EXCEPT ![s] = IF Disk THEN "appending" ELSE "idle"]
                 /\ batch' = [batch EXCEPT ![s] = NoBatch]
        BY <3>4, SenderMoves DEF SenderPlaces
      <3> QED BY <3>2, <3>3, <3>4
    <2>3. CASE SendFails(s)
      BY <2>3, SenderMoves DEF SendFails, SenderPlaces
    <2>4. CASE DropSender(s)
      BY <2>4, SenderMoves DEF DropSender, SenderPlaces
    <2> QED BY <1>1, <2>1, <2>2, <2>3, <2>4 DEF SenderStep
  <1>2. ASSUME NEW a \in appends, WriterStep(a) PROVE SendersAgree(pc', batch')
    <2>1. batch' = batch /\ (pc' = AnswerSender(a) \/ pc' = WakeSenders(AnswerSender(a)))
      BY <1>2 DEF WriterStep, AppendOk, AppendFails
    <2>2. SendersAgree(AnswerSender(a), batch)
      BY SendersWake DEF AnswerSender
    <2> QED BY <2>1, <2>2, SendersWake
  <1>3. CASE ConsumerStep
    <2>1. batch' = batch /\ (pc' = pc \/ pc' = WakeSenders(pc))
      BY <1>3 DEF ConsumerStep, BeginPoll, PopLease, PollNothing, DropReceiver, NotifySpace
    <2> QED BY <2>1, SendersWake
  <1>4. ASSUME NEW l \in leases, SinkStep(l) PROVE SendersAgree(pc', batch')
    <2>1. batch' = batch /\ (pc' = pc \/ pc' = WakeSenders(pc))
      BY <1>4 DEF SinkStep, Ack, NackTransient, NackRejected, NackFatal, QuarantineOk, DropLease,
                  FailLease, NotifySpace
    <2> QED BY <2>1, SendersWake
  <1>5. CASE TimerStep
    <2>1. batch' = batch /\ pc' = pc
      BY <1>5 DEF TimerStep, BackoffElapses, FlushIntervalElapses
    <2> QED BY <2>1
  <1>6. CASE StorageFails
    BY <1>6, SendersWake DEF StorageFails, NotifySpace
  <1>7. CASE DiscardRemaining
    BY <1>7, SendersWake DEF DiscardRemaining, NotifySpace
  <1> QED BY <1>1, <1>2, <1>3, <1>4, <1>5, <1>6, <1>7 DEF Next

(* Every step keeps the other variables of the tasks. *)
LEMMA TasksKeep ==
    ASSUME TasksAgree, Next
    PROVE  TasksAgree'
  <1>0. MaxFaults \in Nat
    BY ConstantTypes
  <1>1. \A S : \A f \in Fates : SetFates(S, f) => fate' \in [Seqs -> Fates]
    BY DEF SetFates, TasksAgree
  <1>2. Fault => faults' \in 0..MaxFaults
    BY <1>0 DEF Fault, TasksAgree
  <1>3. NotifyData => dataReady' \in BOOLEAN
    BY DEF NotifyData
  <1>4. WakeSleeper => dataReady' \in BOOLEAN
    BY DEF WakeSleeper
  <1>5. ASSUME NEW s \in Senders, SenderStep(s) PROVE TasksAgree'
    <2>1. CASE BeginSend(s)
      BY <2>1 DEF BeginSend, TasksAgree
    <2>2. CASE TrySend(s)
      BY <2>2, <1>1, <1>3 DEF TrySend, TasksAgree, Fates
    <2>3. CASE SendFails(s)
      BY <2>3 DEF SendFails, TasksAgree
    <2>4. CASE DropSender(s)
      BY <2>4, <1>2, <1>3 DEF DropSender, TasksAgree
    <2> QED BY <1>5, <2>1, <2>2, <2>3, <2>4 DEF SenderStep
  <1>6. ASSUME NEW a \in appends, WriterStep(a) PROVE TasksAgree'
    <2>1. CASE AppendOk(a)
      BY <2>1, <1>3 DEF AppendOk, TasksAgree
    <2>2. CASE AppendFails(a)
      BY <2>2, <1>1, <1>2, <1>3 DEF AppendFails, TasksAgree, Fates
    <2> QED BY <1>6, <2>1, <2>2 DEF WriterStep
  <1>7. CASE ConsumerStep
    BY <1>7, <1>2 DEF ConsumerStep, BeginPoll, PopLease, PollNothing, DropReceiver, TasksAgree
  <1>8. ASSUME NEW l \in leases, SinkStep(l) PROVE TasksAgree'
    <2>1. CASE Ack(l)
      BY <2>1, <1>1, <1>3 DEF Ack, TasksAgree, Fates
    <2>2. CASE NackTransient(l)
      BY <2>2, <1>2, <1>3 DEF NackTransient, FailLease, TasksAgree
    <2>3. CASE NackRejected(l)
      BY <2>3, <1>2, <1>3 DEF NackRejected, TasksAgree
    <2>4. CASE NackFatal(l)
      BY <2>4, <1>2, <1>3 DEF NackFatal, FailLease, TasksAgree
    <2>5. CASE QuarantineOk(l)
      BY <2>5, <1>1, <1>3 DEF QuarantineOk, TasksAgree, Fates
    <2>6. CASE DropLease(l)
      BY <2>6, <1>2, <1>3 DEF DropLease, TasksAgree
    <2> QED BY <1>8, <2>1, <2>2, <2>3, <2>4, <2>5, <2>6 DEF SinkStep
  <1>9. CASE TimerStep
    BY <1>9, <1>4 DEF TimerStep, BackoffElapses, FlushIntervalElapses, TasksAgree
  <1>10. CASE StorageFails
    BY <1>10, <1>2, <1>3 DEF StorageFails, TasksAgree
  <1>11. CASE DiscardRemaining
    BY <1>11, <1>1, <1>2, <1>3 DEF DiscardRemaining, TasksAgree, Fates
  <1> QED BY <1>5, <1>6, <1>7, <1>8, <1>9, <1>10, <1>11 DEF Next

-----------------------------------------------------------------------------
(* Every critical section leaves the ring safe.                             *)

(* The fields of a ring that the ledger and the budget see. *)
SameLedger(r, t) ==
    /\ t.slots = r.slots /\ t.nextSeq = r.nextSeq /\ t.committedSeq = r.committedSeq

SameBytes(r, t) ==
    /\ t.bytesInFlight = r.bytesInFlight
    /\ t.unreclaimed = r.unreclaimed /\ t.unreclaimedBytes = r.unreclaimedBytes

(* A ring that charges what one within the budget does is within it. *)
LEMMA SameCharges ==
    ASSUME NEW r, NEW t, WithinBudget(r), SameBytes(r, t), HeldSeqs(t) = HeldSeqs(r)
    PROVE  WithinBudget(t)
  BY DEF WithinBudget, Charged, SameBytes

(* Slots that change their state are held before and after. *)
LEMMA PutHeld ==
    ASSUME NEW r, NEW S, NEW state, NEW t, t.slots = Put(r, S, state), S \subseteq HeldSeqs(r)
    PROVE  HeldSeqs(t) = HeldSeqs(r)
  BY DEF Put, HeldSeqs

(* Closing the ring, dropping its receiver or failing it changes nothing else. *)
LEMMA FlagSet ==
    ASSUME NEW r, NEW A, NEW L, RingInv(r, A, L), NEW x \in BOOLEAN, NEW t,
           t \in {[r EXCEPT !.fatal = x], [r EXCEPT !.closed = x], [r EXCEPT !.receiverDropped = x]}
    PROVE  /\ RingInv(t, A, L) /\ SameLedger(r, t) /\ SameBytes(r, t)
           /\ t.closed = r.closed \/ t.closed = x
  <1>0. r \in Rings
    BY DEF RingInv, RingShapes
  <1>1. t \in Rings /\ SameQueue(r, t) /\ SameBytes(r, t) /\ SameLedger(r, t)
    BY <1>0 DEF Rings, SameQueue, SameBytes, SameLedger
  <1>2. t.closed = r.closed \/ t.closed = x
    BY <1>0 DEF Rings
  <1>3. RingInv(t, A, L)
    BY <1>1, FlagsKeep DEF SameBytes
  <1> QED BY <1>1, <1>2, <1>3

(* Steps that leave the ring, its reservations and its leases alone. *)
LEMMA SafeIdle ==
    ASSUME RingSafe, UNCHANGED <<ring, appends, leases>>,
           consumer' = "finished" => consumer = "finished" \/ Drained(ring)
    PROVE  RingSafe'
  BY DEF RingSafe, Drained

(* Steps after which a ring is as safe as it was before. *)
LEMMA SafeSteps ==
    ASSUME RingSafe, consumer' = consumer, RingInv(ring', appends', leases'), WithinBudget(ring'),
           HeldSeqs(ring') \subseteq HeldSeqs(ring), ring'.closed = ring.closed \/ ring'.closed = TRUE
    PROVE  RingSafe'
  BY DEF RingSafe

(* reserve_or_enqueue_slot. *)
LEMMA TrySendSafe ==
    ASSUME RingSafe, SendersAgree(pc, batch), NEW s \in Senders, TrySend(s)
    PROVE  RingSafe'
  <1> DEFINE b == batch[s]
             n == EvictionCount(ring, b)
             r == EvictFront(ring, n)
  <1>0. RingInv(ring, appends, leases) /\ WithinBudget(ring) /\ ring \in Rings
    BY DEF RingSafe, RingInv, RingShapes
  <1>1. b \in Batches /\ ~ring.closed /\ consumer # "finished" /\ consumer' = consumer
        /\ leases' = leases
    BY DEF TrySend, SendersAgree, SendRefused, RingSafe
  <1>2. n \in 0..Len(ring.queue)
    BY <1>0, EvictionCountType
  <1>3. \/ /\ CanAdmit(r, b) /\ r.nextSeq <= MaxSeq /\ ring' = AssignSeq(r, b)
           /\ appends' = ReservedBy(r, appends, b, s)
        \/ ring' = r /\ appends' = appends
    BY DEF TrySend, ReservedBy
  <1> HIDE DEF b, n
  <1>4. EvictedTo(ring, appends, leases, n, r)
    BY <1>0, <1>2, EvictFrontKeeps
  <1>5. RingInv(r, appends, leases) /\ Shrinks(ring, r)
    BY <1>4 DEF EvictedTo
  <1>6. WithinBudget(r)
    BY <1>0, <1>5, BudgetKeeps
  <1> HIDE DEF r
  <1>7. CASE ring' = r /\ appends' = appends
    BY <1>1, <1>5, <1>6, <1>7 DEF RingSafe
  <1>8. CASE /\ CanAdmit(r, b) /\ r.nextSeq <= MaxSeq /\ ring' = AssignSeq(r, b)
             /\ appends' = ReservedBy(r, appends, b, s)
    <2> DEFINE t == AssignSeq(r, b)
    <2>1. /\ RingInv(t, ReservedBy(r, appends, b, s), leases)
          /\ t.slots = Put(r, {r.nextSeq}, IF Disk THEN "Reserved" ELSE "Queued")
          /\ t.bytesInFlight = r.bytesInFlight + b.bytes
          /\ t.unreclaimed = r.unreclaimed /\ t.unreclaimedBytes = r.unreclaimedBytes
      BY <1>1, <1>5, <1>8, AssignKeeps
    <2>2. ring' = t
      BY <1>8
    <2> HIDE DEF t
    <2>3. HeldSeqs(t) = HeldSeqs(r) \union {r.nextSeq}
      BY <2>1 DEF Put, HeldSeqs
    <2>4. WithinBudget(t)
      BY <1>1, <1>5, <1>8, <2>1, <2>3, AssignBudget
    <2> QED BY <1>1, <1>8, <2>1, <2>2, <2>4 DEF RingSafe
  <1> QED BY <1>3, <1>7, <1>8

(* AppendReservation::finish. *)
LEMMA WriterSafe ==
    ASSUME RingSafe, NEW a \in appends, WriterStep(a)
    PROVE  RingSafe'
  <1>0. /\ RingInv(ring, appends, leases) /\ WithinBudget(ring) /\ ring \in Rings
        /\ ring.fatal \in BOOLEAN
    BY DEF RingSafe, RingInv, RingShapes, Rings
  <1>1. CASE AppendOk(a) /\ a.seq \in SeqsIn(ring, "Reserved")
    <2>1. /\ ring' = Appended(ring, a)
          /\ appends' = appends \ {a} /\ leases' = leases /\ consumer' = consumer
      BY <1>1 DEF AppendOk, Appended
    <2>2. /\ RingInv(ring', appends \ {a}, leases) /\ ring'.slots = Put(ring, {a.seq}, "Queued")
          /\ ring'.bytesInFlight = ring.bytesInFlight
          /\ ring'.unreclaimed = ring.unreclaimed /\ ring'.unreclaimedBytes = ring.unreclaimedBytes
          /\ SameFlags(ring, ring')
      BY <1>0, <1>1, <2>1, AppendKeeps
    <2>3. {a.seq} \subseteq HeldSeqs(ring)
      BY <1>1 DEF SeqsIn, HeldSeqs
    <2>4. HeldSeqs(ring') = HeldSeqs(ring)
      BY <2>2, <2>3, PutHeld
    <2>5. WithinBudget(ring')
      BY <1>0, <2>2, <2>4, SameCharges DEF SameBytes
    <2> QED BY <2>1, <2>2, <2>4, <2>5, SafeSteps DEF SameFlags
  <1>2. CASE AppendOk(a) /\ a.seq \notin SeqsIn(ring, "Reserved")
    <2>1. ring' = ring /\ appends' = appends \ {a} /\ leases' = leases /\ consumer' = consumer
      BY <1>2 DEF AppendOk
    <2>2. a.seq \notin HeldSeqs(ring)
      BY <1>0, <1>2 DEF RingInv, AppendsAgree, SeqsIn, HeldSeqs
    <2>3. RingInv(ring, appends \ {a}, leases)
      BY <1>0, <2>2, ReservationEnds
    <2> QED BY <1>0, <2>1, <2>3, SafeSteps
  <1>3. CASE AppendFails(a)
    <2> DEFINE p == RollbackSlot(ring, a)
    <2>1. /\ appends' = appends \ {a} /\ leases' = leases /\ consumer' = consumer
          /\ \E finished \in BOOLEAN : ring' = [p EXCEPT !.fatal = @ \/ finished]
      BY <1>3 DEF AppendFails
    <2>2. /\ RingInv(p, appends \ {a}, leases) /\ Shrinks(ring, p) /\ SameFlags(ring, p)
          /\ IF a.seq \notin HeldSeqs(ring) THEN p = ring ELSE p.slots = Without(ring, {a.seq})
      BY <1>0, RollbackKeeps
    <2> HIDE DEF p
    <2>3. HeldSeqs(p) \subseteq HeldSeqs(ring)
      BY <2>2 DEF Without, HeldSeqs
    <2>4. WithinBudget(p)
      BY <1>0, <2>2, BudgetKeeps
    <2>5. PICK x \in BOOLEAN : ring' = [p EXCEPT !.fatal = x]
      BY <1>0, <2>1, <2>2 DEF SameFlags
    <2>6. /\ RingInv(ring', appends \ {a}, leases) /\ SameLedger(p, ring') /\ SameBytes(p, ring')
      BY <2>2, <2>5, FlagSet
    <2>7. HeldSeqs(ring') = HeldSeqs(p)
      BY <2>6 DEF SameLedger, HeldSeqs
    <2>8. WithinBudget(ring')
      BY <2>4, <2>6, <2>7, SameCharges
    <2>9. ring'.closed = ring.closed
      <3>1. p \in Rings
        BY <2>2 DEF RingInv, RingShapes
      <3> QED BY <2>2, <2>5, <3>1 DEF SameFlags, Rings
    <2> QED BY <2>1, <2>3, <2>6, <2>7, <2>8, <2>9, SafeSteps
  <1> QED BY <1>1, <1>2, <1>3 DEF WriterStep

(* The batches that coalesce at the front of the queue become a lease. *)
LEMMA PopsRun ==
    ASSUME RingInv(ring, appends, leases), LeaseIsReady(ring)
    PROVE  LET n == CoalesceCount(ring.queue)
               items == SubSeq(ring.queue, 1, n)
               attempt == ring.queue[1].attempt
           IN  /\ Popped(ring, appends, leases, items, Granted(items, attempt), Leased(ring, n, items))
               /\ items \in Seq(Items) /\ Consecutive(items) /\ items[1] = ring.queue[1]
  <1> DEFINE n == CoalesceCount(ring.queue)
             items == SubSeq(ring.queue, 1, n)
             attempt == ring.queue[1].attempt
             l == Granted(items, attempt)
             t == Leased(ring, n, items)
  <1>1. ring \in Rings /\ ring.queue # <<>>
    BY DEF LeaseIsReady, FrontIsNext, RingInv, RingShapes
  <1>2. /\ ring.queue \in Seq(Items) /\ DOMAIN ring.queue = 1..Len(ring.queue)
        /\ Len(ring.queue) \in Nat /\ \A i \in DOMAIN ring.queue : ring.queue[i] \in Items
    BY <1>1, RingTypes
  <1>3. n \in 1..Len(ring.queue) /\ Consecutive(items)
    BY <1>1, <1>2, CoalescedRun
  <1> HIDE DEF n
  <1>4. attempt \in Nat /\ items \in Seq(Items) /\ items[1] = ring.queue[1]
    <2>1. 1 \in DOMAIN ring.queue
      BY <1>2, <1>3
    <2>2. attempt \in Nat
      BY <1>2, <2>1 DEF Items
    <2>3. items \in Seq(Items) /\ items[1] = ring.queue[1]
      BY <1>2, <1>3
    <2> QED BY <2>2, <2>3
  <1>5. items = SubSeq(ring.queue, 1, n)
    OBVIOUS
  <1> HIDE DEF items, attempt
  <1>6. l = Granted(items, attempt) /\ t = Leased(ring, n, items)
    OBVIOUS
  <1> HIDE DEF l, t
  <1>7. Popped(ring, appends, leases, items, l, t)
    BY <1>3, <1>4, <1>5, <1>6, PopKeeps
  <1> QED BY <1>3, <1>4, <1>7 DEF n, items, attempt, l, t

(* next_lease. *)
LEMMA ConsumerSafe ==
    ASSUME RingSafe, ConsumerStep
    PROVE  RingSafe'
  <1>0. /\ RingInv(ring, appends, leases) /\ WithinBudget(ring) /\ ring \in Rings
        /\ consumer = "finished" => ring.closed /\ HeldSeqs(ring) = {}
    BY DEF RingSafe, RingInv, RingShapes
  <1>1. CASE BeginPoll
    BY <1>1, SafeIdle DEF BeginPoll
  <1>2. CASE PollNothing
    BY <1>2, SafeIdle DEF PollNothing
  <1>3. CASE PopLease
    <2> DEFINE n == CoalesceCount(ring.queue)
               items == SubSeq(ring.queue, 1, n)
               attempt == ring.queue[1].attempt
               l == Granted(items, attempt)
    <2>1. /\ ring' = Leased(ring, n, items) /\ leases' = leases \union {l} /\ appends' = appends
          /\ consumer' = "idle"
      BY <1>3 DEF PopLease, Leased, Granted
    <2>2. Popped(ring, appends, leases, items, l, ring')
      BY <1>0, <1>3, <2>1, PopsRun DEF PopLease
    <2> HIDE DEF items, l
    <2>3. /\ RingInv(ring', appends, leases \union {l}) /\ SameBytes(ring, ring')
          /\ ItemSeqs(items) \subseteq SeqsIn(ring, "Queued")
          /\ ring'.slots = Put(ring, ItemSeqs(items), "InFlight")
      BY <2>2 DEF Popped, SameBytes
    <2>4. HeldSeqs(ring') = HeldSeqs(ring)
      BY <2>3, PutHeld, ZenonT(60) DEF SeqsIn, HeldSeqs
    <2>5. WithinBudget(ring')
      BY <1>0, <2>3, <2>4, SameCharges
    <2> QED BY <2>1, <2>3, <2>5 DEF RingSafe
  <1>4. CASE DropReceiver
    <2>1. /\ ring' = [ring EXCEPT !.receiverDropped = TRUE] /\ leases' = leases /\ appends' = appends
          /\ consumer' = "dropped"
      BY <1>4 DEF DropReceiver
    <2>2. RingInv(ring', appends, leases) /\ SameLedger(ring, ring') /\ SameBytes(ring, ring')
      BY <1>0, <2>1, FlagSet
    <2>3. WithinBudget(ring')
      BY <1>0, <2>2, SameCharges DEF SameLedger, HeldSeqs
    <2> QED BY <2>1, <2>2, <2>3 DEF RingSafe
  <1> QED BY <1>1, <1>2, <1>3, <1>4 DEF ConsumerStep

(* Marking items as failed before they are requeued changes neither their order nor their size. *)
LEMMA Marked ==
    ASSUME NEW items \in Seq(Items)
    PROVE  /\ MarkFailed(items) \in Seq(Items) /\ DOMAIN MarkFailed(items) = DOMAIN items
           /\ \A i \in DOMAIN items : /\ MarkFailed(items)[i].seq = items[i].seq
                                      /\ MarkFailed(items)[i].batch = items[i].batch
  <1>1. Len(items) \in Nat /\ DOMAIN items = 1..Len(items) /\ \A i \in DOMAIN items : items[i] \in Items
    OBVIOUS
  <1>2. \A e \in Items : /\ [e EXCEPT !.failed = TRUE] \in Items
                         /\ [e EXCEPT !.failed = TRUE].seq = e.seq
                         /\ [e EXCEPT !.failed = TRUE].batch = e.batch
    BY DEF Items
  <1>3. MarkFailed(items) = [i \in 1..Len(items) |-> [items[i] EXCEPT !.failed = TRUE]]
    BY <1>1 DEF MarkFailed
  <1>4. MarkFailed(items) \in Seq(Items)
    <2>1. \A i \in 1..Len(items) : [items[i] EXCEPT !.failed = TRUE] \in Items
      BY <1>1, <1>2
    <2> QED BY <1>1, <1>3, <2>1
  <1> QED BY <1>1, <1>2, <1>3, <1>4

(* requeue_at_head, for the items of a lease or for the same items marked as failed. *)
LEMMA PutsBack ==
    ASSUME RingInv(ring, appends, leases), NEW l \in leases, NEW items,
           items = l.items \/ items = MarkFailed(l.items),
           NEW attempt \in Nat, NEW readyAt \in {0} \union Seqs,
           NEW t, t = RequeueAtHead(ring, items, attempt, readyAt)
    PROVE  Returned(ring, appends, leases, l, t)
  <1>1. l.items \in Seq(Items)
    BY LeaseTypes
  <1>2. items \in Seq(Items) /\ SameBatches(items, l.items)
    BY <1>1, Marked DEF SameBatches
  <1> QED BY <1>2, RequeueKeeps

(* What a lease carries. *)
LEMMA LeaseStart ==
    ASSUME RingInv(ring, appends, leases), NEW l \in leases
    PROVE  l.attempt + 1 \in Nat /\ l.items[1].seq \in Seqs
  <1>1. l.items \in Seq(Items) /\ Consecutive(l.items) /\ l.attempt \in Nat
    BY LeaseTypes
  <1>2. l.items[1] \in Items
    BY <1>1 DEF Consecutive
  <1> QED BY <1>1, <1>2 DEF Items

(* A step that puts a lease back, and perhaps fails the buffer. *)
LEMMA ReturnSafe ==
    ASSUME RingSafe, NEW l \in leases, leases' = leases \ {l}, appends' = appends,
           consumer' = consumer, NEW t, Returned(ring, appends, leases, l, t),
           ring' = t \/ ring' = [t EXCEPT !.fatal = TRUE]
    PROVE  RingSafe'
  <1>0. WithinBudget(ring)
    BY DEF RingSafe
  <1>1. /\ RingInv(t, appends, leases \ {l}) /\ SameBytes(ring, t) /\ t.closed = ring.closed
        /\ HeldSeqs(t) = HeldSeqs(ring)
    <2>1. HeldSeqs(t) = HeldSeqs(ring)
      BY PutHeld DEF Returned, SeqsIn, HeldSeqs
    <2> QED BY <2>1 DEF Returned, SameFlags, SameBytes
  <1>2. WithinBudget(t)
    BY <1>0, <1>1, SameCharges
  <1>3. CASE ring' = t
    BY <1>1, <1>2, <1>3, SafeSteps
  <1>4. CASE ring' = [t EXCEPT !.fatal = TRUE]
    <2>1. RingInv(ring', appends, leases \ {l}) /\ SameLedger(t, ring') /\ SameBytes(t, ring')
      BY <1>1, <1>4, FlagSet
    <2>2. HeldSeqs(ring') = HeldSeqs(t)
      BY <2>1 DEF SameLedger, HeldSeqs
    <2>3. WithinBudget(ring')
      BY <1>2, <2>1, <2>2, SameCharges
    <2>4. t \in Rings
      BY <1>1 DEF RingInv, RingShapes
    <2>5. ring'.closed = t.closed
      BY <1>4, <2>4 DEF Rings
    <2> QED BY <1>1, <2>1, <2>2, <2>3, <2>5, SafeSteps
  <1> QED BY <1>3, <1>4

(* ack and nack. *)
LEMMA SinkSafe ==
    ASSUME RingSafe, NEW l \in leases, SinkStep(l)
    PROVE  RingSafe'
  <1>0. /\ RingInv(ring, appends, leases) /\ WithinBudget(ring) /\ ring \in Rings
        /\ l.attempt + 1 \in Nat /\ l.items[1].seq \in Seqs
    BY LeaseStart DEF RingSafe, RingInv, RingShapes
  <1>1. CASE Ack(l) \/ QuarantineOk(l)
    <2>1. /\ ring' = AckEntries(ring, l.items) /\ leases' = leases \ {l} /\ appends' = appends
          /\ consumer' = consumer
      BY <1>1 DEF Ack, QuarantineOk
    <2>0. Acked(ring, appends, leases, l, ring')
      BY <1>0, <2>1, AckKeeps
    <2>2. /\ RingInv(ring', appends, leases \ {l}) /\ Shrinks(ring, ring') /\ SameFlags(ring, ring')
          /\ IF ItemSeqs(l.items) \intersect HeldSeqs(ring) = {} THEN ring' = ring
             ELSE ring'.slots = Without(ring, ItemSeqs(l.items))
      BY <2>0 DEF Acked
    <2>3. HeldSeqs(ring') \subseteq HeldSeqs(ring)
      BY <2>2 DEF Without, HeldSeqs
    <2>4. WithinBudget(ring')
      BY <1>0, <2>2, BudgetKeeps
    <2> QED BY <2>1, <2>2, <2>3, <2>4, SafeSteps DEF SameFlags
  <1>2. CASE NackTransient(l)
    <2>1. leases' = leases \ {l} /\ appends' = appends /\ consumer' = consumer
      BY <1>2 DEF NackTransient
    <2>2. CASE ring' = RequeueAtHead(ring, MarkFailed(l.items), l.attempt + 1, l.items[1].seq)
      <3>1. Returned(ring, appends, leases, l, ring')
        BY <1>0, <2>2, PutsBack
      <3> QED BY <2>1, <3>1, ReturnSafe
    <2>3. CASE ring' = [RequeueAtHead(ring, MarkFailed(l.items), 0, 0) EXCEPT !.fatal = TRUE]
      <3>1. Returned(ring, appends, leases, l, RequeueAtHead(ring, MarkFailed(l.items), 0, 0))
        BY <1>0, PutsBack
      <3> QED BY <2>1, <2>3, <3>1, ReturnSafe
    <2> QED BY <1>2, <2>2, <2>3 DEF NackTransient, FailLease
  <1>3. CASE NackRejected(l) /\ l.attempt + 1 < MaxAttempts
    <2>1. /\ leases' = leases \ {l} /\ appends' = appends /\ consumer' = consumer
          /\ ring' = RequeueAtHead(ring, l.items, l.attempt + 1, 0)
      BY <1>3 DEF NackRejected
    <2>2. Returned(ring, appends, leases, l, ring')
      BY <1>0, <2>1, PutsBack
    <2> QED BY <2>1, <2>2, ReturnSafe
  <1>4. CASE NackRejected(l) /\ ~(l.attempt + 1 < MaxAttempts)
    <2> DEFINE m == [l EXCEPT !.phase = "quarantining"]
    <2>1. /\ leases' = (leases \ {l}) \union {m} /\ appends' = appends /\ consumer' = consumer
          /\ ring' = ring /\ l.phase = "held"
      BY <1>4 DEF NackRejected
    <2>2. RingInv(ring, appends, (leases \ {l}) \union {m})
      BY <1>0, <2>1, RegrantKeeps
    <2> HIDE DEF m
    <2>3. RingInv(ring', appends', leases') /\ WithinBudget(ring') /\ HeldSeqs(ring') = HeldSeqs(ring)
      BY <1>0, <2>1, <2>2
    <2> QED BY <2>1, <2>3, SafeSteps
  <1>5. CASE NackFatal(l)
    <2>1. /\ leases' = leases \ {l} /\ appends' = appends /\ consumer' = consumer
          /\ ring' = [RequeueAtHead(ring, l.items, 0, 0) EXCEPT !.fatal = TRUE]
      BY <1>5 DEF NackFatal, FailLease
    <2>2. Returned(ring, appends, leases, l, RequeueAtHead(ring, l.items, 0, 0))
      BY <1>0, PutsBack
    <2> QED BY <2>1, <2>2, ReturnSafe
  <1>6. CASE DropLease(l)
    <2>1. /\ leases' = leases \ {l} /\ appends' = appends /\ consumer' = consumer
          /\ ring' = RequeueAtHead(ring, MarkFailed(l.items), l.attempt + 1, 0)
      BY <1>6 DEF DropLease
    <2>2. Returned(ring, appends, leases, l, ring')
      BY <1>0, <2>1, PutsBack
    <2> QED BY <2>1, <2>2, ReturnSafe
  <1> QED BY <1>1, <1>2, <1>3, <1>4, <1>5, <1>6 DEF SinkStep

(* A step that ages entries of the queue. *)
LEMMA AgeSafe ==
    ASSUME RingSafe, NEW q \in Seq(Items), SameBatches(q, ring.queue),
           ring' = [ring EXCEPT !.queue = q], UNCHANGED <<appends, leases, consumer>>
    PROVE  RingSafe' /\ SameLedger(ring, ring') /\ RingInv(ring', appends, leases)
  <1>0. RingInv(ring, appends, leases) /\ WithinBudget(ring)
    BY DEF RingSafe
  <1>1. /\ DOMAIN q = DOMAIN ring.queue
        /\ \A i \in DOMAIN q : q[i].seq = ring.queue[i].seq /\ q[i].batch = ring.queue[i].batch
    BY DEF SameBatches
  <1>2. /\ RingInv(ring', appends, leases) /\ SameFlags(ring, ring') /\ SameLedger(ring, ring')
        /\ SameBytes(ring, ring')
    BY <1>0, <1>1, QueueAges DEF SameLedger, SameBytes
  <1>3. HeldSeqs(ring') = HeldSeqs(ring)
    BY <1>2 DEF SameLedger, HeldSeqs
  <1>4. WithinBudget(ring')
    BY <1>0, <1>2, <1>3, SameCharges
  <1> QED BY <1>2, <1>3, <1>4, SafeSteps DEF SameFlags

(* Backoffs and the flush interval. *)
LEMMA TimerSafe ==
    ASSUME RingSafe, TimerStep
    PROVE  RingSafe' /\ SameLedger(ring, ring') /\ UNCHANGED <<appends, leases, fate>>
  <1>0. ring \in Rings
    BY DEF RingSafe, RingInv, RingShapes
  <1>1. /\ ring.queue \in Seq(Items) /\ DOMAIN ring.queue = 1..Len(ring.queue)
        /\ Len(ring.queue) \in Nat /\ \A i \in DOMAIN ring.queue : ring.queue[i] \in Items
    BY <1>0, RingTypes
  <1>2. CASE FlushIntervalElapses
    <2> DEFINE q == [ring.queue EXCEPT ![1] = [@ EXCEPT !.aged = TRUE]]
    <2>1. /\ ring' = [ring EXCEPT !.queue = q] /\ UNCHANGED <<appends, leases, consumer, fate>>
          /\ ring.queue # <<>>
      BY <1>0, <1>2 DEF FlushIntervalElapses, Rings
    <2>2. /\ [ring.queue[1] EXCEPT !.aged = TRUE] \in Items
          /\ [ring.queue[1] EXCEPT !.aged = TRUE].seq = ring.queue[1].seq
          /\ [ring.queue[1] EXCEPT !.aged = TRUE].batch = ring.queue[1].batch
      <3>1. ring.queue[1] \in Items
        BY <1>1, <2>1
      <3> QED BY <3>1 DEF Items
    <2>3. q \in Seq(Items) /\ SameBatches(q, ring.queue)
      BY <1>1, <2>1, <2>2 DEF SameBatches
    <2> HIDE DEF q
    <2> QED BY <2>1, <2>3, AgeSafe
  <1>3. ASSUME NEW x \in Seqs, BackoffElapses(x)
        PROVE  RingSafe' /\ SameLedger(ring, ring') /\ UNCHANGED <<appends, leases, fate>>
    <2> DEFINE Due(e) == IF e.readyAt = x THEN [e EXCEPT !.readyAt = 0] ELSE e
               q == [i \in DOMAIN ring.queue |-> Due(ring.queue[i])]
    <2>1. ring' = [ring EXCEPT !.queue = q] /\ UNCHANGED <<appends, leases, consumer, fate>>
      BY <1>3 DEF BackoffElapses
    <2>2. \A e \in Items : Due(e) \in Items /\ Due(e).seq = e.seq /\ Due(e).batch = e.batch
      BY DEF Items
    <2> HIDE DEF Due
    <2>3. \A i \in 1..Len(ring.queue) : Due(ring.queue[i]) \in Items
      BY <1>1, <2>2
    <2>4. q = [i \in 1..Len(ring.queue) |-> Due(ring.queue[i])]
      BY <1>1
    <2>5. q \in Seq(Items)
      BY <1>1, <2>3, <2>4
    <2>6. SameBatches(q, ring.queue)
      BY <1>1, <2>2 DEF SameBatches
    <2> HIDE DEF q
    <2> QED BY <2>1, <2>5, <2>6, AgeSafe
  <1> QED BY <1>2, <1>3 DEF TimerStep

(* A ring whose content is discarded. *)
Discarded(r) ==
    [r EXCEPT !.queue = <<>>, !.slots = <<>>,
              !.bytesInFlight = 0, !.rowsInFlight = 0, !.inflightLeases = 0,
              !.unreclaimed = <<>>, !.unreclaimedBytes = 0]

(* discard_remaining_rings leaves nothing, and the watermark at the last number assigned. *)
LEMMA DiscardEmpties ==
    ASSUME NEW r, NEW A, NEW L, RingInv(r, A, L), NEW t, t = AdvanceWatermark(Discarded(r))
    PROVE  /\ RingInv(t, A, L) /\ HeldSeqs(t) = {} /\ WithinBudget(t) /\ t.closed = r.closed
           /\ t.nextSeq = r.nextSeq /\ Advanced(r.committedSeq, t) /\ Live(t, L) = {}
  <1> DEFINE p == Discarded(r)
  <1>0. r \in Rings /\ A \in SUBSET Reservations /\ L \in SUBSET Grants /\ IsFiniteSet(L)
    BY DEF RingInv, RingShapes
  <1>1. /\ p \in Rings /\ p.queue = <<>> /\ p.slots = <<>> /\ p.bytesInFlight = 0
        /\ p.rowsInFlight = 0 /\ p.inflightLeases = 0 /\ p.unreclaimed = <<>>
        /\ p.unreclaimedBytes = 0 /\ p.nextSeq = r.nextSeq /\ p.committedSeq = r.committedSeq
        /\ p.closed = r.closed
    <2> DEFINE e == <<>>
               n == 0
               a == [r EXCEPT !.queue = e, !.slots = e, !.bytesInFlight = n, !.rowsInFlight = n]
    <2>1. e \in Seq(Items) /\ e \in SlotMaps /\ e \in ChargeMaps /\ n \in Int
      BY NoSlots
    <2>2. p = [a EXCEPT !.inflightLeases = n, !.unreclaimed = e, !.unreclaimedBytes = n]
      BY DEF Discarded
    <2>3. a = [r EXCEPT !.queue = e, !.slots = e, !.bytesInFlight = n, !.rowsInFlight = n]
      OBVIOUS
    <2> HIDE DEF e, n, a, p
    <2>4. /\ a \in Rings /\ a.queue = e /\ a.slots = e /\ a.bytesInFlight = n /\ a.rowsInFlight = n
          /\ a.nextSeq = r.nextSeq /\ a.committedSeq = r.committedSeq /\ a.closed = r.closed
      BY <1>0, <2>1, <2>3 DEF Rings
    <2>5. /\ p \in Rings /\ p.queue = a.queue /\ p.slots = a.slots
          /\ p.bytesInFlight = a.bytesInFlight /\ p.rowsInFlight = a.rowsInFlight
          /\ p.inflightLeases = n /\ p.unreclaimed = e /\ p.unreclaimedBytes = n
          /\ p.nextSeq = a.nextSeq /\ p.committedSeq = a.committedSeq /\ p.closed = a.closed
      BY <2>1, <2>2, <2>4 DEF Rings
    <2> QED BY <2>4, <2>5 DEF e, n
  <1> HIDE DEF p
  <1>2. /\ \A a \in A : a.seq < p.nextSeq
        /\ \A a, b \in A : a.seq = b.seq => a = b
    BY <1>1 DEF RingInv, AppendsAgree
  <1>3. /\ \A l \in L : Consecutive(l.items) /\ \A s \in ItemSeqs(l.items) : s < p.nextSeq
        /\ \A l, m \in L : l # m => ItemSeqs(l.items) \intersect ItemSeqs(m.items) = {}
    BY <1>1 DEF RingInv, LeasesAgree
  <1>4. RingInv(p, A, L) /\ HeldSeqs(p) = {} /\ WithinBudget(p) /\ Live(p, L) = {}
    BY <1>0, <1>1, <1>2, <1>3, EmptyRing
  <1>5. t = AdvanceWatermark(p)
    BY DEF p
  <1>6. /\ RingInv(t, A, L) /\ SameQueue(p, t) /\ SameFlags(p, t) /\ Shrinks(p, t)
        /\ Advanced(p.committedSeq, t)
    BY <1>4, <1>5, WatermarkKeeps
  <1>7. WithinBudget(t)
    BY <1>1, <1>4, <1>6, BudgetKeeps
  <1>8. HeldSeqs(t) = {} /\ Live(t, L) = {}
    BY <1>4, <1>6 DEF SameQueue, HeldSeqs, Live, SeqsIn
  <1> QED BY <1>1, <1>6, <1>7, <1>8 DEF SameQueue, SameFlags

(* Storage failures and the discard. *)
LEMMA FailureSafe ==
    ASSUME RingSafe, StorageFails \/ DiscardRemaining
    PROVE  RingSafe'
  <1>0. RingInv(ring, appends, leases) /\ WithinBudget(ring) /\ ring \in Rings
    BY DEF RingSafe, RingInv, RingShapes
  <1>1. CASE StorageFails /\ ring' = ring
    BY <1>1, SafeIdle DEF StorageFails
  <1>2. CASE StorageFails /\ ring' = [ring EXCEPT !.fatal = TRUE]
    <2>1. UNCHANGED <<appends, leases, consumer>>
      BY <1>2 DEF StorageFails
    <2>2. RingInv(ring', appends, leases) /\ SameLedger(ring, ring') /\ SameBytes(ring, ring')
      BY <1>0, <1>2, FlagSet
    <2>3. HeldSeqs(ring') = HeldSeqs(ring)
      BY <2>2 DEF SameLedger, HeldSeqs
    <2>4. WithinBudget(ring')
      BY <1>0, <2>2, <2>3, SameCharges
    <2>5. ring'.closed = ring.closed
      BY <1>0, <1>2 DEF Rings
    <2> QED BY <2>1, <2>2, <2>3, <2>4, <2>5, SafeSteps
  <1>3. CASE DiscardRemaining
    <2>1. ring' = AdvanceWatermark(Discarded(ring)) /\ UNCHANGED <<appends, leases, consumer>>
      BY <1>3 DEF DiscardRemaining, Discarded
    <2>2. /\ RingInv(ring', appends, leases) /\ HeldSeqs(ring') = {} /\ WithinBudget(ring')
          /\ ring'.closed = ring.closed
      BY <1>0, <2>1, DiscardEmpties
    <2> QED BY <2>1, <2>2, SafeSteps
  <1> QED BY <1>1, <1>2, <1>3 DEF StorageFails

(* The other steps of a sender. *)
LEMMA SenderSafe ==
    ASSUME RingSafe, NEW s \in Senders, BeginSend(s) \/ SendFails(s) \/ DropSender(s)
    PROVE  RingSafe'
  <1>0. RingInv(ring, appends, leases) /\ WithinBudget(ring) /\ ring \in Rings
    BY DEF RingSafe, RingInv, RingShapes
  <1>1. UNCHANGED <<appends, leases, consumer>> /\ (ring' = ring \/ ring' = [ring EXCEPT !.closed = TRUE])
    BY DEF BeginSend, SendFails, DropSender
  <1>2. CASE ring' = ring
    BY <1>1, <1>2, SafeIdle
  <1>3. CASE ring' = [ring EXCEPT !.closed = TRUE]
    <2>1. RingInv(ring', appends, leases) /\ SameLedger(ring, ring') /\ SameBytes(ring, ring')
      BY <1>0, <1>3, FlagSet
    <2>2. HeldSeqs(ring') = HeldSeqs(ring)
      BY <2>1 DEF SameLedger, HeldSeqs
    <2>3. WithinBudget(ring')
      BY <1>0, <2>1, <2>2, SameCharges
    <2>4. ring'.closed = TRUE
      BY <1>0, <1>3 DEF Rings
    <2> QED BY <1>1, <2>1, <2>2, <2>3, <2>4, SafeSteps
  <1> QED BY <1>1, <1>2, <1>3

-----------------------------------------------------------------------------
(* The invariant                                                            *)

(* A new ring is empty. *)
LEMMA InitInv == Init => BufferInv
  <1> SUFFICES ASSUME Init PROVE BufferInv
    OBVIOUS
  <1>0. MaxSeq \in Nat /\ MaxFaults \in Nat
    BY ConstantTypes
  <1>1. PICK m \in Modes :
        ring = [queue |-> <<>>, slots |-> <<>>, nextSeq |-> 1, committedSeq |-> 0,
                bytesInFlight |-> 0, rowsInFlight |-> 0, inflightLeases |-> 0,
                unreclaimed |-> <<>>, unreclaimedBytes |-> 0,
                closed |-> FALSE, receiverDropped |-> FALSE, fatal |-> FALSE, mode |-> m]
    BY DEF Init
  <1>2. /\ ring \in Rings /\ ring.queue = <<>> /\ ring.slots = <<>> /\ ring.bytesInFlight = 0
        /\ ring.rowsInFlight = 0 /\ ring.inflightLeases = 0 /\ ring.unreclaimed = <<>>
        /\ ring.unreclaimedBytes = 0
    BY <1>0, <1>1, NoSlots DEF Rings
  <1>3. appends = {} /\ leases = {} /\ consumer = "idle"
    BY DEF Init
  <1>4. IsFiniteSet(leases)
    BY <1>3, FS_EmptySet
  <1>5. RingInv(ring, appends, leases) /\ WithinBudget(ring)
    BY <1>2, <1>3, <1>4, EmptyRing
  <1>6. SendersAgree(pc, batch)
    BY DEF Init, SendersAgree, SenderPlaces
  <1>7. TasksAgree
    <2>1. fate \in [Seqs -> Fates] /\ faults \in 0..MaxFaults
      BY <1>0 DEF Init, Fates
    <2>2. {fatal, streak, dataReady} \subseteq BOOLEAN
      BY DEF Init
    <2> QED BY <1>3, <2>1, <2>2 DEF TasksAgree
  <1> QED BY <1>3, <1>5, <1>6, <1>7 DEF BufferInv, RingSafe

(* Every step keeps the invariant. *)
LEMMA StepInv == BufferInv /\ [Next]_vars => BufferInv'
  <1> SUFFICES ASSUME BufferInv, [Next]_vars PROVE BufferInv'
    OBVIOUS
  <1>0. RingSafe /\ SendersAgree(pc, batch) /\ TasksAgree
    BY DEF BufferInv
  <1>1. CASE Next
    <2>1. SendersAgree(pc', batch') /\ TasksAgree'
      BY <1>0, <1>1, SendersKeep, TasksKeep
    <2>2. RingSafe'
      <3>1. ASSUME NEW s \in Senders, SenderStep(s) PROVE RingSafe'
        BY <1>0, <3>1, TrySendSafe, SenderSafe DEF SenderStep
      <3>2. ASSUME NEW a \in appends, WriterStep(a) PROVE RingSafe'
        BY <1>0, <3>2, WriterSafe
      <3>3. ASSUME NEW l \in leases, SinkStep(l) PROVE RingSafe'
        BY <1>0, <3>3, SinkSafe
      <3> QED BY <1>0, <1>1, <3>1, <3>2, <3>3, ConsumerSafe, TimerSafe, FailureSafe DEF Next
    <2> QED BY <2>1, <2>2 DEF BufferInv
  <1>2. CASE UNCHANGED vars
    BY <1>0, <1>2 DEF vars, BufferInv, RingSafe, TasksAgree
  <1> QED BY <1>1, <1>2

(* Whatever order sends, appends, leases, their ends, failures and a discard come in: queue, slots,
   reservations and leases of the ring agree, its counters say what it holds, the budget is kept, and
   nothing is left behind a None. *)
THEOREM BufferInvariant == Spec => []BufferInv
  BY InitInv, StepInv, PTL DEF Spec

-----------------------------------------------------------------------------
(* What the invariant says of the ring                                      *)

(* The shapes of the ring and of those who use it. *)
LEMMA InvTypes == BufferInv => TypeOK
  <1> SUFFICES ASSUME BufferInv PROVE TypeOK
    OBVIOUS
  <1>1. /\ RingInv(ring, appends, leases) /\ ring \in Rings /\ appends \subseteq Reservations
        /\ leases \subseteq Grants /\ SendersAgree(pc, batch) /\ TasksAgree
    BY DEF BufferInv, RingSafe, RingInv, RingShapes
  <1>2. /\ ring.queue \in Seq(Items) /\ HeldSeqs(ring) \subseteq Seqs
        /\ ring.nextSeq \in 1..(MaxSeq + 1) /\ ring.committedSeq \in 0..MaxSeq
        /\ DOMAIN ring.unreclaimed \subseteq Seqs /\ ring.slots \in SlotMaps
    BY <1>1, RingTypes
  <1>3. \A s \in HeldSeqs(ring) : ring.slots[s] \in {"Reserved", "Queued", "InFlight"}
    BY <1>2, MapTypes DEF HeldSeqs
  <1>4. {ring.bytesInFlight, ring.rowsInFlight, ring.inflightLeases, ring.unreclaimedBytes} \subseteq Nat
    BY <1>1, NothingCharged
  <1>5. \A f \in {ring.closed, ring.receiverDropped, ring.fatal, fatal, streak} : f \in BOOLEAN
    BY <1>1 DEF Rings, TasksAgree
  <1>6. /\ pc \in [Senders -> {"idle", "ready", "blocked", "woken", "retrying", "appending", "dropped"}]
        /\ batch \in [Senders -> Batches \union {NoBatch}]
    BY <1>1 DEF SendersAgree, SenderPlaces
  <1>7. /\ consumer \in {"idle", "polling", "waiting", "sleeping", "finished", "dropped"}
        /\ dataReady \in BOOLEAN /\ faults \in 0..MaxFaults
        /\ fate \in [Seqs -> {"None", "Committed", "DeadLettered", "Evicted", "Discarded", "RolledBack"}]
    BY <1>1 DEF TasksAgree, Fates
  <1>8. \A l \in leases : l.items \in Seq(Items) /\ l.attempt \in Nat /\ l.phase \in {"held", "quarantining"}
    BY <1>1 DEF Grants
  <1>9. appends \subseteq [seq : Seqs, batch : Batches, by : Senders]
    BY <1>1 DEF Reservations
  <1> QED BY <1>2, <1>3, <1>4, <1>5, <1>6, <1>7, <1>8, <1>9 DEF TypeOK

(* The leases that hold slots. *)
LEMMA LiveOnes == LiveLeases = Live(ring, leases)
  BY DEF LiveLeases, Live, OwnedBy

(* Queue, slots, reservations and leases agree. *)
LEMMA InvSlots == BufferInv => SlotsAgree
  <1> SUFFICES ASSUME BufferInv PROVE SlotsAgree
    OBVIOUS
  <1>1. QueueAgrees(ring) /\ AppendsAgree(ring, appends) /\ LeasesAgree(ring, leases)
    BY DEF BufferInv, RingSafe, RingInv
  <1>2. /\ \A i, j \in DOMAIN ring.queue : i < j => ring.queue[i].seq < ring.queue[j].seq
        /\ ItemSeqs(ring.queue) = SeqsIn(ring, "Queued")
    BY <1>1 DEF QueueAgrees, Ascends
  <1>3. {a.seq : a \in LiveAppends} = SeqsIn(ring, "Reserved")
    BY <1>1 DEF AppendsAgree, LiveAppends
  <1>4. UNION {ItemSeqs(l.items) : l \in LiveLeases} = SeqsIn(ring, "InFlight")
    <2>1. ASSUME NEW l \in LiveLeases, NEW s \in ItemSeqs(l.items) PROVE s \in SeqsIn(ring, "InFlight")
      <3>1. l \in leases /\ ItemSeqs(l.items) \intersect SeqsIn(ring, "InFlight") # {}
        BY LiveOnes DEF Live
      <3>2. ItemSeqs(l.items) \subseteq SeqsIn(ring, "InFlight")
        BY <1>1, <3>1 DEF LeasesAgree, SeqsIn, HeldSeqs
      <3> QED BY <3>2
    <2>2. ASSUME NEW s \in SeqsIn(ring, "InFlight") PROVE \E l \in LiveLeases : s \in ItemSeqs(l.items)
      BY <1>1, LiveOnes DEF LeasesAgree, Live
    <2> QED BY <2>1, <2>2
  <1>5. \A l \in leases : \A i \in DOMAIN l.items : l.items[i].seq = l.items[1].seq + i - 1
    BY <1>1 DEF LeasesAgree, Consecutive
  <1> QED BY <1>2, <1>3, <1>4, <1>5 DEF SlotsAgree

(* Whoever holds a slot knows its batch. *)
LEMMA InvCounts == BufferInv => CountersExact
  <1> SUFFICES ASSUME BufferInv PROVE CountersExact
    OBVIOUS
  <1> DEFINE H == HeldSeqs(ring)
             Holders == ToSet(ring.queue) \union UNION {ToSet(l.items) : l \in leases}
             sizes == [s \in H |-> IF ring.slots[s] = "Reserved"
                                   THEN (CHOOSE a \in appends : a.seq = s).batch
                                   ELSE (CHOOSE e \in Holders : e.seq = s).batch]
  <1>0. RingInv(ring, appends, leases) /\ ring \in Rings
    BY DEF BufferInv, RingSafe, RingInv, RingShapes
  <1>1. QueueAgrees(ring) /\ AppendsAgree(ring, appends) /\ LeasesAgree(ring, leases)
    BY <1>0 DEF RingInv
  <1>2. PICK z \in [H -> Batches] : Sized(ring, appends, leases, z) /\ Counts(ring, leases, z)
    BY <1>0 DEF RingInv
  <1>3. Holders = Entries(ring.queue) \union UNION {Entries(l.items) : l \in leases}
    BY DEF ToSet, Entries
  <1> HIDE DEF Holders
  <1>4. ASSUME NEW s \in H, ring.slots[s] = "Reserved" PROVE (CHOOSE a \in appends : a.seq = s).batch = z[s]
    <2>1. \E a \in appends : a.seq = s
      BY <1>1, <1>4 DEF AppendsAgree, SeqsIn, HeldSeqs
    <2>2. \A a \in appends : a.seq = s => a.batch = z[s]
      BY <1>2 DEF Sized
    <2> QED BY <2>1, <2>2
  <1>5. ASSUME NEW s \in H, ring.slots[s] # "Reserved" PROVE (CHOOSE e \in Holders : e.seq = s).batch = z[s]
    <2>1. \E e \in Holders : e.seq = s
      <3>1. s \in SeqsIn(ring, "Queued") \/ s \in SeqsIn(ring, "InFlight")
        <4>1. ring.slots \in SlotMaps
          BY <1>0, RingTypes
        <4>2. ring.slots[s] \in {"Reserved", "Queued", "InFlight"}
          BY <4>1, MapTypes DEF HeldSeqs
        <4> QED BY <1>5, <4>2 DEF SeqsIn, HeldSeqs
      <3>2. CASE s \in SeqsIn(ring, "Queued")
        <4>1. s \in ItemSeqs(ring.queue)
          BY <1>1, <3>2 DEF QueueAgrees
        <4> QED BY <1>3, <4>1, EntrySeqs
      <3>3. CASE s \in SeqsIn(ring, "InFlight")
        <4>1. PICK l \in leases : s \in ItemSeqs(l.items)
          BY <1>1, <3>3 DEF LeasesAgree
        <4>2. PICK e \in Entries(l.items) : e.seq = s
          BY <4>1, EntrySeqs
        <4> QED BY <1>3, <4>2
      <3> QED BY <3>1, <3>2, <3>3
    <2>2. \A e \in Holders : e.seq = s => e.batch = z[s]
      BY <1>2, <1>3 DEF Sized
    <2> QED BY <2>1, <2>2
  <1>6. \A s \in H : sizes[s] = z[s]
    BY <1>4, <1>5
  <1>7. [s \in H |-> sizes[s].bytes] = ByteSizes(z) /\ [s \in H |-> sizes[s].rows] = RowSizes(z)
    <2> HIDE DEF sizes
    <2> QED BY <1>2, <1>6 DEF ByteSizes, RowSizes
  <1>8. /\ ring.bytesInFlight = SumOf([s \in H |-> sizes[s].bytes])
        /\ ring.rowsInFlight = SumOf([s \in H |-> sizes[s].rows])
        /\ ring.inflightLeases = Cardinality(LiveLeases)
        /\ ring.unreclaimedBytes = SumOf(ring.unreclaimed)
    <2> HIDE DEF sizes
    <2> QED BY <1>2, <1>7, LiveOnes DEF Counts
  <1> QED BY <1>8 DEF CountersExact, Holders

(* SignalRing's fields keep their shapes, and none of its counters ever falls below zero: every
   saturating_sub of the code subtracts at most what is there. *)
THEOREM BufferTypeOK == Spec => []TypeOK
  BY BufferInvariant, InvTypes, PTL

(* `slots`, the queue, the reservations and the leases tell one story, whatever order appends finish
   and leases are nacked in, also when a discard has taken the slots of some. *)
THEOREM SlotsAlwaysAgree == Spec => []SlotsAgree
  BY BufferInvariant, InvSlots, PTL

(* bytes_in_flight, rows_in_flight, inflight_leases and the charge of evicted frames are exact, for
   batches of any size and any number of leases. *)
THEOREM CountersAreExact == Spec => []CountersExact
  BY BufferInvariant, InvCounts, PTL

(* A ring never holds and pins more than its share of max_buffer_bytes, except for one batch that is
   larger than the whole share and alone. *)
THEOREM BudgetIsRespected == Spec => []BudgetRespected
  <1>1. BufferInv => BudgetRespected
    BY DEF BufferInv, RingSafe, WithinBudget, Charged, BudgetRespected
  <1> QED BY <1>1, BufferInvariant, PTL

(* next_lease says None of an empty ring only, and the ring stays empty. *)
THEOREM NoneSaysEmpty == Spec => []NoneMeansEmpty
  <1>1. BufferInv => NoneMeansEmpty
    BY DEF BufferInv, RingSafe, NoneMeansEmpty
  <1> QED BY <1>1, BufferInvariant, PTL

-----------------------------------------------------------------------------
(* The ledger                                                               *)

(* The status the ledger sees of a ring r and the fates f. *)
StatusOf(r, f) ==
    [s \in Seqs |-> IF s \in HeldSeqs(r) THEN r.slots[s]
                    ELSE IF f[s] = "None" THEN "Unassigned" ELSE f[s]]

RangeOf(l) == [first |-> l.items[1].seq, last |-> l.items[Len(l.items)].seq]

RangesOf(X) == {RangeOf(l) : l \in X}

(* st with the status v for what is in S. *)
Marks(st, S, v) == [s \in Seqs |-> IF s \in S THEN v ELSE st[s]]

(* The fates f, with the fate v for what is in S. *)
FatesWith(f, S, v) == [s \in Seqs |-> IF s \in S THEN v ELSE f[s]]

(* The ledger's variables are those of the ring. *)
LEMMA LedgerView ==
    /\ LedgerStatus = StatusOf(ring, fate)
    /\ LedgerLeases = RangesOf(Live(ring, leases))
  BY LiveOnes DEF LedgerStatus, LedgerLeases, StatusOf, RangesOf, RangeOf

(* Slots that leave with a fate. *)
LEMMA StatusLeaves ==
    ASSUME NEW r, NEW t, NEW f, NEW S, S \subseteq HeldSeqs(r), HeldSeqs(r) \subseteq Seqs,
           t.slots = Without(r, S), NEW v, v # "None"
    PROVE  StatusOf(t, FatesWith(f, S, v)) = Marks(StatusOf(r, f), S, v)
  BY DEF StatusOf, Marks, FatesWith, Without, HeldSeqs

(* Slots that change their state, or are new. *)
LEMMA StatusMoves ==
    ASSUME NEW r, NEW t, NEW f, NEW S, S \subseteq Seqs, HeldSeqs(r) \subseteq Seqs,
           NEW v, t.slots = Put(r, S, v)
    PROVE  StatusOf(t, f) = Marks(StatusOf(r, f), S, v)
  BY DEF StatusOf, Marks, Put, HeldSeqs

(* Slots that stay. *)
LEMMA StatusStays ==
    ASSUME NEW r, NEW t, NEW f, t.slots = r.slots
    PROVE  StatusOf(t, f) = StatusOf(r, f)
  BY DEF StatusOf, HeldSeqs

(* A fate given to nothing. *)
LEMMA NoFate ==
    ASSUME NEW f \in [Seqs -> Fates], NEW v
    PROVE  FatesWith(f, {}, v) = f
  BY DEF FatesWith

(* What the ledger takes for held is what the ring holds. *)
LEMMA LedgerHeld ==
    ASSUME NEW r \in Rings, NEW f \in [Seqs -> Fates]
    PROVE  Ledger!HeldIn(StatusOf(r, f)) = HeldSeqs(r)
  <1>1. r.slots \in SlotMaps /\ HeldSeqs(r) \subseteq Seqs
    BY RingTypes
  <1>2. \A s \in HeldSeqs(r) : r.slots[s] \in {"Reserved", "Queued", "InFlight"}
    BY <1>1, MapTypes DEF HeldSeqs
  <1>3. ASSUME NEW s \in Seqs PROVE StatusOf(r, f)[s] \in Ledger!Held <=> s \in HeldSeqs(r)
    <2>1. CASE s \in HeldSeqs(r)
      BY <1>2, <2>1 DEF StatusOf, Ledger!Held
    <2>2. CASE s \notin HeldSeqs(r)
      <3>1. f[s] \in Fates
        OBVIOUS
      <3> QED BY <2>2, <3>1 DEF StatusOf, Ledger!Held, Fates
    <2> QED BY <2>1, <2>2
  <1> QED BY <1>1, <1>3 DEF Ledger!HeldIn, Ledger!Seqs, Seqs

(* advance_watermark is the ledger's. *)
LEMMA LedgerAdvances ==
    ASSUME NEW t \in Rings, NEW f \in [Seqs -> Fates], t.nextSeq = ring.nextSeq,
           Advanced(ring.committedSeq, t), ring'.committedSeq = t.committedSeq
    PROVE  Ledger!AdvanceWatermark(StatusOf(t, f))
  <1>1. Ledger!HeldIn(StatusOf(t, f)) = HeldSeqs(t)
    BY LedgerHeld
  <1>2. PICK c \in 0..MaxSeq : /\ Candidate(t, c)
                               /\ t.committedSeq = IF c > ring.committedSeq THEN c ELSE ring.committedSeq
    BY DEF Advanced
  <1>3. Ledger!IsCandidate(StatusOf(t, f), ring.nextSeq, c)
    BY <1>1, <1>2 DEF Ledger!IsCandidate, Candidate
  <1> QED BY <1>2, <1>3 DEF Ledger!AdvanceWatermark

(* A lease holds the range from its first to its last item. *)
LEMMA RangeOfLease ==
    ASSUME NEW r, NEW A, NEW L, RingInv(r, A, L), NEW l \in L
    PROVE  /\ RangeOf(l) \in Ledger!Ranges
           /\ Ledger!SeqsOf(RangeOf(l)) = ItemSeqs(l.items)
  <1> DEFINE items == l.items
             n == Len(items)
  <1>1. items \in Seq(Items) /\ Consecutive(items)
    BY LeaseTypes
  <1> HIDE DEF items
  <1>2. /\ n \in 1..n /\ 1 \in 1..n
        /\ \A i \in 1..n : items[i] \in Items
        /\ items[1].seq <= items[n].seq /\ ItemSeqs(items) = items[1].seq..items[n].seq
    BY <1>1, RunOfItems
  <1> HIDE DEF n
  <1>3. items[1].seq \in Seqs /\ items[n].seq \in Seqs
    BY <1>2 DEF Items
  <1>4. RangeOf(l) = [first |-> items[1].seq, last |-> items[n].seq]
    BY DEF RangeOf, items, n
  <1>5. RangeOf(l) \in Ledger!Ranges
    BY <1>2, <1>3, <1>4 DEF Ledger!Ranges, Ledger!Seqs, Seqs
  <1>6. Ledger!SeqsOf(RangeOf(l)) = ItemSeqs(items)
    BY <1>2, <1>4 DEF Ledger!SeqsOf
  <1> QED BY <1>5, <1>6 DEF items

(* Leases that hold something hold different ranges. *)
LEMMA RangesApart ==
    ASSUME NEW r, NEW A, NEW L, RingInv(r, A, L), NEW l \in L, NEW X \in SUBSET L
    PROVE  RangesOf(X \ {l}) = RangesOf(X) \ {RangeOf(l)} \/ l \notin X
  <1> SUFFICES ASSUME l \in X PROVE RangesOf(X \ {l}) = RangesOf(X) \ {RangeOf(l)}
    OBVIOUS
  <1>1. ASSUME NEW m \in X, m # l PROVE RangeOf(m) # RangeOf(l)
    <2>1. Ledger!SeqsOf(RangeOf(m)) = ItemSeqs(m.items) /\ Ledger!SeqsOf(RangeOf(l)) = ItemSeqs(l.items)
      BY RangeOfLease
    <2>2. ItemSeqs(l.items) \intersect ItemSeqs(m.items) = {} /\ ItemSeqs(l.items) # {}
      BY <1>1, LeaseTypes
    <2> QED BY <2>1, <2>2
  <1> QED BY <1>1 DEF RangesOf

(* The same after a step. *)
LEMMA LedgerViewNext ==
    /\ LedgerStatus' = StatusOf(ring', fate')
    /\ LedgerLeases' = RangesOf(Live(ring', leases'))
  BY DEF LedgerStatus, LedgerLeases, LiveLeases, Live, OwnedBy, StatusOf, RangesOf, RangeOf

(* The ledger's SetStatus. *)
LEMMA LedgerSets ==
    ASSUME NEW S, NEW v
    PROVE  Ledger!SetStatus(S, v) = Marks(StatusOf(ring, fate), S, v)
  BY LedgerView DEF Ledger!SetStatus, Ledger!Seqs, Seqs, Marks

(* A lease counts by the slots it holds InFlight. *)
LEMMA LiveSame ==
    ASSUME NEW r, NEW t, NEW L, SeqsIn(t, "InFlight") = SeqsIn(r, "InFlight")
    PROVE  Live(t, L) = Live(r, L)
  BY DEF Live

(* A step of the ring that the ledger does not see. *)
LEMMA LedgerIdle ==
    ASSUME SameLedger(ring, ring'), fate' = fate,
           RangesOf(Live(ring', leases')) = RangesOf(Live(ring, leases))
    PROVE  UNCHANGED Ledger!vars
  <1>1. LedgerStatus' = LedgerStatus
    BY LedgerView, LedgerViewNext, StatusStays DEF SameLedger
  <1>2. LedgerLeases' = LedgerLeases
    BY LedgerView, LedgerViewNext
  <1> QED BY <1>1, <1>2 DEF SameLedger, Ledger!vars

(* A step that leaves ring and leases alone. *)
LEMMA LedgerSleeps ==
    ASSUME SameLedger(ring, ring'), UNCHANGED <<leases, fate>>
    PROVE  UNCHANGED Ledger!vars
  <1>1. Live(ring', leases') = Live(ring, leases)
    BY DEF SameLedger, Live, SeqsIn
  <1> QED BY <1>1, LedgerIdle

(* Fates that are set. *)
LEMMA FatesSet ==
    ASSUME NEW S, NEW v, SetFates(S, v)
    PROVE  fate' = FatesWith(fate, S, v)
  BY DEF SetFates, FatesWith

LedgerStep == UNCHANGED Ledger!vars \/ Ledger!Next

(* AppendReservation::finish is the ledger's Append or Rollback. *)
LEMMA WriterLedger ==
    ASSUME BufferInv, NEW a \in appends, WriterStep(a)
    PROVE  LedgerStep
  <1>0. /\ RingInv(ring, appends, leases) /\ ring \in Rings /\ appends \subseteq Reservations
        /\ fate \in [Seqs -> Fates]
    BY DEF BufferInv, RingSafe, RingInv, RingShapes, TasksAgree
  <1>1. a.seq \in Seqs /\ HeldSeqs(ring) \subseteq Seqs
    BY <1>0, RingTypes DEF Reservations
  <1> DEFINE S == {a.seq}
  <1>2. CASE AppendOk(a) /\ a.seq \in SeqsIn(ring, "Reserved")
    <2>1. ring' = Appended(ring, a) /\ leases' = leases /\ fate' = fate
      BY <1>2 DEF AppendOk, Appended
    <2>2. /\ RingInv(ring', appends \ {a}, leases) /\ ring'.slots = Put(ring, {a.seq}, "Queued")
          /\ ring'.nextSeq = ring.nextSeq /\ ring'.committedSeq = ring.committedSeq
      BY <1>0, <1>2, <2>1, AppendKeeps, SMTT(60)
    <2>3. LedgerStatus[a.seq] = "Reserved"
      BY <1>1, <1>2, LedgerView DEF StatusOf, SeqsIn, HeldSeqs
    <2>4. LedgerStatus' = Ledger!SetStatus(S, "Queued")
      <3>1. S \subseteq Seqs /\ ring'.slots = Put(ring, S, "Queued")
        BY <1>1, <2>2
      <3> HIDE DEF S
      <3>2. StatusOf(ring', fate) = Marks(StatusOf(ring, fate), S, "Queued")
        BY <1>1, <3>1, StatusMoves
      <3> QED BY <2>1, <3>2, LedgerSets, LedgerViewNext
    <2>5. LedgerLeases' = LedgerLeases
      <3>1. SlotsMoved(ring, S, "Queued", ring')
        BY <2>2, SlotsPut
      <3>2. SeqsIn(ring', "InFlight") = SeqsIn(ring, "InFlight")
        BY <1>2, <3>1 DEF SlotsMoved, SeqsIn
      <3> QED BY <2>1, <3>2, LiveSame, LedgerView, LedgerViewNext
    <2>6. Ledger!Append(a.seq)
      BY <2>2, <2>3, <2>4, <2>5 DEF Ledger!Append
    <2> QED BY <1>1, <2>6 DEF LedgerStep, Ledger!Next, Ledger!Seqs, Seqs
  <1>3. CASE AppendOk(a) /\ a.seq \notin SeqsIn(ring, "Reserved")
    <2>1. ring' = ring /\ leases' = leases /\ fate' = fate
      BY <1>3 DEF AppendOk
    <2> QED BY <2>1, LedgerSleeps DEF SameLedger, LedgerStep
  <1>4. CASE AppendFails(a)
    <2> DEFINE p == RollbackSlot(ring, a)
    <2>1. /\ leases' = leases /\ fate' = FatesWith(fate, {a.seq} \intersect HeldSeqs(ring), "RolledBack")
          /\ \E finished \in BOOLEAN : ring' = [p EXCEPT !.fatal = @ \/ finished]
      BY <1>4, FatesSet DEF AppendFails
    <2>2. /\ RingInv(p, appends \ {a}, leases) /\ p.nextSeq = ring.nextSeq
          /\ IF a.seq \notin HeldSeqs(ring) THEN p = ring
             ELSE /\ ring.slots[a.seq] = "Reserved" /\ p.slots = Without(ring, {a.seq})
                  /\ Advanced(ring.committedSeq, p)
      BY <1>0, RollbackKeeps
    <2> HIDE DEF p
    <2>3. p \in Rings
      BY <2>2 DEF RingInv, RingShapes
    <2>4. SameLedger(p, ring')
      BY <2>1, <2>3 DEF Rings, SameLedger
    <2>5. CASE a.seq \notin HeldSeqs(ring)
      <3>1. fate' = fate
        <4>1. {a.seq} \intersect HeldSeqs(ring) = {}
          BY <2>5
        <4> QED BY <1>0, <2>1, <4>1, NoFate
      <3> QED BY <2>1, <2>2, <2>4, <2>5, <3>1, LedgerSleeps DEF LedgerStep
    <2>6. CASE a.seq \in HeldSeqs(ring)
      <3>1. S \subseteq HeldSeqs(ring) /\ {a.seq} \intersect HeldSeqs(ring) = S
        BY <2>6
      <3>2. p.slots = Without(ring, S) /\ Advanced(ring.committedSeq, p) /\ ring.slots[a.seq] = "Reserved"
        BY <2>2, <2>6
      <3>3. fate' = FatesWith(fate, S, "RolledBack")
        BY <2>1, <3>1
      <3>4. SeqsIn(ring', "InFlight") = SeqsIn(ring, "InFlight")
        BY <2>4, <3>2 DEF SameLedger, Without, SeqsIn, HeldSeqs
      <3> HIDE DEF S
      <3>5. LedgerStatus' = Marks(StatusOf(ring, fate), S, "RolledBack")
        BY <1>1, <2>4, <3>1, <3>2, <3>3, StatusLeaves, LedgerViewNext DEF SameLedger
      <3>6. LedgerStatus' = StatusOf(p, fate')
        BY <2>4, StatusStays, LedgerViewNext DEF SameLedger
      <3>7. fate' \in [Seqs -> Fates]
        BY <1>0, <3>3 DEF FatesWith, Fates
      <3>8. Ledger!AdvanceWatermark(LedgerStatus')
        BY <2>2, <2>3, <2>4, <3>2, <3>6, <3>7, LedgerAdvances DEF SameLedger
      <3>9. LedgerLeases' = LedgerLeases
        BY <2>1, <3>4, LiveSame, LedgerView, LedgerViewNext
      <3>10. LedgerStatus[a.seq] = "Reserved"
        BY <1>1, <2>6, <3>2, LedgerView DEF StatusOf
      <3>11. Ledger!Rollback(a.seq)
        BY <2>2, <2>4, <3>5, <3>8, <3>9, <3>10, LedgerSets DEF Ledger!Rollback, SameLedger, S
      <3> QED BY <1>1, <3>11 DEF LedgerStep, Ledger!Next, Ledger!Seqs, Seqs
    <2> QED BY <2>5, <2>6
  <1> QED BY <1>2, <1>3, <1>4 DEF WriterStep

(* reserve_or_enqueue_slot is the ledger's Evict or Admit. *)
LEMMA TrySendLedger ==
    ASSUME BufferInv, NEW s \in Senders, TrySend(s)
    PROVE  LedgerStep
  <1> DEFINE b == batch[s]
             n == EvictionCount(ring, b)
             r == EvictFront(ring, n)
             q == ring.queue
             E == {q[i].seq : i \in 1..n}
             state == IF Disk THEN "Reserved" ELSE "Queued"
  <1>0. /\ RingInv(ring, appends, leases) /\ ring \in Rings /\ fate \in [Seqs -> Fates]
        /\ SendersAgree(pc, batch)
    BY DEF BufferInv, RingSafe, RingInv, RingShapes, TasksAgree
  <1>1. b \in Batches /\ leases' = leases
    BY <1>0 DEF TrySend, SendersAgree
  <1>2. n \in 0..Len(ring.queue)
    BY <1>0, EvictionCountType
  <1>3. \/ /\ CanAdmit(r, b) /\ r.nextSeq <= MaxSeq /\ ring' = AssignSeq(r, b)
        \/ ring' = r
    BY DEF TrySend
  <1>4. fate' = FatesWith(fate, ItemSeqs(SubSeq(q, 1, n)), "Evicted")
    BY FatesSet DEF TrySend
  <1> HIDE DEF b, n
  <1>5. EvictedTo(ring, appends, leases, n, r)
    BY <1>0, <1>2, EvictFrontKeeps
  <1> HIDE DEF r
  <1>6. /\ RingInv(r, appends, leases) /\ r \in Rings /\ E \subseteq SeqsIn(ring, "Queued")
        /\ r.slots = Without(ring, E) /\ r.nextSeq = ring.nextSeq
        /\ IF n = 0 THEN r = ring ELSE Advanced(ring.committedSeq, r)
    BY <1>5 DEF EvictedTo, Without, RingInv, RingShapes
  <1>7. /\ q \in Seq(Items) /\ HeldSeqs(ring) \subseteq Seqs /\ Len(q) \in Nat
        /\ Ascends(q) /\ ItemSeqs(q) = SeqsIn(ring, "Queued")
        /\ MaxSeq \in Nat /\ Seqs \subseteq Nat
    BY <1>0, RingTypes, ConstantTypes DEF RingInv, QueueAgrees
  <1> HIDE DEF q
  <1>8. ItemSeqs(SubSeq(q, 1, n)) = E /\ \A x \in E, y \in ItemSeqs(q) \ E : x < y
    <2> DEFINE front == SubSeq(q, 1, n)
               rest == SubSeq(q, n + 1, Len(q))
    <2>0. n \in 0..Len(q)
      BY <1>2 DEF q
    <2>1. /\ ItemSeqs(front) = {q[i].seq : i \in 1..n}
          /\ ItemSeqs(rest) = ItemSeqs(q) \ ItemSeqs(front)
          /\ \A x \in ItemSeqs(front), y \in ItemSeqs(rest) : x < y
      BY <1>7, <2>0, QueueCut
    <2> QED BY <2>1
  <1>9. E \subseteq HeldSeqs(ring) /\ E \subseteq Seqs
    BY <1>6, <1>7 DEF SeqsIn, HeldSeqs
  <1>10. n = 0 <=> E = {}
    <2>1. n \in Nat
      BY <1>2, <1>7 DEF q
    <2>2. CASE n = 0
      BY <2>2
    <2>3. CASE n # 0
      <3>1. q[1].seq \in E
        BY <2>1, <2>3
      <3> QED BY <2>3, <3>1
    <2> QED BY <2>2, <2>3
  <1> HIDE DEF E
  <1>11. fate' = FatesWith(fate, E, "Evicted") /\ fate' \in [Seqs -> Fates]
    BY <1>0, <1>4, <1>8 DEF FatesWith, Fates
  <1>12. StatusOf(r, fate') = Ledger!SetStatus(E, "Evicted")
    <2>1. StatusOf(r, FatesWith(fate, E, "Evicted")) = Marks(StatusOf(ring, fate), E, "Evicted")
      <3> DEFINE v == "Evicted"
      <3>1. /\ E \subseteq HeldSeqs(ring) /\ HeldSeqs(ring) \subseteq Seqs
            /\ r.slots = Without(ring, E) /\ v # "None"
        BY <1>6, <1>7, <1>9
      <3> HIDE DEF v
      <3>2. StatusOf(r, FatesWith(fate, E, v)) = Marks(StatusOf(ring, fate), E, v)
        BY <3>1, StatusLeaves
      <3> QED BY <3>2 DEF v
    <2> QED BY <1>11, <2>1, LedgerSets
  <1>13. Ledger!IsQueueHead(E)
    <2>1. \A x \in Seqs : LedgerStatus[x] = "Queued" <=> x \in SeqsIn(ring, "Queued")
      <3>1. ASSUME NEW x \in Seqs, x \notin HeldSeqs(ring) PROVE LedgerStatus[x] # "Queued"
        <4>1. fate[x] \in Fates
          BY <1>0
        <4> QED BY <3>1, <4>1, LedgerView DEF StatusOf, Fates
      <3>2. ASSUME NEW x \in Seqs, x \in HeldSeqs(ring) PROVE LedgerStatus[x] = ring.slots[x]
        BY <3>2, LedgerView DEF StatusOf
      <3> QED BY <3>1, <3>2 DEF SeqsIn, HeldSeqs
    <2>2. \A x \in E : LedgerStatus[x] = "Queued"
      BY <1>6, <1>9, <2>1
    <2>3. \A x \in E, y \in Seqs : y < x /\ LedgerStatus[y] = "Queued" => y \in E
      <3>1. ASSUME NEW x \in E, NEW y \in Seqs, y < x, LedgerStatus[y] = "Queued", y \notin E PROVE FALSE
        <4>1. y \in ItemSeqs(q) \ E
          BY <1>7, <2>1, <3>1
        <4>2. x < y /\ x \in Nat /\ y \in Nat
          BY <1>7, <1>8, <1>9, <4>1
        <4> QED BY <3>1, <4>2
      <3> QED BY <3>1
    <2> QED BY <2>2, <2>3 DEF Ledger!IsQueueHead, Ledger!Seqs, Seqs
  <1>14. SeqsIn(r, "InFlight") = SeqsIn(ring, "InFlight")
    BY <1>6 DEF Without, SeqsIn, HeldSeqs
  <1>15. CASE ring' = r /\ n = 0
    <2>1. ring' = ring /\ fate' = fate
      BY <1>0, <1>6, <1>10, <1>11, <1>15, NoFate
    <2> QED BY <1>1, <2>1, LedgerSleeps DEF SameLedger, LedgerStep
  <1>16. CASE ring' = r /\ n # 0
    <2>1. LedgerStatus' = Ledger!SetStatus(E, "Evicted")
      BY <1>12, <1>16, LedgerViewNext
    <2>2. LedgerLeases' = LedgerLeases
      BY <1>1, <1>14, <1>16, LiveSame, LedgerView, LedgerViewNext
    <2>3. Ledger!AdvanceWatermark(LedgerStatus')
      BY <1>6, <1>11, <1>12, <1>16, <2>1, LedgerAdvances
    <2>4. Ledger!Evict(E)
      BY <1>6, <1>10, <1>13, <1>16, <2>1, <2>2, <2>3 DEF Ledger!Evict
    <2> QED BY <1>9, <2>4 DEF LedgerStep, Ledger!Next, Ledger!Seqs, Seqs
  <1>17. CASE CanAdmit(r, b) /\ r.nextSeq <= MaxSeq /\ ring' = AssignSeq(r, b)
    <2> DEFINE x == ring.nextSeq
               t == AssignSeq(r, b)
    <2>1. t.slots = Put(r, {r.nextSeq}, state) /\ t.nextSeq = r.nextSeq + 1
          /\ t.committedSeq = r.committedSeq /\ RingInv(t, ReservedBy(r, appends, b, s), leases)
      BY <1>1, <1>6, <1>17, AssignKeeps
    <2>2. ring'.slots = Put(r, {x}, state) /\ ring'.nextSeq = x + 1 /\ ring'.committedSeq = r.committedSeq
      BY <1>6, <1>17, <2>1
    <2>3. x \in Seqs /\ {x} \subseteq Seqs /\ x \notin HeldSeqs(r)
      <3>1. r.nextSeq \in 1..(MaxSeq + 1) /\ HeldSeqs(r) \subseteq Seqs
        BY <1>6, RingTypes
      <3>2. \A y \in HeldSeqs(r) : y < r.nextSeq
        BY <1>6 DEF RingInv, QueueAgrees
      <3> QED BY <1>6, <1>7, <1>17, <3>1, <3>2 DEF Seqs
    <2> HIDE DEF x, state, t
    <2>4. HeldSeqs(r) \subseteq Seqs
      BY <1>6, RingTypes
    <2>5. StatusOf(ring', fate') = Marks(StatusOf(r, fate'), {x}, state)
      BY <2>2, <2>3, <2>4, StatusMoves
    <2>6. LedgerStatus' = [Ledger!SetStatus(E, "Evicted") EXCEPT ![x] = state]
      <3> DEFINE st == Ledger!SetStatus(E, "Evicted")
      <3>1. st = Marks(StatusOf(ring, fate), E, "Evicted")
        BY LedgerSets
      <3>2. st = [y \in Seqs |-> st[y]]
        BY <3>1 DEF Marks
      <3>3. LedgerStatus' = Marks(st, {x}, state)
        BY <1>12, <2>5, LedgerViewNext
      <3> HIDE DEF st
      <3>4. LedgerStatus' = [st EXCEPT ![x] = state]
        BY <2>3, <3>2, <3>3 DEF Marks
      <3> QED BY <3>4 DEF st
    <2>7. LedgerLeases' = LedgerLeases
      <3>1. SlotsMoved(r, {x}, state, ring')
        BY <2>2, SlotsPut
      <3>2. SeqsIn(ring', "InFlight") = SeqsIn(r, "InFlight")
        <4>1. state # "InFlight"
          BY DEF state
        <4> QED BY <2>3, <3>1, <4>1 DEF SlotsMoved, SeqsIn, HeldSeqs
      <3> QED BY <1>1, <1>14, <3>2, LiveSame, LedgerView, LedgerViewNext
    <2>8. IF E = {} THEN ring'.committedSeq = ring.committedSeq
          ELSE Ledger!AdvanceWatermark(Ledger!SetStatus(E, "Evicted"))
      <3>1. CASE E = {}
        BY <1>6, <1>10, <2>2, <3>1
      <3>2. CASE E # {}
        <4>1. Advanced(ring.committedSeq, r)
          BY <1>6, <1>10, <3>2
        <4>2. Ledger!AdvanceWatermark(StatusOf(r, fate'))
          BY <1>6, <1>11, <2>2, <4>1, LedgerAdvances
        <4> QED BY <1>12, <3>2, <4>2
      <3> QED BY <3>1, <3>2
    <2>9. Ledger!Admit(E, state)
      BY <1>13, <2>2, <2>3, <2>6, <2>7, <2>8 DEF Ledger!Admit, Ledger!Seqs, Seqs, x
    <2>10. state \in {"Queued", "Reserved"}
      BY DEF state
    <2> QED BY <1>9, <2>9, <2>10 DEF LedgerStep, Ledger!Next, Ledger!Seqs, Seqs
  <1> QED BY <1>3, <1>15, <1>16, <1>17

(* The number of ranges is at most that of the leases. *)
LEMMA FewRanges ==
    ASSUME NEW X, IsFiniteSet(X)
    PROVE  Cardinality(RangesOf(X)) <= Cardinality(X) /\ IsFiniteSet(RangesOf(X))
           /\ Cardinality(RangesOf(X)) \in Nat
  <1> DEFINE f == [l \in X |-> RangeOf(l)]
  <1>1. f \in Surjection(X, RangesOf(X))
    BY DEF Surjection, RangesOf
  <1> HIDE DEF f
  <1>2. IsFiniteSet(RangesOf(X)) /\ Cardinality(RangesOf(X)) <= Cardinality(X)
    BY <1>1, FS_Surjection
  <1> QED BY <1>2, FS_CardinalityType

(* try_pop_signal_lease is the ledger's Lease. *)
LEMMA PopLedger ==
    ASSUME BufferInv, PopLease
    PROVE  LedgerStep
  <1> DEFINE n == CoalesceCount(ring.queue)
             items == SubSeq(ring.queue, 1, n)
             attempt == ring.queue[1].attempt
             l == Granted(items, attempt)
             S == ItemSeqs(items)
             r == RangeOf(l)
  <1>0. RingInv(ring, appends, leases) /\ ring \in Rings /\ fate \in [Seqs -> Fates]
    BY DEF BufferInv, RingSafe, RingInv, RingShapes, TasksAgree
  <1>1. /\ ring' = Leased(ring, n, items) /\ leases' = leases \union {l} /\ fate' = fate
        /\ LeaseIsReady(ring)
    BY DEF PopLease, Leased, Granted
  <1>2. /\ Popped(ring, appends, leases, items, l, ring') /\ items[1] = ring.queue[1]
        /\ items \in Seq(Items) /\ Consecutive(items)
    BY <1>0, <1>1, PopsRun
  <1>3. l.items = items
    BY DEF Granted
  <1> HIDE DEF items, l, attempt, n
  <1>4. /\ RingInv(ring', appends, leases \union {l})
        /\ ring'.nextSeq = ring.nextSeq /\ ring'.committedSeq = ring.committedSeq
        /\ S \subseteq SeqsIn(ring, "Queued") /\ ring'.slots = Put(ring, S, "InFlight")
        /\ Live(ring', leases \union {l}) = Live(ring, leases) \union {l}
        /\ \A s \in SeqsIn(ring, "Queued") \ S : \A x \in S : x < s
    BY <1>2 DEF Popped
  <1>5. r \in Ledger!Ranges /\ Ledger!SeqsOf(r) = S
    BY <1>3, <1>4, RangeOfLease
  <1>6. r.first = ring.queue[1].seq /\ r.first \in S
    <2>1. r.first = items[1].seq
      BY <1>3 DEF RangeOf
    <2>2. items[1].seq \in S
      BY <1>2, RunOfItems
    <2> QED BY <1>2, <2>1, <2>2
  <1>7. S \subseteq Seqs /\ HeldSeqs(ring) \subseteq Seqs /\ MaxSeq \in Nat /\ Seqs \subseteq Nat
    <2>1. HeldSeqs(ring) \subseteq Seqs
      BY <1>0, RingTypes
    <2> QED BY <1>4, <2>1, ConstantTypes DEF SeqsIn, HeldSeqs
  <1> HIDE DEF S, r
  <1>8. LedgerStatus' = Ledger!SetStatus(S, "InFlight")
    <2>1. StatusOf(ring', fate) = Marks(StatusOf(ring, fate), S, "InFlight")
      <3>1. S \subseteq Seqs /\ HeldSeqs(ring) \subseteq Seqs /\ ring'.slots = Put(ring, S, "InFlight")
        BY <1>4, <1>7
      <3> QED BY <3>1, StatusMoves
    <2> QED BY <1>1, <2>1, LedgerSets, LedgerViewNext
  <1>9. LedgerLeases' = LedgerLeases \union {r}
    <2>1. LedgerLeases' = RangesOf(Live(ring, leases) \union {l})
      BY <1>1, <1>4, LedgerViewNext
    <2> QED BY <2>1, LedgerView DEF RangesOf, r
  <1>10. Cardinality(LedgerLeases) < MaxInflight
    <2>1. ring.inflightLeases < MaxInflight
      BY <1>1 DEF LeaseIsReady, FrontIsNext
    <2>2. ring.inflightLeases = Cardinality(Live(ring, leases)) /\ IsFiniteSet(leases)
      BY <1>0 DEF RingInv, RingShapes, Counts
    <2>3. IsFiniteSet(Live(ring, leases))
      <3>1. Live(ring, leases) \subseteq leases
        BY DEF Live
      <3> QED BY <2>2, <3>1, FS_Subset
    <2>4. /\ Cardinality(LedgerLeases) <= Cardinality(Live(ring, leases))
          /\ Cardinality(LedgerLeases) \in Nat /\ Cardinality(Live(ring, leases)) \in Nat
      BY <2>3, FewRanges, LedgerView, FS_CardinalityType
    <2> QED BY <2>1, <2>2, <2>4, ConstantTypes
  <1>11. \A s \in Seqs : /\ s \in HeldSeqs(ring) => LedgerStatus[s] = ring.slots[s]
                         /\ s \notin HeldSeqs(ring) => LedgerStatus[s] \notin {"Queued", "Reserved"}
    <2>1. ASSUME NEW s \in Seqs, s \notin HeldSeqs(ring) PROVE LedgerStatus[s] \notin {"Queued", "Reserved"}
      <3>1. fate[s] \in Fates
        BY <1>0
      <3> QED BY <2>1, <3>1, LedgerView DEF StatusOf, Fates
    <2>2. ASSUME NEW s \in Seqs, s \in HeldSeqs(ring) PROVE LedgerStatus[s] = ring.slots[s]
      BY <2>2, LedgerView DEF StatusOf
    <2> QED BY <2>1, <2>2
  <1>12. \A s \in S : LedgerStatus[s] = "Queued"
    BY <1>4, <1>7, <1>11 DEF SeqsIn, HeldSeqs
  <1>13. Ledger!OldestWaiting(r)
    <2>1. ASSUME NEW t \in Seqs, t < r.first, LedgerStatus[t] \in {"Queued", "Reserved"} PROVE FALSE
      <3>0. r.first \in Nat /\ t \in Nat
        BY <1>6, <1>7
      <3>1. t \in HeldSeqs(ring) /\ ring.slots[t] \in {"Queued", "Reserved"}
        BY <1>11, <2>1
      <3>2. CASE ring.slots[t] = "Queued"
        <4>1. t \in SeqsIn(ring, "Queued")
          BY <3>1, <3>2 DEF SeqsIn, HeldSeqs
        <4>2. CASE t \notin S
          BY <1>4, <1>6, <2>1, <3>0, <4>1, <4>2
        <4>3. CASE t \in S
          <5>1. S = r.first..r.last
            BY <1>5 DEF Ledger!SeqsOf
          <5> QED BY <2>1, <3>0, <4>3, <5>1
        <4> QED BY <4>2, <4>3
      <3>3. CASE ring.slots[t] = "Reserved"
        <4>1. t \in SeqsIn(ring, "Reserved")
          BY <3>1, <3>3 DEF SeqsIn, HeldSeqs
        <4>2. t > ring.queue[1].seq
          BY <1>1, <4>1 DEF LeaseIsReady, FrontIsNext
        <4> QED BY <1>6, <2>1, <3>0, <4>2
      <3> QED BY <3>1, <3>2, <3>3
    <2> QED BY <2>1 DEF Ledger!OldestWaiting, Ledger!Seqs, Seqs
  <1>14. Ledger!Cardinality(LedgerLeases) = Cardinality(LedgerLeases)
    BY DEF Cardinality, Ledger!Cardinality, IsFiniteSet, Ledger!IsFiniteSet
  <1>15. Ledger!Lease(r)
    BY <1>4, <1>5, <1>8, <1>9, <1>10, <1>12, <1>13, <1>14 DEF Ledger!Lease
  <1> QED BY <1>5, <1>15 DEF LedgerStep, Ledger!Next

(* The live leases once l is over and its slots are not InFlight any more. *)
LEMMA LiveAfter ==
    ASSUME RingInv(ring, appends, leases), NEW l \in leases, NEW t,
           SeqsIn(t, "InFlight") = SeqsIn(ring, "InFlight") \ ItemSeqs(l.items)
    PROVE  Live(t, leases \ {l}) = Live(ring, leases) \ {l}
  <1>1. ASSUME NEW m \in leases \ {l}
        PROVE  ItemSeqs(m.items) \intersect SeqsIn(t, "InFlight")
                 = ItemSeqs(m.items) \intersect SeqsIn(ring, "InFlight")
    <2>1. ItemSeqs(l.items) \intersect ItemSeqs(m.items) = {}
      BY LeaseTypes
    <2> QED BY <2>1
  <1> QED BY <1>1 DEF Live

(* A lease that holds its slots: what the ledger knows of it. *)
LEMMA LeaseInLedger ==
    ASSUME RingInv(ring, appends, leases), NEW l \in leases,
           ItemSeqs(l.items) \intersect HeldSeqs(ring) # {}
    PROVE  /\ RangeOf(l) \in Ledger!Ranges /\ RangeOf(l) \in LedgerLeases
           /\ Ledger!SeqsOf(RangeOf(l)) = ItemSeqs(l.items)
           /\ OwnedBy(l) = ItemSeqs(l.items) /\ ItemSeqs(l.items) \subseteq HeldSeqs(ring)
           /\ ItemSeqs(l.items) \subseteq SeqsIn(ring, "InFlight")
           /\ LedgerLeases \ {RangeOf(l)} = RangesOf(Live(ring, leases) \ {l})
  <1>1. ItemSeqs(l.items) \subseteq SeqsIn(ring, "InFlight") /\ ItemSeqs(l.items) # {}
    BY LeaseTypes
  <1>2. l \in Live(ring, leases) /\ Live(ring, leases) \in SUBSET leases
    BY <1>1 DEF Live
  <1>3. RangeOf(l) \in Ledger!Ranges /\ Ledger!SeqsOf(RangeOf(l)) = ItemSeqs(l.items)
    BY RangeOfLease
  <1>4. RangesOf(Live(ring, leases) \ {l}) = RangesOf(Live(ring, leases)) \ {RangeOf(l)}
    BY <1>2, RangesApart
  <1>5. RangeOf(l) \in RangesOf(Live(ring, leases))
    BY <1>2 DEF RangesOf
  <1>6. OwnedBy(l) = ItemSeqs(l.items) /\ ItemSeqs(l.items) \subseteq HeldSeqs(ring)
    BY <1>1 DEF OwnedBy, SeqsIn, HeldSeqs
  <1> QED BY <1>1, <1>3, <1>4, <1>5, <1>6, LedgerView

(* A lease that a discard has emptied: the ledger has forgotten it. *)
LEMMA LeaseForgotten ==
    ASSUME BufferInv, NEW l \in leases, ItemSeqs(l.items) \intersect HeldSeqs(ring) = {},
           SameLedger(ring, ring'), leases' = leases \ {l}, fate' = fate
    PROVE  UNCHANGED Ledger!vars
  <1>0. RingInv(ring, appends, leases)
    BY DEF BufferInv, RingSafe
  <1>1. Live(ring, leases \ {l}) = Live(ring, leases)
    BY <1>0, LeaseEnds
  <1>2. Live(ring', leases') = Live(ring, leases)
    BY <1>1 DEF SameLedger, Live, SeqsIn
  <1> QED BY <1>2, LedgerIdle

(* ack_entries is the ledger's Resolve. *)
LEMMA AckLedger ==
    ASSUME BufferInv, NEW l \in leases, Ack(l) \/ QuarantineOk(l)
    PROVE  LedgerStep
  <1> DEFINE S == ItemSeqs(l.items)
             r == RangeOf(l)
  <1>0. /\ RingInv(ring, appends, leases) /\ ring \in Rings /\ fate \in [Seqs -> Fates]
        /\ HeldSeqs(ring) \subseteq Seqs
    BY RingTypes DEF BufferInv, RingSafe, RingInv, RingShapes, TasksAgree
  <1>1. PICK v \in {"Committed", "DeadLettered"} :
            /\ fate' = FatesWith(fate, OwnedBy(l), v)
            /\ ring' = AckEntries(ring, l.items) /\ leases' = leases \ {l}
    BY FatesSet DEF Ack, QuarantineOk
  <1>2. Acked(ring, appends, leases, l, ring')
    BY <1>0, <1>1, AckKeeps
  <1>3. /\ RingInv(ring', appends, leases \ {l}) /\ ring'.nextSeq = ring.nextSeq
        /\ IF S \intersect HeldSeqs(ring) = {} THEN ring' = ring
           ELSE ring'.slots = Without(ring, S) /\ Advanced(ring.committedSeq, ring')
    BY <1>2 DEF Acked
  <1>4. CASE S \intersect HeldSeqs(ring) = {}
    <2>1. OwnedBy(l) = {}
      BY <1>4 DEF OwnedBy, SeqsIn, HeldSeqs
    <2>2. fate' = fate
      BY <1>0, <1>1, <2>1, NoFate
    <2> QED BY <1>1, <1>3, <1>4, <2>2, LeaseForgotten DEF SameLedger, LedgerStep
  <1>5. CASE S \intersect HeldSeqs(ring) # {}
    <2>1. /\ r \in Ledger!Ranges /\ r \in LedgerLeases /\ Ledger!SeqsOf(r) = S
          /\ OwnedBy(l) = S /\ S \subseteq HeldSeqs(ring)
          /\ LedgerLeases \ {r} = RangesOf(Live(ring, leases) \ {l})
      BY <1>0, <1>5, LeaseInLedger
    <2>2. SeqsIn(ring', "InFlight") = SeqsIn(ring, "InFlight") \ S
      BY <1>3, <1>5 DEF Without, SeqsIn, HeldSeqs
    <2>3. LedgerLeases' = LedgerLeases \ {r}
      <3>1. Live(ring', leases \ {l}) = Live(ring, leases) \ {l}
        BY <1>0, <2>2, LiveAfter
      <3> QED BY <1>1, <2>1, <3>1, LedgerViewNext
    <2> HIDE DEF S, r
    <2>4. fate' = FatesWith(fate, S, v) /\ fate' \in [Seqs -> Fates]
      BY <1>0, <1>1, <2>1 DEF FatesWith, Fates
    <2>5. LedgerStatus' = Ledger!SetStatus(S, v)
      <3>1. /\ S \subseteq HeldSeqs(ring) /\ HeldSeqs(ring) \subseteq Seqs
            /\ ring'.slots = Without(ring, S) /\ v # "None"
        BY <1>0, <1>3, <1>5, <2>1
      <3>2. StatusOf(ring', FatesWith(fate, S, v)) = Marks(StatusOf(ring, fate), S, v)
        BY <3>1, StatusLeaves
      <3> QED BY <2>4, <3>2, LedgerSets, LedgerViewNext
    <2>6. Ledger!AdvanceWatermark(LedgerStatus')
      <3>1. ring' \in Rings
        BY <1>3 DEF RingInv, RingShapes
      <3> QED BY <1>3, <1>5, <2>4, <3>1, LedgerAdvances, LedgerViewNext
    <2>7. Ledger!Resolve(r, v)
      BY <1>3, <2>1, <2>3, <2>5, <2>6 DEF Ledger!Resolve
    <2> QED BY <2>1, <2>7 DEF LedgerStep, Ledger!Next
  <1> QED BY <1>4, <1>5

(* requeue_at_head, perhaps with a failure of the buffer, is the ledger's Requeue. *)
LEMMA RequeueLedger ==
    ASSUME BufferInv, NEW l \in leases, NEW t, Returned(ring, appends, leases, l, t),
           SameLedger(t, ring'), leases' = leases \ {l}, fate' = fate
    PROVE  LedgerStep
  <1> DEFINE S == ItemSeqs(l.items)
             r == RangeOf(l)
  <1>0. RingInv(ring, appends, leases) /\ ring \in Rings /\ HeldSeqs(ring) \subseteq Seqs
    BY RingTypes DEF BufferInv, RingSafe, RingInv, RingShapes
  <1>1. /\ ring'.nextSeq = ring.nextSeq /\ ring'.committedSeq = ring.committedSeq
        /\ IF S \intersect HeldSeqs(ring) = {} THEN t = ring ELSE ring'.slots = Put(ring, S, "Queued")
    BY DEF Returned, SameLedger
  <1>2. CASE S \intersect HeldSeqs(ring) = {}
    BY <1>1, <1>2, LeaseForgotten DEF LedgerStep
  <1>3. CASE S \intersect HeldSeqs(ring) # {}
    <2>1. /\ r \in Ledger!Ranges /\ r \in LedgerLeases /\ Ledger!SeqsOf(r) = S
          /\ S \subseteq HeldSeqs(ring)
          /\ LedgerLeases \ {r} = RangesOf(Live(ring, leases) \ {l})
      BY <1>0, <1>3, LeaseInLedger
    <2>2. SeqsIn(ring', "InFlight") = SeqsIn(ring, "InFlight") \ S
      <3>1. SlotsMoved(ring, S, "Queued", ring')
        BY <1>1, <1>3, SlotsPut
      <3> QED BY <3>1 DEF SlotsMoved
    <2>3. LedgerLeases' = LedgerLeases \ {r}
      <3>1. Live(ring', leases \ {l}) = Live(ring, leases) \ {l}
        BY <1>0, <2>2, LiveAfter
      <3> QED BY <2>1, <3>1, LedgerViewNext
    <2> HIDE DEF S, r
    <2>4. LedgerStatus' = Ledger!SetStatus(S, "Queued")
      <3>1. S \subseteq Seqs /\ HeldSeqs(ring) \subseteq Seqs /\ ring'.slots = Put(ring, S, "Queued")
        BY <1>0, <1>1, <1>3, <2>1
      <3>2. StatusOf(ring', fate) = Marks(StatusOf(ring, fate), S, "Queued")
        BY <3>1, StatusMoves
      <3> QED BY <3>2, LedgerSets, LedgerViewNext
    <2>5. Ledger!Requeue(r)
      BY <1>1, <2>1, <2>3, <2>4 DEF Ledger!Requeue
    <2> QED BY <2>1, <2>5 DEF LedgerStep, Ledger!Next
  <1> QED BY <1>2, <1>3

(* Failing a ring is nothing to the ledger. *)
LEMMA FatalIsQuiet ==
    ASSUME NEW t \in Rings, NEW p, p = [t EXCEPT !.fatal = TRUE] \/ p = t
    PROVE  SameLedger(t, p)
  BY DEF Rings, SameLedger

(* What a lease may end in. *)
LEMMA SinkLedger ==
    ASSUME BufferInv, NEW l \in leases, SinkStep(l)
    PROVE  LedgerStep
  <1>0. /\ RingInv(ring, appends, leases) /\ l.attempt + 1 \in Nat /\ l.items[1].seq \in Seqs
    BY LeaseStart DEF BufferInv, RingSafe
  <1>1. CASE Ack(l) \/ QuarantineOk(l)
    BY <1>1, AckLedger
  <1>2. ASSUME NEW items, items = l.items \/ items = MarkFailed(l.items), NEW attempt \in Nat,
               NEW readyAt \in {0} \union Seqs, leases' = leases \ {l}, fate' = fate,
               \/ ring' = RequeueAtHead(ring, items, attempt, readyAt)
               \/ ring' = [RequeueAtHead(ring, items, attempt, readyAt) EXCEPT !.fatal = TRUE]
        PROVE  LedgerStep
    <2> DEFINE t == RequeueAtHead(ring, items, attempt, readyAt)
    <2>1. Returned(ring, appends, leases, l, t)
      BY <1>0, <1>2, PutsBack
    <2>2. ring' = [t EXCEPT !.fatal = TRUE] \/ ring' = t
      BY <1>2
    <2> HIDE DEF t
    <2>3. t \in Rings
      BY <2>1 DEF Returned, RingInv, RingShapes
    <2>4. SameLedger(t, ring')
      BY <2>2, <2>3, FatalIsQuiet
    <2> QED BY <1>2, <2>1, <2>4, RequeueLedger
  <1>3. CASE NackTransient(l)
    <2>1. leases' = leases \ {l} /\ fate' = fate
      BY <1>3 DEF NackTransient
    <2>2. CASE ring' = RequeueAtHead(ring, MarkFailed(l.items), l.attempt + 1, l.items[1].seq)
      BY <1>0, <1>2, <2>1, <2>2
    <2>3. CASE ring' = [RequeueAtHead(ring, MarkFailed(l.items), 0, 0) EXCEPT !.fatal = TRUE]
      BY <1>2, <2>1, <2>3
    <2> QED BY <1>3, <2>2, <2>3 DEF NackTransient, FailLease
  <1>4. CASE NackRejected(l) /\ l.attempt + 1 < MaxAttempts
    <2>1. /\ leases' = leases \ {l} /\ fate' = fate
          /\ ring' = RequeueAtHead(ring, l.items, l.attempt + 1, 0)
      BY <1>4 DEF NackRejected
    <2> QED BY <1>0, <1>2, <2>1
  <1>5. CASE NackRejected(l) /\ ~(l.attempt + 1 < MaxAttempts)
    <2> DEFINE m == [l EXCEPT !.phase = "quarantining"]
    <2>1. /\ leases' = (leases \ {l}) \union {m} /\ ring' = ring /\ fate' = fate /\ l.phase = "held"
      BY <1>5 DEF NackRejected
    <2>2. m.items = l.items
      BY <1>0, <2>1, RegrantKeeps
    <2> HIDE DEF m
    <2>3. RangeOf(m) = RangeOf(l)
      BY <2>2 DEF RangeOf
    <2>4. RangesOf(Live(ring', leases')) = RangesOf(Live(ring, leases))
      BY <2>1, <2>2, <2>3 DEF RangesOf, Live
    <2> QED BY <2>1, <2>4, LedgerIdle DEF SameLedger, LedgerStep
  <1>6. CASE NackFatal(l)
    <2>1. /\ leases' = leases \ {l} /\ fate' = fate
          /\ ring' = [RequeueAtHead(ring, l.items, 0, 0) EXCEPT !.fatal = TRUE]
      BY <1>6 DEF NackFatal, FailLease
    <2> QED BY <1>2, <2>1
  <1>7. CASE DropLease(l)
    <2>1. /\ leases' = leases \ {l} /\ fate' = fate
          /\ ring' = RequeueAtHead(ring, MarkFailed(l.items), l.attempt + 1, 0)
      BY <1>7 DEF DropLease
    <2> QED BY <1>0, <1>2, <2>1
  <1> QED BY <1>1, <1>3, <1>4, <1>5, <1>6, <1>7 DEF SinkStep

(* discard_remaining_rings is the ledger's Discard. *)
LEMMA DiscardLedger ==
    ASSUME BufferInv, DiscardRemaining
    PROVE  LedgerStep
  <1> DEFINE H == HeldSeqs(ring)
  <1>0. /\ RingInv(ring, appends, leases) /\ ring \in Rings /\ fate \in [Seqs -> Fates]
        /\ H \subseteq Seqs
    BY RingTypes DEF BufferInv, RingSafe, RingInv, RingShapes, TasksAgree
  <1>1. /\ ring' = AdvanceWatermark(Discarded(ring)) /\ leases' = leases
        /\ fate' = FatesWith(fate, H, "Discarded")
    BY FatesSet DEF DiscardRemaining, Discarded
  <1>2. /\ RingInv(ring', appends, leases) /\ HeldSeqs(ring') = {} /\ ring'.nextSeq = ring.nextSeq
        /\ Advanced(ring.committedSeq, ring') /\ Live(ring', leases) = {}
    BY <1>0, <1>1, DiscardEmpties
  <1>3. Ledger!HeldIn(LedgerStatus) = H
    BY <1>0, LedgerHeld, LedgerView
  <1>4. fate' \in [Seqs -> Fates]
    BY <1>0, <1>1 DEF FatesWith, Fates
  <1>5. LedgerStatus' = Ledger!SetStatus(H, "Discarded")
    <2>1. StatusOf(ring', fate') = Marks(StatusOf(ring, fate), H, "Discarded")
      BY <1>0, <1>1, <1>2 DEF StatusOf, Marks, FatesWith
    <2> QED BY <2>1, LedgerSets, LedgerViewNext
  <1>6. LedgerLeases' = {}
    BY <1>1, <1>2, LedgerViewNext DEF RangesOf
  <1>7. Ledger!AdvanceWatermark(LedgerStatus')
    <2>1. ring' \in Rings
      BY <1>2 DEF RingInv, RingShapes
    <2> QED BY <1>2, <1>4, <2>1, LedgerAdvances, LedgerViewNext
  <1>8. Ledger!Discard
    BY <1>2, <1>3, <1>5, <1>6, <1>7 DEF Ledger!Discard
  <1> QED BY <1>8 DEF LedgerStep, Ledger!Next

(* Every critical section on the ring is a step of the ledger. *)
LEMMA StepLedger ==
    ASSUME BufferInv, Next
    PROVE  LedgerStep
  <1>0. RingSafe /\ ring \in Rings
    BY DEF BufferInv, RingSafe, RingInv, RingShapes
  <1>1. ASSUME NEW s \in Senders, SenderStep(s) PROVE LedgerStep
    <2>1. CASE TrySend(s)
      BY <2>1, TrySendLedger
    <2>2. CASE BeginSend(s) \/ SendFails(s) \/ DropSender(s)
      <3>1. /\ UNCHANGED <<leases, fate>>
            /\ ring' = ring \/ ring' = [ring EXCEPT !.closed = TRUE]
        BY <2>2 DEF BeginSend, SendFails, DropSender
      <3>2. SameLedger(ring, ring')
        BY <1>0, <3>1 DEF Rings, SameLedger
      <3> QED BY <3>1, <3>2, LedgerSleeps DEF LedgerStep
    <2> QED BY <1>1, <2>1, <2>2 DEF SenderStep
  <1>2. ASSUME NEW a \in appends, WriterStep(a) PROVE LedgerStep
    BY <1>2, WriterLedger
  <1>3. CASE ConsumerStep
    <2>1. CASE PopLease
      BY <2>1, PopLedger
    <2>2. CASE BeginPoll \/ PollNothing \/ DropReceiver
      <3>1. /\ UNCHANGED <<leases, fate>>
            /\ ring' = ring \/ ring' = [ring EXCEPT !.receiverDropped = TRUE]
        BY <2>2 DEF BeginPoll, PollNothing, DropReceiver
      <3>2. SameLedger(ring, ring')
        BY <1>0, <3>1 DEF Rings, SameLedger
      <3> QED BY <3>1, <3>2, LedgerSleeps DEF LedgerStep
    <2> QED BY <1>3, <2>1, <2>2 DEF ConsumerStep
  <1>4. ASSUME NEW l \in leases, SinkStep(l) PROVE LedgerStep
    BY <1>4, SinkLedger
  <1>5. CASE TimerStep
    BY <1>0, <1>5, TimerSafe, LedgerSleeps DEF LedgerStep
  <1>6. CASE StorageFails
    <2>1. UNCHANGED <<leases, fate>> /\ (ring' = [ring EXCEPT !.fatal = TRUE] \/ ring' = ring)
      BY <1>6 DEF StorageFails
    <2>2. SameLedger(ring, ring')
      BY <1>0, <2>1, FatalIsQuiet
    <2> QED BY <2>1, <2>2, LedgerSleeps DEF LedgerStep
  <1>7. CASE DiscardRemaining
    BY <1>7, DiscardLedger
  <1> QED BY <1>1, <1>2, <1>3, <1>4, <1>5, <1>6, <1>7 DEF Next

(* A new ring is a new ledger. *)
LEMMA InitLedger == Init => Ledger!Init
  <1> SUFFICES ASSUME Init PROVE Ledger!Init
    OBVIOUS
  <1>1. ring.nextSeq = 1 /\ ring.committedSeq = 0 /\ ring.slots = <<>> /\ leases = {}
    BY DEF Init
  <1>2. HeldSeqs(ring) = {}
    BY <1>1, NoSlots DEF HeldSeqs
  <1>3. LedgerStatus = [s \in Seqs |-> "Unassigned"]
    BY <1>2 DEF Init, LedgerStatus
  <1>4. LedgerLeases = {}
    BY <1>1 DEF LedgerLeases, LiveLeases
  <1> QED BY <1>1, <1>3, <1>4 DEF Ledger!Init, Ledger!Seqs, Seqs

(* SignalRing implements the ledger: whatever sends, appends, leases, nacks, evictions and discards
   are interleaved, batches are leased oldest first in unbroken ranges, each meets one fate, and the
   watermark follows the longest prefix that has met its own. *)
THEOREM RingImplementsLedger == Spec => ImplementsLedger
  <1>1. BufferInv /\ [Next]_vars => [UNCHANGED Ledger!vars \/ Ledger!Next]_<<ring, fate, leases>>
    <2>1. ASSUME BufferInv, Next PROVE UNCHANGED Ledger!vars \/ Ledger!Next
      BY <2>1, StepLedger DEF LedgerStep
    <2>2. ASSUME UNCHANGED vars PROVE UNCHANGED <<ring, fate, leases>>
      BY <2>2 DEF vars
    <2> QED BY <2>1, <2>2
  <1> QED BY <1>1, InitLedger, BufferInvariant, PTL DEF Spec, ImplementsLedger

(* A behaviour of the ring is a behaviour of the ledger. *)
THEOREM RingIsALedger == Spec => Ledger!Spec
  <1>1. [UNCHANGED Ledger!vars \/ Ledger!Next]_<<ring, fate, leases>> => [Ledger!Next]_Ledger!vars
    <2>1. UNCHANGED <<ring, fate, leases>> => UNCHANGED Ledger!vars
      BY LedgerView, LedgerViewNext DEF Ledger!vars
    <2> QED BY <2>1
  <1> QED BY <1>1, RingImplementsLedger, PTL DEF ImplementsLedger, Ledger!Spec

(* Hence what is proved of the ledger holds of the ring. *)
LedgerFacts == INSTANCE LeaseLedgerProofs WITH
    nextSeq <- ring.nextSeq,
    status <- LedgerStatus,
    leases <- LedgerLeases,
    committedSeq <- ring.committedSeq

(* The ledger's steps, as LeaseLedgerProofs names them. *)
LEMMA SameLedgerSteps ==
    /\ LedgerFacts!Init <=> Ledger!Init
    /\ [LedgerFacts!Next]_LedgerFacts!vars <=> [Ledger!Next]_Ledger!vars
  <1>1. LedgerFacts!Init <=> Ledger!Init
    BY DEF LedgerFacts!Init, Ledger!Init, LedgerFacts!Seqs, Ledger!Seqs
  <1>2. LedgerFacts!vars = Ledger!vars
    BY DEF LedgerFacts!vars, Ledger!vars
  <1>3. LedgerFacts!Next <=> Ledger!Next
    BY DEF LedgerFacts!Next, LedgerFacts!Evict, LedgerFacts!Admit, LedgerFacts!Append,
           LedgerFacts!Rollback, LedgerFacts!Lease, LedgerFacts!Requeue, LedgerFacts!Resolve,
           LedgerFacts!Discard, LedgerFacts!IsQueueHead, LedgerFacts!SetStatus,
           LedgerFacts!AdvanceWatermark, LedgerFacts!IsCandidate, LedgerFacts!HeldIn,
           LedgerFacts!Held, LedgerFacts!SeqsOf, LedgerFacts!Ranges, LedgerFacts!Seqs,
           LedgerFacts!OldestWaiting, LedgerFacts!Cardinality,
           Ledger!Next, Ledger!Evict, Ledger!Admit, Ledger!Append,
           Ledger!Rollback, Ledger!Lease, Ledger!Requeue, Ledger!Resolve,
           Ledger!Discard, Ledger!IsQueueHead, Ledger!SetStatus,
           Ledger!AdvanceWatermark, Ledger!IsCandidate, Ledger!HeldIn,
           Ledger!Held, Ledger!SeqsOf, Ledger!Ranges, Ledger!Seqs,
           Ledger!OldestWaiting, Ledger!Cardinality
  <1> QED BY <1>1, <1>3 DEF LedgerFacts!vars, Ledger!vars

(* The ledger's inductive invariant holds of the ring. *)
LEMMA LedgerHolds == Spec => []LedgerFacts!IInv
  <1>1. Ledger!Init => LedgerFacts!IInv
    BY LedgerFacts!LedgerInit, SameLedgerSteps, ConstantTypes
  <1>2. LedgerFacts!IInv /\ [Ledger!Next]_Ledger!vars => LedgerFacts!IInv'
    BY LedgerFacts!LedgerStep, SameLedgerSteps, ConstantTypes
  <1> QED BY <1>1, <1>2, RingIsALedger, PTL DEF Ledger!Spec

(* committed_seq is the end of the longest prefix that has met its fate, in every behaviour of the
   ring: recovery skips and segment GC deletes nothing that is still reserved, queued or leased, and
   nothing that is settled is kept longer than it has to be. *)
THEOREM RingWatermark == Spec => [](Ledger!WatermarkSafe /\ Ledger!WatermarkExact)
  <1>1. LedgerFacts!IInv => Ledger!WatermarkSafe
    BY LedgerFacts!ExactIsSafe, ConstantTypes DEF Ledger!WatermarkSafe, LedgerFacts!WatermarkSafe,
       Ledger!Seqs, LedgerFacts!Seqs, Ledger!Fates, LedgerFacts!Fates
  <1>2. LedgerFacts!IInv => Ledger!WatermarkExact
    BY DEF LedgerFacts!IInv, Ledger!WatermarkExact, LedgerFacts!WatermarkExact,
       Ledger!IsCandidate, LedgerFacts!IsCandidate, Ledger!HeldIn, LedgerFacts!HeldIn,
       Ledger!Seqs, LedgerFacts!Seqs, Ledger!Held, LedgerFacts!Held
  <1> QED BY <1>1, <1>2, LedgerHolds, PTL

(* No batch of the ring is in two leases, none is stranded InFlight outside a lease, and the leases
   that hold batches are at most max_inflight_leases. *)
THEOREM RingLeases == Spec => [](Ledger!LeasesOwnInFlight /\ Ledger!LeasesBounded)
  <1>1. LedgerFacts!IInv => Ledger!LeasesOwnInFlight
    BY DEF LedgerFacts!IInv, Ledger!LeasesOwnInFlight, LedgerFacts!LeasesOwnInFlight,
       Ledger!Seqs, LedgerFacts!Seqs, Ledger!SeqsOf, LedgerFacts!SeqsOf
  <1>2. LedgerFacts!IInv => Ledger!LeasesBounded
    BY DEF LedgerFacts!IInv, Ledger!LeasesBounded, LedgerFacts!LeasesBounded,
       Ledger!Cardinality, LedgerFacts!Cardinality
  <1> QED BY <1>1, <1>2, LedgerHolds, PTL

(* What the ring has settled stays settled: no lease, append or eviction that outlives a discard
   gives a batch a second fate or brings it back. *)
THEOREM RingFatesAreFinal == Spec => Ledger!FateIsFinal
  <1>1. LedgerFacts!IInv /\ [Ledger!Next]_Ledger!vars =>
            [\A s \in Ledger!Seqs : LedgerStatus[s] \in Ledger!Fates =>
                 LedgerStatus'[s] = LedgerStatus[s]]_Ledger!vars
    BY LedgerFacts!FateStep, SameLedgerSteps, ConstantTypes
       DEF Ledger!Seqs, LedgerFacts!Seqs, Ledger!Fates, LedgerFacts!Fates
  <1> QED BY <1>1, RingIsALedger, LedgerHolds, PTL DEF Ledger!Spec, Ledger!FateIsFinal

=============================================================================
