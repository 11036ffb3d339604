-------------------------- MODULE SinkDeliveryProofs --------------------------
(***************************************************************************)
(* What an acknowledgement means at StarRocks, Iceberg, Kafka and          *)
(* Elasticsearch, for any number of batches, faults, restarts, label       *)
(* probes, slices, chunks and tasks: an acknowledged batch is stored, rows *)
(* the destination can recognise are stored once, and in order where one   *)
(* lease is in flight.  And what a clean stop means at the Parquet sink,   *)
(* which acknowledges first: every row is in one file.                     *)
(***************************************************************************)
EXTENDS SinkDelivery, HelperTheorems, FiniteSetTheorems, SequenceTheorems, WellFoundedInduction, NaturalsInduction, TLAPS

-----------------------------------------------------------------------------
(* The feed                                                                 *)

(* What becomes visible at a destination. *)
Entries == [first : Nat \ {0}, last : Nat, part : Nat]

LeaseOK(l) == l.first \in Nat \ {0} /\ l.last \in Nat

FeedOK ==
    /\ arrived \in Nat /\ restarts \in Nat
    /\ stored \in Seq(Entries)
    /\ \A l \in held : LeaseOK(l)

(* The batches of which an acknowledgement says that they are stored. *)
Claims == done \ (quarantined \cup Empty)

(* A lease that is handed out. *)
LEMMA FirstWaiting ==
    ASSUME arrived \in Nat, NEW l \in NextLeases
    PROVE  LeaseOK(l) /\ l.first \in Waiting /\ \A s \in Waiting : l.first <= s
  <1>1. Waiting # {} /\ \E last \in Min(Waiting)..arrived :
            l = [first |-> Min(Waiting), last |-> last, attempt |-> AttemptOf(Min(Waiting))]
    BY DEF NextLeases
  <1>2. Waiting \in SUBSET Nat /\ 0 \notin Waiting
    BY DEF Waiting
  <1>3. Min(Waiting) \in Waiting /\ \A s \in Waiting : Min(Waiting) <= s
    BY <1>1, <1>2, LeastOf
  <1>4. PICK last \in Min(Waiting)..arrived : l = [first |-> Min(Waiting), last |-> last, attempt |-> AttemptOf(Min(Waiting))]
    BY <1>1
  <1>5. l.first = Min(Waiting) /\ l.last = last
    BY <1>4
  <1>6. last \in Nat
    <2>1. PICK k : k = Min(Waiting)
      OBVIOUS
    <2>2. k \in Nat
      BY <1>2, <1>3, <2>1
    <2>3. arrived \in Nat /\ last \in k..arrived
      BY <1>4, <2>1
    <2> QED BY <2>2, <2>3
  <1> QED BY <1>2, <1>3, <1>5, <1>6 DEF LeaseOK

LEMMA NextLeaseFacts ==
    ASSUME FeedOK, NEW l \in NextLeases
    PROVE  LeaseOK(l) /\ l.first \in Waiting /\ \A s \in Waiting : l.first <= s
  <1>1. arrived \in Nat
    BY DEF FeedOK
  <1> QED BY <1>1, FirstWaiting

(* What a nack changes: of what is claimed, nothing is added. *)
LEMMA NackFacts ==
    ASSUME NEW l, NEW class, Nack(l, class), workload' = workload
    PROVE  held' = held \ {l} /\ Claims' \subseteq Claims /\ done \subseteq done'
  <1>1. Empty' = Empty
    BY DEF Empty, OfKind
  <1>2. CASE Requeue(l)
    BY <1>1, <1>2 DEF Requeue, Claims
  <1>3. CASE FailBuffer(l)
    BY <1>1, <1>3 DEF FailBuffer, Claims
  <1>4. CASE Quarantine(l)
    BY <1>1, <1>3, <1>4 DEF Quarantine, Claims
  <1> QED BY <1>2, <1>3, <1>4 DEF Nack

(* An acknowledgement adds the lease's batches, *)
LEMMA AckFacts ==
    ASSUME NEW l, Ack(l), workload' = workload
    PROVE  held' = held \ {l} /\ Claims' \subseteq Claims \cup Seqs(l) /\ done \subseteq done'
  <1>1. Empty' = Empty
    BY DEF Empty, OfKind
  <1> QED BY <1>1 DEF Ack, Claims

(* that of a lease without rows nothing that has any. *)
LEMMA AckEmptyFacts ==
    ASSUME NEW l, AckEmpty(l)
    PROVE  /\ held' = held /\ Claims' \subseteq Claims /\ done \subseteq done'
           /\ UNCHANGED <<configured, workload, arrived, restarts, stored>>
  <1>1. Empty' = Empty
    BY DEF Empty, OfKind, AckEmpty
  <1> QED BY <1>1 DEF AckEmpty, Claims

LEMMA RejectFacts ==
    ASSUME NEW l, RejectUnprepared(l)
    PROVE  /\ held' = held \ {l} /\ Claims' \subseteq Claims /\ done \subseteq done'
           /\ UNCHANGED <<configured, workload, arrived, restarts, stored>>
  <1>1. UNCHANGED <<configured, workload, arrived, restarts, stored>>
    BY DEF RejectUnprepared
  <1>2. CASE Nack(l, "Rejected")
    BY <1>1, <1>2, NackFacts
  <1>3. CASE FailBuffer(l)
    <2>1. Empty' = Empty
      BY <1>1 DEF Empty, OfKind
    <2> QED BY <1>1, <1>3, <2>1 DEF FailBuffer, Claims
  <1> QED BY <1>2, <1>3 DEF RejectUnprepared

(* A restart forgets acknowledgements and makes none. *)
LEMMA RestartFacts ==
    ASSUME FeedOK, Restart
    PROVE  /\ held' = {} /\ Claims' \subseteq Claims /\ restarts' = restarts + 1
           /\ UNCHANGED <<configured, workload, arrived, stored>>
  <1>1. /\ held' = {} /\ restarts' = restarts + 1 /\ done' = 1..Watermark
        /\ UNCHANGED <<configured, workload, arrived, quarantined, stored>>
    BY DEF Restart
  <1>2. Empty' = Empty
    BY <1>1 DEF Empty, OfKind
  <1>3. 1..Watermark \subseteq done
    <2> DEFINE S == {n \in 0..arrived : 1..n \subseteq done}
    <2>1. arrived \in Nat
      BY DEF FeedOK
    <2>2. S \in SUBSET (0..arrived) /\ 0 \in S
      BY <2>1
    <2>3. Max(S) \in S
      <3> HIDE DEF S
      <3> QED BY <2>1, <2>2, GreatestOf
    <2>4. Watermark = Max(S)
      BY DEF Watermark
    <2> HIDE DEF Watermark
    <2>5. Watermark \in S
      BY <2>3, <2>4
    <2> QED BY <2>5
  <1> QED BY <1>1, <1>2, <1>3 DEF Claims

-----------------------------------------------------------------------------
(* The destination                                                          *)

(* What is visible stays visible. *)
Grows == \A s, p : HasPart(s, p) => HasPart(s, p)'

LEMMA SameStored ==
    ASSUME UNCHANGED stored
    PROVE  Grows
  BY DEF Grows, HasPart

(* A message or a load that becomes visible is the newest entry. *)
LEMMA VisibleFacts ==
    ASSUME stored \in Seq(Entries), NEW f \in Nat \ {0}, NEW t \in Nat, NEW p \in Nat, Visible(f, t, p)
    PROVE  /\ stored' \in Seq(Entries)
           /\ Len(stored') = Len(stored) + 1
           /\ \A i \in 1..Len(stored) : stored'[i] = stored[i]
           /\ stored'[Len(stored) + 1] = [first |-> f, last |-> t, part |-> p]
           /\ Grows
           /\ \A s \in f..t : HasPart(s, p)'
  <1> DEFINE e == [first |-> f, last |-> t, part |-> p]
  <1>1. e \in Entries /\ stored' = Append(stored, e)
    BY DEF Entries, Visible
  <1>2. e.first = f /\ e.last = t /\ e.part = p
    OBVIOUS
  <1> HIDE DEF e
  <1>3. /\ stored' \in Seq(Entries) /\ Len(stored') = Len(stored) + 1
        /\ \A i \in 1..Len(stored) : stored'[i] = stored[i]
        /\ stored'[Len(stored) + 1] = e
    BY <1>1
  <1>4. Len(stored) \in Nat
    OBVIOUS
  <1>5. Grows
    <2> SUFFICES ASSUME NEW s, NEW q, HasPart(s, q) PROVE HasPart(s, q)'
      BY DEF Grows
    <2>1. PICK i \in 1..Len(stored) : s \in Seqs(stored[i]) /\ stored[i].part = q
      BY DEF HasPart
    <2>2. i \in 1..Len(stored') /\ stored'[i] = stored[i]
      BY <1>3, <1>4, <2>1
    <2> QED BY <2>1, <2>2 DEF HasPart
  <1>6. ASSUME NEW s \in f..t PROVE HasPart(s, p)'
    <2>1. Len(stored) + 1 \in 1..Len(stored')
      BY <1>3, <1>4
    <2>2. s \in Seqs(e) /\ e.part = p
      BY <1>2 DEF Seqs
    <2> QED BY <1>3, <2>1, <2>2 DEF HasPart
  <1> QED BY <1>3, <1>5, <1>6 DEF e

(* Every claimed batch is visible, in each of the parts it is sent as. *)
ClaimsStored(P) == \A s \in Claims : \A p \in P : HasPart(s, p)

LEMMA ClaimsKept ==
    ASSUME NEW P, ClaimsStored(P), Claims' \subseteq Claims, Grows
    PROVE  \A s \in Claims' : \A p \in P : HasPart(s, p)'
  BY DEF ClaimsStored, Grows

-----------------------------------------------------------------------------
(* Kafka                                                                    *)

(* The slice is at the broker, for every batch of the lease in hand. *)
SliceThere(p) == \A l \in held : \A s \in Seqs(l) : HasPart(s, p)

KafkaShape ==
    /\ phase \in {"idle", "enqueue", "await"}
    /\ cursor \in Nat \ {0}
    /\ failure \in {"none", "Transient", "Rejected", "Fatal"}
    /\ phase = "idle" => held = {}
    /\ phase # "idle" => \E l : held = {l}

(* While nothing failed: a slice the cursor has passed is at the broker, or the *)
(* producer still has it and its delivery is yet to be awaited.                 *)
SlicesOnTheirWay ==
    failure = "none" =>
        /\ phase = "enqueue" => \A p \in 1..(cursor - 1) : p \in queued \/ SliceThere(p)
        /\ phase = "await" => \A p \in 1..SliceCount :
               SliceThere(p) \/ (p \in queued /\ cursor <= p)

KafkaInv == FeedOK /\ KafkaShape /\ SlicesOnTheirWay /\ ClaimsStored(1..SliceCount)

LEMMA SliceCountFacts == SliceCount \in Nat \ {0}
  BY KafkaAssumption DEF SliceCount

LEMMA MergeFails ==
    ASSUME failure \in {"none", "Transient", "Rejected", "Fatal"}, NEW err \in KafkaErrors
    PROVE  Merge(failure, ClassifyKafka(err)) \in {"Transient", "Rejected", "Fatal"}
  <1>1. ClassifyKafka(err) \in {"Transient", "Rejected", "Fatal"}
    BY DEF KafkaErrors, ClassifyKafka
  <1>2. PICK c : c = ClassifyKafka(err)
    OBVIOUS
  <1>3. Merge(failure, c) \in {"Transient", "Rejected", "Fatal"}
    BY <1>1, <1>2 DEF Merge, Severity
  <1> QED BY <1>2, <1>3

(* The lease in hand, and what its delivery does. *)
LEMMA TheKafkaLease ==
    ASSUME KafkaInv, phase # "idle"
    PROVE  held = {KafkaLease} /\ LeaseOK(KafkaLease)
  <1>1. PICK l : held = {l}
    BY DEF KafkaInv, KafkaShape
  <1>2. KafkaLease = l
    BY <1>1 DEF KafkaLease
  <1> QED BY <1>1, <1>2 DEF KafkaInv, FeedOK

LEMMA DeliveredFacts ==
    ASSUME KafkaInv, phase # "idle", NEW p \in Nat, Delivered(p)
    PROVE  /\ stored' \in Seq(Entries) /\ Grows
           /\ held' = held => SliceThere(p)'
  <1>1. held = {KafkaLease} /\ LeaseOK(KafkaLease)
    BY TheKafkaLease
  <1>2. PICK l : l = KafkaLease
    OBVIOUS
  <1>3. l.first \in Nat \ {0} /\ l.last \in Nat /\ held = {l} /\ Visible(l.first, l.last, p)
    BY <1>1, <1>2 DEF LeaseOK, Delivered
  <1>4. stored \in Seq(Entries)
    BY DEF KafkaInv, FeedOK
  <1>5. stored' \in Seq(Entries) /\ Grows /\ \A s \in l.first..l.last : HasPart(s, p)'
    BY <1>3, <1>4, VisibleFacts
  <1> QED BY <1>3, <1>5 DEF SliceThere, Seqs

LEMMA FeedKept ==
    ASSUME FeedOK, arrived' = arrived, restarts' \in Nat, stored' \in Seq(Entries), held' \subseteq held
    PROVE  FeedOK'
  BY DEF FeedOK, LeaseOK

LEMMA FeedStays ==
    ASSUME FeedOK, UNCHANGED <<arrived, restarts, stored>>, held' \subseteq held
    PROVE  FeedOK'
  BY DEF FeedOK, LeaseOK

LEMMA FeedTakes ==
    ASSUME FeedOK, NEW l, Take(l), UNCHANGED <<arrived, restarts, stored>>
    PROVE  FeedOK' /\ held' = held \cup {l} /\ LeaseOK(l)
  <1>1. l \in NextLeases /\ held' = held \cup {l}
    BY DEF Take
  <1>2. LeaseOK(l)
    BY <1>1, NextLeaseFacts
  <1> QED BY <1>1, <1>2 DEF FeedOK, LeaseOK

LEMMA FeedArrives ==
    ASSUME FeedOK, Arrive
    PROVE  FeedOK' /\ Claims' = Claims /\ held' = held /\ Grows
  <1>1. FeedOK' /\ held' = held /\ UNCHANGED <<workload, done, quarantined, stored>>
    BY DEF FeedOK, LeaseOK, Arrive
  <1>2. Empty' = Empty
    BY <1>1 DEF Empty, OfKind
  <1> QED BY <1>1, <1>2, SameStored DEF Claims

LEMMA ClaimsSame ==
    ASSUME UNCHANGED <<workload, done, quarantined>>
    PROVE  Claims' = Claims
  BY DEF Claims, Empty, OfKind

(* A step that ends the lease in hand, or starts none. *)
LEMMA KafkaEnds ==
    ASSUME KafkaInv, FeedOK', held' = {}, phase' = "idle", cursor' \in Nat \ {0},
           failure' \in {"none", "Transient", "Rejected", "Fatal"}, keyed' = keyed,
           Claims' \subseteq Claims, Grows
    PROVE  KafkaInv'
  <1>1. SliceCount' = SliceCount
    BY DEF SliceCount
  <1>2. ClaimsStored(1..SliceCount)'
    BY <1>1, ClaimsKept DEF KafkaInv, ClaimsStored
  <1>3. KafkaShape' /\ SlicesOnTheirWay'
    BY DEF KafkaShape, SlicesOnTheirWay
  <1> QED BY <1>2, <1>3 DEF KafkaInv

(* A step within the send of the lease in hand. *)
LEMMA KafkaStays ==
    ASSUME KafkaInv, phase # "idle", phase' \in {"enqueue", "await"}, cursor' \in Nat \ {0},
           failure' \in {"none", "Transient", "Rejected", "Fatal"}, keyed' = keyed,
           SameLease, stored' \in Seq(Entries), Grows, SlicesOnTheirWay'
    PROVE  KafkaInv'
  <1>1. SliceCount' = SliceCount
    BY DEF SliceCount
  <1>2. Claims' = Claims /\ FeedOK' /\ held' = held
    BY ClaimsSame, FeedKept DEF SameLease, KafkaInv, FeedOK
  <1>3. ClaimsStored(1..SliceCount)'
    BY <1>1, <1>2, ClaimsKept DEF KafkaInv, ClaimsStored
  <1>4. KafkaShape'
    BY <1>2 DEF KafkaShape, KafkaInv
  <1> QED BY <1>2, <1>3, <1>4 DEF KafkaInv

LEMMA StillThere ==
    ASSUME Grows, held' = held, NEW p, SliceThere(p)
    PROVE  SliceThere(p)'
  BY DEF Grows, SliceThere

LEMMA KafkaEnqueue ==
    ASSUME KafkaInv, EnqueueSlice
    PROVE  KafkaInv'
  <1>1. /\ phase = "enqueue" /\ phase' = phase /\ cursor' = cursor + 1 /\ keyed' = keyed
        /\ SameLease /\ held' = held
    BY DEF EnqueueSlice, SameLease
  <1>2. cursor \in Nat \ {0} /\ failure \in {"none", "Transient", "Rejected", "Fatal"} /\ stored \in Seq(Entries)
    BY DEF KafkaInv, KafkaShape, FeedOK
  <1>3. SlicesOnTheirWay
    BY DEF KafkaInv
  <1>0. PICK c \in Nat : c = cursor
    BY <1>2
  <1>4. /\ failure' \in {"none", "Transient", "Rejected", "Fatal"} /\ stored' \in Seq(Entries) /\ Grows
        /\ failure' = "none" => /\ failure = "none" /\ queued \subseteq queued'
                                /\ c \in queued' \/ SliceThere(c)'
    <2>1. CASE queued' = queued \cup {cursor} /\ UNCHANGED <<failure, stored>>
      BY <1>0, <1>2, <2>1, SameStored
    <2>2. CASE Delivered(cursor) /\ UNCHANGED <<queued, failure>>
      BY <1>0, <1>1, <1>2, <2>2, DeliveredFacts
    <2>3. CASE DeliveryFails
      <3>1. PICK err \in KafkaErrors : /\ failure' = Merge(failure, ClassifyKafka(err))
                                       /\ UNCHANGED stored \/ Delivered(cursor)
        BY <2>3 DEF DeliveryFails
      <3>2. failure' \in {"Transient", "Rejected", "Fatal"}
        BY <1>2, <3>1, MergeFails
      <3>3. stored' \in Seq(Entries) /\ Grows
        BY <1>1, <1>2, <3>1, SameStored, DeliveredFacts
      <3> QED BY <3>2, <3>3
    <2> QED BY <2>1, <2>2, <2>3 DEF EnqueueSlice
  <1>5. SlicesOnTheirWay'
    <2> SUFFICES ASSUME failure' = "none", NEW p \in 1..(cursor' - 1)
                 PROVE  p \in queued' \/ SliceThere(p)'
      BY <1>1 DEF SlicesOnTheirWay
    <2>1. CASE p = cursor
      BY <1>0, <1>4, <2>1
    <2>2. CASE p # cursor
      <3>1. p \in 1..(cursor - 1)
        BY <1>1, <1>2, <2>2
      <3>2. p \in queued \/ SliceThere(p)
        BY <1>1, <1>3, <1>4, <3>1 DEF SlicesOnTheirWay
      <3> QED BY <1>1, <1>4, <3>2, StillThere
    <2> QED BY <2>1, <2>2
  <1>6. cursor' \in Nat \ {0}
    BY <1>1, <1>2
  <1> QED BY <1>1, <1>4, <1>5, <1>6, KafkaStays

LEMMA KafkaBeginAwait ==
    ASSUME KafkaInv, BeginAwait
    PROVE  KafkaInv'
  <1>1. /\ phase = "enqueue" /\ cursor > SliceCount /\ phase' = "await" /\ cursor' = 1
        /\ SameLease /\ held' = held /\ UNCHANGED <<keyed, queued, failure, stored>>
    BY DEF BeginAwait, SameLease
  <1>2. cursor \in Nat \ {0} /\ failure \in {"none", "Transient", "Rejected", "Fatal"} /\ stored \in Seq(Entries)
    BY DEF KafkaInv, KafkaShape, FeedOK
  <1>3. SlicesOnTheirWay
    BY DEF KafkaInv
  <1>4. Grows
    BY <1>1, SameStored
  <1>5. SliceCount' = SliceCount
    BY <1>1 DEF SliceCount
  <1>6. SlicesOnTheirWay'
    <2> SUFFICES ASSUME failure' = "none", NEW p \in 1..SliceCount
                 PROVE  SliceThere(p)' \/ (p \in queued' /\ cursor' <= p)
      BY <1>1, <1>5 DEF SlicesOnTheirWay
    <2>1. p \in 1..(cursor - 1) /\ 1 <= p
      BY <1>1, <1>2, SliceCountFacts
    <2>2. p \in queued \/ SliceThere(p)
      BY <1>1, <1>3, <2>1 DEF SlicesOnTheirWay
    <2> QED BY <1>1, <1>4, <2>1, <2>2, StillThere
  <1> QED BY <1>1, <1>2, <1>4, <1>6, KafkaStays

LEMMA KafkaAwait ==
    ASSUME KafkaInv, AwaitDelivery
    PROVE  KafkaInv'
  <1>1. /\ phase = "await" /\ phase' = phase /\ cursor' = cursor + 1 /\ queued' = queued \ {cursor}
        /\ keyed' = keyed /\ SameLease /\ held' = held
    BY DEF AwaitDelivery, SameLease
  <1>2. cursor \in Nat \ {0} /\ failure \in {"none", "Transient", "Rejected", "Fatal"} /\ stored \in Seq(Entries)
    BY DEF KafkaInv, KafkaShape, FeedOK
  <1>3. SlicesOnTheirWay
    BY DEF KafkaInv
  <1>0. PICK c \in Nat : c = cursor
    BY <1>2
  <1>4. /\ failure' \in {"none", "Transient", "Rejected", "Fatal"} /\ stored' \in Seq(Entries) /\ Grows
        /\ failure' = "none" => /\ failure = "none"
                                /\ c \in queued => SliceThere(c)'
    <2>1. CASE cursor \notin queued /\ UNCHANGED <<failure, stored>>
      BY <1>0, <1>2, <2>1, SameStored
    <2>2. CASE Delivered(cursor) /\ UNCHANGED failure
      BY <1>0, <1>1, <1>2, <2>2, DeliveredFacts
    <2>3. CASE DeliveryFails
      <3>1. PICK err \in KafkaErrors : /\ failure' = Merge(failure, ClassifyKafka(err))
                                       /\ UNCHANGED stored \/ Delivered(cursor)
        BY <2>3 DEF DeliveryFails
      <3>2. failure' \in {"Transient", "Rejected", "Fatal"}
        BY <1>2, <3>1, MergeFails
      <3>3. stored' \in Seq(Entries) /\ Grows
        BY <1>1, <1>2, <3>1, SameStored, DeliveredFacts
      <3> QED BY <3>2, <3>3
    <2> QED BY <2>1, <2>2, <2>3 DEF AwaitDelivery
  <1>5. SliceCount' = SliceCount
    BY <1>1 DEF SliceCount
  <1>6. SlicesOnTheirWay'
    <2> SUFFICES ASSUME failure' = "none", NEW p \in 1..SliceCount
                 PROVE  SliceThere(p)' \/ (p \in queued' /\ cursor' <= p)
      BY <1>1, <1>5 DEF SlicesOnTheirWay
    <2>1. SliceThere(p) \/ (p \in queued /\ cursor <= p)
      BY <1>1, <1>3, <1>4 DEF SlicesOnTheirWay
    <2>2. CASE SliceThere(p)
      BY <1>1, <1>4, <2>2, StillThere
    <2>3. CASE p \in queued /\ p = cursor
      BY <1>0, <1>4, <2>3
    <2>4. CASE p \in queued /\ cursor <= p /\ p # cursor
      BY <1>1, <1>2, <2>4, SliceCountFacts
    <2> QED BY <2>1, <2>2, <2>3, <2>4
  <1>7. cursor' \in Nat \ {0}
    BY <1>1, <1>2
  <1> QED BY <1>1, <1>4, <1>6, <1>7, KafkaStays

LEMMA KafkaStart ==
    ASSUME KafkaInv, NEW l, StartSlices(l)
    PROVE  KafkaInv'
  <1>1. /\ phase = "idle" /\ held = {} /\ Take(l) /\ phase' = "enqueue" /\ cursor' = 1 /\ failure' = "none"
        /\ UNCHANGED <<workload, arrived, done, quarantined, restarts, stored, keyed>>
    BY DEF StartSlices
  <1>2. FeedOK' /\ held' = {l}
    BY <1>1, FeedTakes DEF KafkaInv
  <1>3. Grows /\ Claims' = Claims /\ SliceCount' = SliceCount
    BY <1>1, SameStored, ClaimsSame DEF SliceCount
  <1>4. ClaimsStored(1..SliceCount)'
    BY <1>3, ClaimsKept DEF KafkaInv, ClaimsStored
  <1>5. KafkaShape' /\ SlicesOnTheirWay'
    BY <1>1, <1>2 DEF KafkaShape, SlicesOnTheirWay
  <1> QED BY <1>2, <1>4, <1>5 DEF KafkaInv

LEMMA KafkaIdles ==
    ASSUME KafkaInv, NEW l, RejectSlices(l) \/ SkipEmptySlices(l)
    PROVE  KafkaInv'
  <1>1. phase = "idle" /\ UNCHANGED kafkaVars /\ (RejectUnprepared(l) \/ AckEmpty(l))
    BY DEF RejectSlices, SkipEmptySlices
  <1>2. held = {} /\ FeedOK
    BY <1>1 DEF KafkaInv, KafkaShape
  <1>3. held' = {} /\ Claims' \subseteq Claims /\ UNCHANGED <<arrived, restarts, stored>>
    BY <1>1, <1>2, RejectFacts, AckEmptyFacts
  <1>4. FeedOK' /\ Grows
    BY <1>2, <1>3, FeedStays, SameStored
  <1>5. UNCHANGED <<keyed, phase, cursor, failure>>
    BY <1>1 DEF kafkaVars
  <1> QED BY <1>1, <1>3, <1>4, <1>5, KafkaEnds DEF KafkaInv, KafkaShape

LEMMA KafkaCancelled ==
    ASSUME KafkaInv, DeliveryCancelled
    PROVE  KafkaInv'
  <1>1. /\ phase = "await" /\ FailBuffer(KafkaLease) /\ phase' = "idle" /\ cursor' = 1 /\ failure' = "none"
        /\ Delivered(cursor) \/ UNCHANGED stored
        /\ UNCHANGED <<workload, arrived, restarts, keyed>>
    BY DEF DeliveryCancelled
  <1>2. FeedOK /\ restarts \in Nat /\ stored \in Seq(Entries) /\ cursor \in Nat
    BY DEF KafkaInv, KafkaShape, FeedOK
  <1>3. held' = {} /\ UNCHANGED <<done, quarantined>>
    BY <1>1, TheKafkaLease DEF FailBuffer
  <1>4. stored' \in Seq(Entries) /\ Grows
    BY <1>1, <1>2, DeliveredFacts, SameStored
  <1>5. FeedOK' /\ Claims' = Claims
    BY <1>1, <1>2, <1>3, <1>4, FeedKept, ClaimsSame
  <1> QED BY <1>1, <1>3, <1>4, <1>5, KafkaEnds

(* The acknowledgement: nothing failed and the cursor has passed every slice. *)
LEMMA KafkaFinish ==
    ASSUME KafkaInv, FinishSlices
    PROVE  KafkaInv'
  <1>1. /\ phase = "await" /\ cursor > SliceCount /\ phase' = "idle" /\ cursor' = 1 /\ failure' = "none"
        /\ UNCHANGED <<workload, arrived, restarts, keyed, stored>>
    BY DEF FinishSlices
  <1>2. held = {KafkaLease}
    BY <1>1, TheKafkaLease
  <1>3. FeedOK /\ Grows /\ SliceCount' = SliceCount
    BY <1>1, SameStored DEF KafkaInv, SliceCount
  <1>4. CASE failure = "none"
    <2>1. Ack(KafkaLease)
      BY <1>4 DEF FinishSlices
    <2>2. held' = {} /\ Claims' \subseteq Claims \cup Seqs(KafkaLease)
      BY <1>1, <1>2, <2>1, AckFacts
    <2>3. \A p \in 1..SliceCount : SliceThere(p)
      <3> SUFFICES ASSUME NEW p \in 1..SliceCount PROVE SliceThere(p)
        OBVIOUS
      <3>1. SliceThere(p) \/ cursor <= p
        BY <1>1, <1>4 DEF KafkaInv, SlicesOnTheirWay
      <3>2. ~(cursor <= p)
        BY <1>1, SliceCountFacts DEF KafkaInv, KafkaShape
      <3> QED BY <3>1, <3>2
    <2>4. ClaimsStored(1..SliceCount)'
      <3> SUFFICES ASSUME NEW s \in Claims', NEW p \in 1..SliceCount PROVE HasPart(s, p)'
        BY <1>3 DEF ClaimsStored
      <3>1. CASE s \in Claims
        BY <1>3, <3>1 DEF KafkaInv, ClaimsStored, Grows
      <3>2. CASE s \in Seqs(KafkaLease)
        BY <1>2, <1>3, <2>3, <3>2 DEF SliceThere, Grows
      <3> QED BY <2>2, <3>1, <3>2
    <2>5. FeedOK'
      BY <1>1, <1>3, <2>2, FeedStays
    <2>6. KafkaShape' /\ SlicesOnTheirWay'
      BY <1>1, <2>2 DEF KafkaShape, SlicesOnTheirWay
    <2> QED BY <2>4, <2>5, <2>6 DEF KafkaInv
  <1>5. CASE failure # "none"
    <2>1. Nack(KafkaLease, failure)
      BY <1>5 DEF FinishSlices
    <2>2. held' = {} /\ Claims' \subseteq Claims
      BY <1>1, <1>2, <2>1, NackFacts
    <2>3. FeedOK'
      BY <1>1, <1>3, <2>2, FeedStays
    <2> QED BY <1>1, <1>3, <2>2, <2>3, KafkaEnds
  <1> QED BY <1>4, <1>5

LEMMA KafkaRestarts ==
    ASSUME KafkaInv, RestartKafka
    PROVE  KafkaInv'
  <1>1. Restart /\ phase' = "idle" /\ cursor' = 1 /\ failure' = "none" /\ keyed' = keyed
    BY DEF RestartKafka
  <1>2. FeedOK /\ restarts \in Nat /\ stored \in Seq(Entries)
    BY DEF KafkaInv, FeedOK
  <1>3. /\ held' = {} /\ Claims' \subseteq Claims /\ restarts' = restarts + 1
        /\ UNCHANGED <<arrived, stored>>
    BY <1>1, <1>2, RestartFacts
  <1>4. restarts' \in Nat /\ stored' \in Seq(Entries)
    BY <1>2, <1>3
  <1>5. FeedOK' /\ Grows
    BY <1>2, <1>3, <1>4, FeedKept, SameStored
  <1> QED BY <1>1, <1>3, <1>5, KafkaEnds

LEMMA KafkaArrival ==
    ASSUME KafkaInv, Arrive, UNCHANGED kafkaVars
    PROVE  KafkaInv'
  <1>1. FeedOK' /\ Claims' = Claims /\ held' = held /\ Grows
    BY FeedArrives DEF KafkaInv
  <1>2. UNCHANGED <<keyed, phase, queued, cursor, failure>> /\ SliceCount' = SliceCount
    BY DEF kafkaVars, SliceCount
  <1>3. ClaimsStored(1..SliceCount)'
    BY <1>1, <1>2, ClaimsKept DEF KafkaInv, ClaimsStored
  <1>4. \A p : SliceThere(p) => SliceThere(p)'
    BY <1>1, StillThere
  <1>5. KafkaShape' /\ SlicesOnTheirWay'
    BY <1>1, <1>2, <1>4 DEF KafkaInv, KafkaShape, SlicesOnTheirWay
  <1> QED BY <1>1, <1>3, <1>5 DEF KafkaInv

LEMMA KafkaStep ==
    ASSUME KafkaInv, KafkaNext
    PROVE  KafkaInv'
  <1>1. ASSUME NEW l, StartSlices(l) \/ RejectSlices(l) \/ SkipEmptySlices(l) PROVE KafkaInv'
    BY <1>1, KafkaStart, KafkaIdles
  <1>2. CASE EnqueueSlice
    BY <1>2, KafkaEnqueue
  <1>3. CASE BeginAwait
    BY <1>3, KafkaBeginAwait
  <1>4. CASE AwaitDelivery
    BY <1>4, KafkaAwait
  <1>5. CASE DeliveryCancelled
    BY <1>5, KafkaCancelled
  <1>6. CASE FinishSlices
    BY <1>6, KafkaFinish
  <1>7. CASE RestartKafka
    BY <1>7, KafkaRestarts
  <1>8. CASE Arrive /\ UNCHANGED kafkaVars
    BY <1>8, KafkaArrival
  <1> QED BY <1>1, <1>2, <1>3, <1>4, <1>5, <1>6, <1>7, <1>8 DEF KafkaNext, KafkaSteps

-----------------------------------------------------------------------------
(* Iceberg                                                                  *)

IcebergShape ==
    /\ step \in Steps
    /\ step = "idle" => held = {}
    /\ step # "idle" => \E l : held = {l}

(* The tokens of the snapshots cover exactly what the table holds. *)
TokensMatch ==
    /\ \A i \in 1..Len(stored) : stored[i].part = 0
    /\ \A s : (\E t \in tokens : s \in Seqs(t)) <=> HasPart(s, 0)

(* Of a lease past the duplicate check, some batch is not in the table. *)
SomethingNew ==
    step \in {"write", "commit"} => \A l \in held : \E s \in Seqs(l) : ~HasPart(s, 0)

(* Every snapshot brought a batch that no snapshot before it had. *)
SnapshotsBringNew ==
    \A j \in 1..Len(stored) : \E s \in Seqs(stored[j]) : \A i \in 1..(j-1) : s \notin Seqs(stored[i])

IcebergInv ==
    /\ FeedOK /\ IcebergShape /\ TokensMatch /\ SomethingNew /\ SnapshotsBringNew
    /\ catalog => ClaimsStored({0})

LEMMA TheIcebergLease ==
    ASSUME IcebergInv, step # "idle"
    PROVE  held = {IcebergLease} /\ LeaseOK(IcebergLease)
  <1>1. PICK l : held = {l}
    BY DEF IcebergInv, IcebergShape
  <1>2. IcebergLease = l
    BY <1>1 DEF IcebergLease
  <1> QED BY <1>1, <1>2 DEF IcebergInv, FeedOK

(* A step after which the table is what it was. *)
LEMMA IcebergQuiet ==
    ASSUME IcebergInv, FeedOK', IcebergShape', UNCHANGED <<stored, tokens, catalog>>, SomethingNew',
           catalog => \A s \in Claims' : s \in Claims \/ HasPart(s, 0)
    PROVE  IcebergInv'
  <1>1. Grows
    BY SameStored
  <1>2. \A s : HasPart(s, 0)' <=> HasPart(s, 0)
    BY DEF HasPart
  <1>3. TokensMatch'
    BY <1>2 DEF IcebergInv, TokensMatch
  <1>4. SnapshotsBringNew'
    BY DEF IcebergInv, SnapshotsBringNew
  <1>5. catalog' => ClaimsStored({0})'
    BY <1>2 DEF IcebergInv, ClaimsStored
  <1> QED BY <1>3, <1>4, <1>5 DEF IcebergInv

(* The lease in hand is acknowledged because the table covers it, or because *)
(* there is no table.                                                        *)
LEMMA IcebergAcks ==
    ASSUME IcebergInv, step # "idle", AckIceberg, UNCHANGED <<stored, tokens>>,
           catalog => HasCommittedLease(IcebergLease)
    PROVE  IcebergInv'
  <1>1. Ack(IcebergLease) /\ step' = "idle" /\ UNCHANGED <<workload, arrived, restarts, catalog>>
    BY DEF AckIceberg
  <1>2. held = {IcebergLease} /\ FeedOK
    BY TheIcebergLease DEF IcebergInv
  <1>3. held' = {} /\ Claims' \subseteq Claims \cup Seqs(IcebergLease)
    BY <1>1, <1>2, AckFacts
  <1>4. FeedOK' /\ IcebergShape' /\ SomethingNew'
    BY <1>1, <1>2, <1>3, FeedStays DEF IcebergShape, SomethingNew, Steps
  <1>5. catalog => \A s \in Seqs(IcebergLease) : HasPart(s, 0)
    BY DEF HasCommittedLease, IcebergInv, TokensMatch
  <1> QED BY <1>1, <1>3, <1>4, <1>5, IcebergQuiet

LEMMA IcebergNacks ==
    ASSUME IcebergInv, step # "idle", NEW err, NackIceberg(err), UNCHANGED <<stored, tokens>>
    PROVE  IcebergInv'
  <1>1. /\ Nack(IcebergLease, ClassifyIceberg(err)) /\ step' = "idle"
        /\ UNCHANGED <<workload, arrived, restarts, catalog>>
    BY DEF NackIceberg
  <1>2. held = {IcebergLease} /\ FeedOK
    BY TheIcebergLease DEF IcebergInv
  <1>3. held' = {} /\ Claims' \subseteq Claims
    BY <1>1, <1>2, NackFacts
  <1>4. FeedOK' /\ IcebergShape' /\ SomethingNew'
    BY <1>1, <1>2, <1>3, FeedStays DEF IcebergShape, SomethingNew, Steps
  <1> QED BY <1>1, <1>3, <1>4, IcebergQuiet

LEMMA IcebergContinues ==
    ASSUME IcebergInv, step # "idle", NEW st \in {"write", "commit", "refresh"}, ContinueWith(st),
           UNCHANGED <<stored, tokens>>,
           st \in {"write", "commit"} => \E s \in Seqs(IcebergLease) : ~HasPart(s, 0)
    PROVE  IcebergInv'
  <1>1. step' = st /\ UNCHANGED <<workload, arrived, done, quarantined, held, restarts, catalog>>
    BY DEF ContinueWith
  <1>2. held = {IcebergLease} /\ FeedOK
    BY TheIcebergLease DEF IcebergInv
  <1>3. FeedOK' /\ Claims' = Claims
    BY <1>1, <1>2, FeedStays, ClaimsSame
  <1>4. \A s : HasPart(s, 0)' <=> HasPart(s, 0)
    BY DEF HasPart
  <1>5. IcebergShape'
    BY <1>1, <1>2 DEF IcebergShape, Steps
  <1>6. SomethingNew'
    BY <1>1, <1>2, <1>4 DEF SomethingNew
  <1> QED BY <1>1, <1>3, <1>5, <1>6, IcebergQuiet

(* The append transaction: rows and token become visible together. *)
LEMMA IcebergCommits ==
    ASSUME IcebergInv, step = "commit", Visible(IcebergLease.first, IcebergLease.last, 0),
           tokens' = tokens \cup {[first |-> IcebergLease.first, last |-> IcebergLease.last]},
           AckIceberg \/ ContinueWith("refresh")
    PROVE  IcebergInv'
  <1>1. held = {IcebergLease} /\ LeaseOK(IcebergLease) /\ FeedOK
    BY TheIcebergLease DEF IcebergInv
  <1>2. PICK l : l = IcebergLease
    OBVIOUS
  <1>3. l.first \in Nat \ {0} /\ l.last \in Nat /\ held = {l} /\ Visible(l.first, l.last, 0)
    BY <1>1, <1>2 DEF LeaseOK
  <1>4. stored \in Seq(Entries) /\ restarts \in Nat /\ Len(stored) \in Nat
    BY <1>1 DEF FeedOK
  <1>5. /\ stored' \in Seq(Entries)
        /\ Len(stored') = Len(stored) + 1
        /\ \A i \in 1..Len(stored) : stored'[i] = stored[i]
        /\ stored'[Len(stored) + 1] = [first |-> l.first, last |-> l.last, part |-> 0]
        /\ Grows
        /\ \A s \in l.first..l.last : HasPart(s, 0)'
    BY <1>3, <1>4, VisibleFacts
  <1>6. PICK e : e = [first |-> l.first, last |-> l.last, part |-> 0]
    OBVIOUS
  <1>7. Seqs(e) = Seqs(l) /\ e.part = 0 /\ stored'[Len(stored) + 1] = e
    BY <1>5, <1>6 DEF Seqs
  <1>8. ASSUME NEW s PROVE HasPart(s, 0)' <=> HasPart(s, 0) \/ s \in Seqs(l)
    <2>1. ASSUME HasPart(s, 0)' PROVE HasPart(s, 0) \/ s \in Seqs(l)
      <3>1. PICK i \in 1..(Len(stored) + 1) : s \in Seqs(stored'[i]) /\ stored'[i].part = 0
        BY <1>5, <2>1 DEF HasPart
      <3>2. CASE i = Len(stored) + 1
        BY <1>7, <3>1, <3>2
      <3>3. CASE i # Len(stored) + 1
        <4>1. i \in 1..Len(stored)
          BY <1>4, <3>3
        <4> QED BY <1>5, <3>1, <4>1 DEF HasPart
      <3> QED BY <3>2, <3>3
    <2>2. HasPart(s, 0) => HasPart(s, 0)'
      BY <1>5 DEF Grows
    <2>3. s \in Seqs(l) => HasPart(s, 0)'
      BY <1>5 DEF Seqs
    <2> QED BY <2>1, <2>2, <2>3
  <1>9. TokensMatch'
    <2>1. ASSUME NEW i \in 1..Len(stored') PROVE stored'[i].part = 0
      <3>1. CASE i = Len(stored) + 1
        BY <1>7, <3>1
      <3>2. CASE i # Len(stored) + 1
        <4>1. i \in 1..Len(stored)
          BY <1>4, <1>5, <3>2
        <4> QED BY <1>5, <4>1 DEF IcebergInv, TokensMatch
      <3> QED BY <3>1, <3>2
    <2>2. PICK tok : tok = [first |-> l.first, last |-> l.last]
      OBVIOUS
    <2>3. Seqs(tok) = Seqs(l) /\ tokens' = tokens \cup {tok}
      BY <1>2, <2>2 DEF Seqs
    <2>4. ASSUME NEW s PROVE (\E t \in tokens' : s \in Seqs(t)) <=> HasPart(s, 0)'
      <3>1. (\E t \in tokens' : s \in Seqs(t)) <=> (\E t \in tokens : s \in Seqs(t)) \/ s \in Seqs(l)
        BY <2>3
      <3>2. (\E t \in tokens : s \in Seqs(t)) <=> HasPart(s, 0)
        BY DEF IcebergInv, TokensMatch
      <3> QED BY <1>8, <3>1, <3>2
    <2> QED BY <2>1, <2>4 DEF TokensMatch, Seqs
  <1>10. SnapshotsBringNew'
    <2> SUFFICES ASSUME NEW j \in 1..Len(stored')
                 PROVE  \E s \in Seqs(stored'[j]) : \A i \in 1..(j-1) : s \notin Seqs(stored'[i])
      BY DEF SnapshotsBringNew, Seqs
    <2>1. CASE j = Len(stored) + 1
      <3>1. PICK s \in Seqs(l) : ~HasPart(s, 0)
        BY <1>3 DEF IcebergInv, SomethingNew
      <3>2. \A i \in 1..Len(stored) : s \notin Seqs(stored[i])
        BY <3>1 DEF HasPart, IcebergInv, TokensMatch
      <3>3. \A i \in 1..(j-1) : s \notin Seqs(stored'[i])
        BY <1>4, <1>5, <2>1, <3>2
      <3> QED BY <1>7, <2>1, <3>1, <3>3
    <2>2. CASE j # Len(stored) + 1
      <3>1. j \in 1..Len(stored)
        BY <1>4, <1>5, <2>2
      <3>2. PICK s \in Seqs(stored[j]) : \A i \in 1..(j-1) : s \notin Seqs(stored[i])
        BY <3>1 DEF IcebergInv, SnapshotsBringNew
      <3>3. \A i \in 1..(j-1) : stored'[i] = stored[i]
        BY <1>4, <1>5, <3>1
      <3> QED BY <1>5, <3>1, <3>2, <3>3
    <2> QED BY <2>1, <2>2
  <1>11. /\ UNCHANGED <<arrived, restarts, catalog>> /\ IcebergShape' /\ step' \notin {"write", "commit"}
         /\ held' \subseteq held /\ Claims' \subseteq Claims \cup Seqs(l)
    <2>1. CASE AckIceberg
      <3>1. Ack(l) /\ step' = "idle" /\ UNCHANGED <<workload, arrived, restarts, catalog>>
        BY <1>2, <2>1 DEF AckIceberg
      <3>2. held' = {} /\ Claims' \subseteq Claims \cup Seqs(l)
        BY <1>3, <3>1, AckFacts
      <3> QED BY <3>1, <3>2 DEF IcebergShape, Steps
    <2>2. CASE ContinueWith("refresh")
      <3>1. step' = "refresh" /\ UNCHANGED <<workload, arrived, done, quarantined, held, restarts, catalog>>
        BY <2>2 DEF ContinueWith
      <3> QED BY <1>3, <3>1, ClaimsSame DEF IcebergShape, Steps
    <2> QED BY <2>1, <2>2
  <1>12. FeedOK'
    BY <1>1, <1>4, <1>5, <1>11, FeedKept
  <1>13. catalog' => ClaimsStored({0})'
    <2> SUFFICES ASSUME catalog, NEW s \in Claims' PROVE HasPart(s, 0)'
      BY <1>11 DEF ClaimsStored
    <2> QED BY <1>8, <1>11 DEF IcebergInv, ClaimsStored
  <1> QED BY <1>9, <1>10, <1>11, <1>12, <1>13 DEF IcebergInv, SomethingNew

LEMMA NotCommitted ==
    ASSUME IcebergInv, NEW l, ~HasCommittedLease(l)
    PROVE  \E s \in Seqs(l) : ~HasPart(s, 0)
  BY DEF HasCommittedLease, IcebergInv, TokensMatch

LEMMA IcebergStart ==
    ASSUME IcebergInv, NEW l, StartCommit(l)
    PROVE  IcebergInv'
  <1>1. /\ held = {} /\ Take(l) /\ step' = "open"
        /\ UNCHANGED <<workload, arrived, done, quarantined, restarts, stored, catalog, tokens>>
    BY DEF StartCommit
  <1>2. FeedOK' /\ held' = {l} /\ Claims' = Claims
    BY <1>1, FeedTakes, ClaimsSame DEF IcebergInv
  <1>3. IcebergShape' /\ SomethingNew'
    BY <1>1, <1>2 DEF IcebergShape, SomethingNew, Steps
  <1> QED BY <1>1, <1>2, <1>3, IcebergQuiet

LEMMA IcebergSkips ==
    ASSUME IcebergInv, NEW l, SkipEmptyCommit(l)
    PROVE  IcebergInv'
  <1>1. step = "idle" /\ step' = step /\ AckEmpty(l) /\ UNCHANGED <<catalog, tokens>>
    BY DEF SkipEmptyCommit, icebergVars
  <1>2. held = {} /\ FeedOK
    BY <1>1 DEF IcebergInv, IcebergShape
  <1>3. held' = {} /\ Claims' \subseteq Claims /\ UNCHANGED <<arrived, restarts, stored>>
    BY <1>1, <1>2, AckEmptyFacts
  <1>4. FeedOK' /\ IcebergShape' /\ SomethingNew'
    BY <1>1, <1>2, <1>3, FeedStays DEF IcebergShape, SomethingNew, Steps
  <1> QED BY <1>1, <1>3, <1>4, IcebergQuiet

LEMMA IcebergOpens ==
    ASSUME IcebergInv, OpenTable \/ SimulateCommit
    PROVE  IcebergInv'
  <1>1. step = "open" /\ UNCHANGED <<stored, tokens>>
    BY DEF OpenTable, SimulateCommit
  <1>2. \/ AckIceberg /\ (catalog => HasCommittedLease(IcebergLease))
        \/ ~HasCommittedLease(IcebergLease) /\ ContinueWith("write")
        \/ \E err : NackIceberg(err)
    BY DEF OpenTable, SimulateCommit
  <1>3. CASE AckIceberg /\ (catalog => HasCommittedLease(IcebergLease))
    BY <1>1, <1>3, IcebergAcks
  <1>4. CASE ~HasCommittedLease(IcebergLease) /\ ContinueWith("write")
    <2>1. \E s \in Seqs(IcebergLease) : ~HasPart(s, 0)
      BY <1>4, NotCommitted
    <2> QED BY <1>1, <1>4, <2>1, IcebergContinues
  <1>5. CASE \E err : NackIceberg(err)
    BY <1>1, <1>5, IcebergNacks
  <1> QED BY <1>2, <1>3, <1>4, <1>5

LEMMA IcebergWrites ==
    ASSUME IcebergInv, WriteFiles
    PROVE  IcebergInv'
  <1>1. step = "write" /\ UNCHANGED <<stored, tokens>> /\ (ContinueWith("commit") \/ \E err : NackIceberg(err))
    BY DEF WriteFiles
  <1>2. CASE ContinueWith("commit")
    <2>1. \E s \in Seqs(IcebergLease) : ~HasPart(s, 0)
      BY <1>1, TheIcebergLease DEF IcebergInv, SomethingNew
    <2> QED BY <1>1, <1>2, <2>1, IcebergContinues
  <1>3. CASE \E err : NackIceberg(err)
    BY <1>1, <1>3, IcebergNacks
  <1> QED BY <1>1, <1>2, <1>3

LEMMA IcebergTransacts ==
    ASSUME IcebergInv, CommitTransaction
    PROVE  IcebergInv'
  <1>1. step = "commit"
    BY DEF CommitTransaction
  <1>2. CASE /\ AckIceberg \/ ContinueWith("refresh")
             /\ Visible(IcebergLease.first, IcebergLease.last, 0)
             /\ tokens' = tokens \cup {[first |-> IcebergLease.first, last |-> IcebergLease.last]}
    BY <1>1, <1>2, IcebergCommits
  <1>3. CASE ContinueWith("refresh") /\ UNCHANGED <<stored, tokens>>
    BY <1>1, <1>3, IcebergContinues
  <1> QED BY <1>2, <1>3 DEF CommitTransaction

LEMMA IcebergRefreshes ==
    ASSUME IcebergInv, RefreshTable
    PROVE  IcebergInv'
  <1>1. /\ step = "refresh" /\ UNCHANGED <<stored, tokens>>
        /\ (HasCommittedLease(IcebergLease) /\ AckIceberg) \/ \E err : NackIceberg(err)
    BY DEF RefreshTable
  <1>2. CASE HasCommittedLease(IcebergLease) /\ AckIceberg
    BY <1>1, <1>2, IcebergAcks
  <1>3. CASE \E err : NackIceberg(err)
    BY <1>1, <1>3, IcebergNacks
  <1> QED BY <1>1, <1>2, <1>3

LEMMA IcebergRestarts ==
    ASSUME IcebergInv, RestartIceberg
    PROVE  IcebergInv'
  <1>1. Restart /\ step' = "idle" /\ UNCHANGED <<catalog, tokens>>
    BY DEF RestartIceberg
  <1>2. FeedOK /\ restarts \in Nat /\ stored \in Seq(Entries)
    BY DEF IcebergInv, FeedOK
  <1>3. /\ held' = {} /\ Claims' \subseteq Claims /\ restarts' = restarts + 1
        /\ UNCHANGED <<arrived, stored>>
    BY <1>1, <1>2, RestartFacts
  <1>4. restarts' \in Nat /\ stored' \in Seq(Entries)
    BY <1>2, <1>3
  <1>5. FeedOK' /\ IcebergShape' /\ SomethingNew'
    BY <1>1, <1>2, <1>3, <1>4, FeedKept DEF IcebergShape, SomethingNew, Steps
  <1> QED BY <1>1, <1>3, <1>5, IcebergQuiet

LEMMA IcebergArrival ==
    ASSUME IcebergInv, Arrive, UNCHANGED icebergVars
    PROVE  IcebergInv'
  <1>1. FeedOK' /\ Claims' = Claims /\ held' = held
    BY FeedArrives DEF IcebergInv
  <1>2. UNCHANGED <<catalog, step, tokens, stored>>
    BY DEF icebergVars, Arrive
  <1>3. \A s : HasPart(s, 0)' <=> HasPart(s, 0)
    BY <1>2 DEF HasPart
  <1>4. IcebergShape' /\ SomethingNew'
    BY <1>1, <1>2, <1>3 DEF IcebergInv, IcebergShape, SomethingNew
  <1> QED BY <1>1, <1>2, <1>4, IcebergQuiet

LEMMA IcebergStep ==
    ASSUME IcebergInv, IcebergNext
    PROVE  IcebergInv'
  <1>1. ASSUME NEW l, StartCommit(l) \/ SkipEmptyCommit(l) PROVE IcebergInv'
    BY <1>1, IcebergStart, IcebergSkips
  <1>2. CASE OpenTable \/ SimulateCommit
    BY <1>2, IcebergOpens
  <1>3. CASE WriteFiles
    BY <1>3, IcebergWrites
  <1>4. CASE CommitTransaction
    BY <1>4, IcebergTransacts
  <1>5. CASE RefreshTable
    BY <1>5, IcebergRefreshes
  <1>6. CASE RestartIceberg
    BY <1>6, IcebergRestarts
  <1>7. CASE Arrive /\ UNCHANGED icebergVars
    BY <1>7, IcebergArrival
  <1> QED BY <1>1, <1>2, <1>3, <1>4, <1>5, <1>6, <1>7 DEF IcebergNext, IcebergSteps

-----------------------------------------------------------------------------
(* Order, where one lease is in flight                                      *)

(* Until a restart, everything before a lease that was sent is resolved, and *)
(* the lease in hand is not.                                                 *)
OrderOK ==
    restarts = 0 =>
        /\ \A i \in 1..Len(stored) : 1..(stored[i].first - 1) \subseteq done
        /\ \A l \in held : l.first \notin done /\ 1..(l.first - 1) \subseteq done
        /\ \A i, j \in 1..Len(stored) : i < j => stored[i].first <= stored[j].first

LEMMA OrderStays ==
    ASSUME OrderOK, restarts' = restarts, UNCHANGED stored, done \subseteq done',
           held' = {} \/ (held' = held /\ done' = done)
    PROVE  OrderOK'
  BY DEF OrderOK

LEMMA OrderTakes ==
    ASSUME OrderOK, FeedOK, held = {}, NEW l, Take(l), UNCHANGED <<arrived, restarts, stored, done>>
    PROVE  OrderOK'
  <1>1. l \in NextLeases /\ held' = {l}
    BY DEF Take
  <1>2. LeaseOK(l) /\ l.first \in Waiting /\ \A s \in Waiting : l.first <= s
    BY <1>1, NextLeaseFacts
  <1>3. Waiting = (1..arrived) \ done
    BY DEF Waiting
  <1>4. l.first \notin done
    BY <1>2, <1>3
  <1>5. 1..(l.first - 1) \subseteq done
    <2> SUFFICES ASSUME NEW x \in 1..(l.first - 1), x \notin done PROVE FALSE
      OBVIOUS
    <2>1. PICK f : f = l.first
      OBVIOUS
    <2>2. f \in 1..arrived /\ arrived \in Nat /\ x \in 1..(f - 1)
      BY <1>2, <1>3, <2>1 DEF FeedOK
    <2>3. x \in 1..arrived /\ ~(f <= x)
      BY <2>2
    <2> QED BY <1>2, <1>3, <2>1, <2>3
  <1> QED BY <1>1, <1>4, <1>5 DEF OrderOK

(* What becomes visible of the lease in hand is not older than what is there. *)
LEMMA OrderVisible ==
    ASSUME OrderOK, stored \in Seq(Entries), restarts' = restarts, NEW l \in held, LeaseOK(l),
           NEW p \in Nat, Visible(l.first, l.last, p), done \subseteq done',
           held' = {} \/ (held' = held /\ done' = done)
    PROVE  OrderOK'
  <1> SUFFICES ASSUME restarts = 0 PROVE OrderOK'
    BY DEF OrderOK
  <1>1. l.first \in Nat \ {0} /\ l.last \in Nat /\ Len(stored) \in Nat
    BY DEF LeaseOK
  <1>2. PICK n : n = Len(stored)
    OBVIOUS
  <1>3. /\ Len(stored') = n + 1
        /\ \A i \in 1..n : stored'[i] = stored[i]
        /\ stored'[n + 1] = [first |-> l.first, last |-> l.last, part |-> p]
    BY <1>1, <1>2, VisibleFacts
  <1>4. stored'[n + 1].first = l.first /\ n \in Nat
    BY <1>1, <1>2, <1>3
  <1>5. /\ \A i \in 1..n : 1..(stored[i].first - 1) \subseteq done
        /\ l.first \notin done /\ 1..(l.first - 1) \subseteq done
        /\ \A i, j \in 1..n : i < j => stored[i].first <= stored[j].first
    BY <1>2 DEF OrderOK
  <1>6. ASSUME NEW i \in 1..n PROVE stored[i].first <= l.first
    <2>1. PICK a : a = stored[i].first
      OBVIOUS
    <2>2. a \in Nat \ {0}
      <3>1. stored[i] \in Entries
        BY <1>2
      <3> QED BY <2>1, <3>1 DEF Entries
    <2>3. l.first \notin 1..(a - 1)
      BY <1>5, <2>1
    <2> QED BY <1>1, <2>1, <2>2, <2>3
  <1>7. ASSUME NEW i \in 1..(n + 1) PROVE 1..(stored'[i].first - 1) \subseteq done'
    <2>1. CASE i = n + 1
      BY <1>4, <1>5, <2>1
    <2>2. CASE i # n + 1
      <3>1. i \in 1..n
        BY <1>4, <2>2
      <3> QED BY <1>3, <1>5, <3>1
    <2> QED BY <2>1, <2>2
  <1>8. ASSUME NEW i \in 1..(n + 1), NEW j \in 1..(n + 1), i < j
        PROVE  stored'[i].first <= stored'[j].first
    <2>1. i \in 1..n
      BY <1>4, <1>8
    <2>2. CASE j = n + 1
      BY <1>3, <1>4, <1>6, <2>1, <2>2
    <2>3. CASE j # n + 1
      <3>1. j \in 1..n
        BY <1>4, <2>3
      <3> QED BY <1>3, <1>5, <1>8, <2>1, <3>1
    <2> QED BY <2>2, <2>3
  <1>9. \A x \in held' : x.first \notin done' /\ 1..(x.first - 1) \subseteq done'
    BY DEF OrderOK
  <1> QED BY <1>3, <1>7, <1>8, <1>9 DEF OrderOK

LEMMA OrderRestarts ==
    ASSUME FeedOK, Restart
    PROVE  OrderOK'
  BY DEF FeedOK, Restart, OrderOK

LEMMA KafkaOrder ==
    ASSUME KafkaInv, OrderOK, KafkaNext
    PROVE  OrderOK'
  <1>1. FeedOK /\ stored \in Seq(Entries) /\ cursor \in Nat
    BY DEF KafkaInv, KafkaShape, FeedOK
  <1>2. ASSUME NEW l, StartSlices(l) PROVE OrderOK'
    BY <1>1, <1>2, OrderTakes DEF StartSlices
  <1>3. ASSUME NEW l, RejectSlices(l) \/ SkipEmptySlices(l) PROVE OrderOK'
    <2>1. held = {} /\ (RejectUnprepared(l) \/ AckEmpty(l))
      BY <1>3 DEF RejectSlices, SkipEmptySlices, KafkaInv, KafkaShape
    <2>2. held' = {} /\ done \subseteq done' /\ UNCHANGED <<restarts, stored>>
      BY <2>1, RejectFacts, AckEmptyFacts
    <2> QED BY <2>2, OrderStays
  <1>4. ASSUME phase # "idle", restarts' = restarts, done \subseteq done',
               held' = {} \/ (held' = held /\ done' = done),
               Delivered(cursor) \/ UNCHANGED stored
        PROVE  OrderOK'
    <2>1. KafkaLease \in held /\ LeaseOK(KafkaLease)
      BY <1>4, TheKafkaLease
    <2>2. CASE Delivered(cursor)
      <3>1. PICK l, c : l = KafkaLease /\ c = cursor
        OBVIOUS
      <3>2. Visible(l.first, l.last, c) /\ l \in held /\ LeaseOK(l) /\ c \in Nat
        BY <1>1, <2>1, <2>2, <3>1 DEF Delivered
      <3> QED BY <1>1, <1>4, <3>2, OrderVisible
    <2> QED BY <1>4, <2>2, OrderStays
  <1>5. CASE EnqueueSlice \/ AwaitDelivery
    <2>1. phase # "idle" /\ UNCHANGED <<restarts, done, held>>
      BY <1>5 DEF EnqueueSlice, AwaitDelivery, SameLease
    <2>2. Delivered(cursor) \/ UNCHANGED stored
      BY <1>5 DEF EnqueueSlice, AwaitDelivery, DeliveryFails
    <2> QED BY <1>4, <2>1, <2>2
  <1>6. CASE BeginAwait
    BY <1>6, OrderStays DEF BeginAwait, SameLease
  <1>7. CASE DeliveryCancelled
    <2>1. phase # "idle" /\ restarts' = restarts /\ done' = done /\ (Delivered(cursor) \/ UNCHANGED stored)
      BY <1>7 DEF DeliveryCancelled, FailBuffer
    <2>2. held' = {}
      BY <1>7, <2>1, TheKafkaLease DEF DeliveryCancelled, FailBuffer
    <2> QED BY <1>4, <2>1, <2>2
  <1>8. CASE FinishSlices
    <2>1. phase # "idle" /\ UNCHANGED <<workload, restarts, stored>>
      BY <1>8 DEF FinishSlices
    <2>2. Ack(KafkaLease) \/ Nack(KafkaLease, failure)
      BY <1>8 DEF FinishSlices
    <2>3. held' = {} /\ done \subseteq done'
      BY <2>1, <2>2, TheKafkaLease, AckFacts, NackFacts
    <2> QED BY <2>1, <2>3, OrderStays
  <1>9. CASE RestartKafka
    BY <1>1, <1>9, OrderRestarts DEF RestartKafka
  <1>10. CASE Arrive
    BY <1>10, OrderStays DEF Arrive
  <1> QED BY <1>2, <1>3, <1>5, <1>6, <1>7, <1>8, <1>9, <1>10 DEF KafkaNext, KafkaSteps

LEMMA IcebergOrder ==
    ASSUME IcebergInv, OrderOK, IcebergNext
    PROVE  OrderOK'
  <1>1. FeedOK /\ stored \in Seq(Entries)
    BY DEF IcebergInv, FeedOK
  <1>2. ASSUME NEW l, StartCommit(l) PROVE OrderOK'
    BY <1>1, <1>2, OrderTakes DEF StartCommit
  <1>3. ASSUME NEW l, SkipEmptyCommit(l) PROVE OrderOK'
    <2>1. held = {} /\ AckEmpty(l)
      BY <1>3 DEF SkipEmptyCommit, IcebergInv, IcebergShape
    <2>2. held' = {} /\ done \subseteq done' /\ UNCHANGED <<restarts, stored>>
      BY <2>1, AckEmptyFacts
    <2> QED BY <2>2, OrderStays
  <1>4. ASSUME step # "idle", AckIceberg \/ (\E err : NackIceberg(err)) \/ (\E st : ContinueWith(st))
        PROVE  /\ restarts' = restarts /\ done \subseteq done'
               /\ held' = {} \/ (held' = held /\ done' = done)
    <2>1. held = {IcebergLease}
      BY <1>4, TheIcebergLease
    <2>2. CASE AckIceberg
      <3>1. Ack(IcebergLease) /\ UNCHANGED <<workload, restarts>>
        BY <2>2 DEF AckIceberg
      <3> QED BY <2>1, <3>1, AckFacts
    <2>3. ASSUME NEW err, NackIceberg(err)
          PROVE  restarts' = restarts /\ done \subseteq done' /\ held' = {}
      <3>1. Nack(IcebergLease, ClassifyIceberg(err)) /\ UNCHANGED <<workload, restarts>>
        BY <2>3 DEF NackIceberg
      <3> QED BY <2>1, <3>1, NackFacts
    <2>4. ASSUME NEW st, ContinueWith(st)
          PROVE  restarts' = restarts /\ held' = held /\ done' = done
      BY <2>4 DEF ContinueWith
    <2> QED BY <1>4, <2>2, <2>3, <2>4
  <1>5. CASE SimulateCommit \/ OpenTable \/ WriteFiles \/ RefreshTable
    <2>1. step # "idle" /\ UNCHANGED stored
      BY <1>5 DEF SimulateCommit, OpenTable, WriteFiles, RefreshTable
    <2>2. AckIceberg \/ (\E err : NackIceberg(err)) \/ (\E st : ContinueWith(st))
      BY <1>5 DEF SimulateCommit, OpenTable, WriteFiles, RefreshTable
    <2> QED BY <1>4, <2>1, <2>2, OrderStays
  <1>6. CASE CommitTransaction
    <2>1. step # "idle" /\ (AckIceberg \/ \E st : ContinueWith(st))
      BY <1>6 DEF CommitTransaction
    <2>2. /\ restarts' = restarts /\ done \subseteq done'
          /\ held' = {} \/ (held' = held /\ done' = done)
      BY <1>4, <2>1
    <2>3. UNCHANGED stored \/ Visible(IcebergLease.first, IcebergLease.last, 0)
      BY <1>6 DEF CommitTransaction
    <2>4. PICK l : l = IcebergLease
      OBVIOUS
    <2>5. l \in held /\ LeaseOK(l)
      BY <2>1, <2>4, TheIcebergLease
    <2>6. CASE Visible(l.first, l.last, 0)
      BY <1>1, <2>2, <2>5, <2>6, OrderVisible
    <2> QED BY <2>2, <2>3, <2>4, <2>6, OrderStays
  <1>7. CASE RestartIceberg
    BY <1>1, <1>7, OrderRestarts DEF RestartIceberg
  <1>8. CASE Arrive
    BY <1>8, OrderStays DEF Arrive
  <1> QED BY <1>2, <1>3, <1>5, <1>6, <1>7, <1>8 DEF IcebergNext, IcebergSteps

-----------------------------------------------------------------------------
(* StarRocks, where labels are not cut                                      *)

Ranges == [first : Nat \ {0}, last : Nat]
LabelSet == [range : Ranges, idx : Nat]

(* Every label of the range before number n is aborted, so it never commits. *)
AbortedBelow(r, n) == \A k \in 0..(n - 1) : StateOf([range |-> r, idx |-> k]) = "aborted"

EntryOf(r) == [first |-> r.first, last |-> r.last, part |-> 0]

(* A label is used only when the ones before it are aborted, and the loads that *)
(* are visible are those of the committed labels, once each.                    *)
ServerOK ==
    /\ stored \in Seq(Entries)
    /\ DOMAIN labels \subseteq LabelSet
    /\ \A lb \in DOMAIN labels : labels[lb].range = lb.range /\ AbortedBelow(lb.range, lb.idx)
    /\ \A lb \in DOMAIN labels : StateOf(lb) = "committed" => \E i \in 1..Len(stored) : stored[i] = EntryOf(lb.range)
    /\ \A i \in 1..Len(stored) : \E lb \in DOMAIN labels : StateOf(lb) = "committed" /\ stored[i] = EntryOf(lb.range)
    /\ \A i, j \in 1..Len(stored) : stored[i] = stored[j] => i = j

(* What a step of the server keeps. *)
ServerStep ==
    /\ ServerOK' /\ Grows
    /\ \A x : StateOf(x) = "aborted" => StateOf(x)' = "aborted"
    /\ DOMAIN labels \subseteq DOMAIN labels'

LEMMA ServerSame ==
    ASSUME ServerOK, UNCHANGED <<labels, stored>>
    PROVE  ServerStep
  <1>1. Grows
    BY SameStored
  <1>2. \A x : StateOf(x)' = StateOf(x)
    BY DEF StateOf
  <1>3. ServerOK'
    <2>1. \A lb \in DOMAIN labels : AbortedBelow(lb.range, lb.idx)'
      BY <1>2 DEF ServerOK, AbortedBelow
    <2> QED BY <1>2, <2>1 DEF ServerOK
  <1> QED BY <1>1, <1>2, <1>3 DEF ServerStep

(* A label is set. *)
LEMMA SetLabelFacts ==
    ASSUME NEW lb, NEW l, NEW st, SetLabel(lb, l, st)
    PROVE  /\ DOMAIN labels' = DOMAIN labels \cup {lb}
           /\ labels'[lb].range = LeaseRange(l)
           /\ \A x \in DOMAIN labels \ {lb} : labels'[x] = labels[x]
           /\ StateOf(lb)' = st
           /\ \A x : x # lb => StateOf(x)' = StateOf(x)
  <1> DEFINE v == [state |-> st, range |-> LeaseRange(l)]
  <1>1. v.state = st /\ v.range = LeaseRange(l)
    OBVIOUS
  <1>2. labels' = Insert(labels, lb, v)
    BY DEF SetLabel
  <1> HIDE DEF v
  <1>3. labels' = [x \in DOMAIN labels \cup {lb} |-> IF x = lb THEN v ELSE labels[x]]
    BY <1>2 DEF Insert
  <1> QED BY <1>1, <1>3 DEF StateOf

(* A label changes its state on the server and nothing becomes visible. *)
LEMMA ServerMoves ==
    ASSUME ServerOK, NEW lb \in LabelSet, NEW l, LeaseRange(l) = lb.range, AbortedBelow(lb.range, lb.idx),
           NEW st, SetLabel(lb, l, st), UNCHANGED stored,
           st = "committed" <=> StateOf(lb) = "committed", StateOf(lb) = "aborted" => st = "aborted"
    PROVE  ServerStep
  <1>1. /\ DOMAIN labels' = DOMAIN labels \cup {lb}
        /\ labels'[lb].range = lb.range
        /\ \A x \in DOMAIN labels \ {lb} : labels'[x] = labels[x]
        /\ StateOf(lb)' = st
        /\ \A x : x # lb => StateOf(x)' = StateOf(x)
    BY SetLabelFacts
  <1>2. \A x : StateOf(x) = "aborted" => StateOf(x)' = "aborted"
    BY <1>1
  <1>3. \A x : StateOf(x)' = "committed" <=> StateOf(x) = "committed"
    BY <1>1
  <1>4. Grows
    BY SameStored
  <1>5. \A x \in DOMAIN labels' : labels'[x].range = x.range /\ AbortedBelow(x.range, x.idx)'
    <2>1. \A r, n : AbortedBelow(r, n) => AbortedBelow(r, n)'
      BY <1>2 DEF AbortedBelow
    <2> QED BY <1>1, <2>1 DEF ServerOK
  <1>6. \A x \in DOMAIN labels' : StateOf(x)' = "committed" => x \in DOMAIN labels
    BY <1>3 DEF StateOf
  <1>7. ServerOK'
    <2>1. DOMAIN labels' \subseteq LabelSet /\ DOMAIN labels \subseteq DOMAIN labels'
      BY <1>1 DEF ServerOK
    <2>2. \A x \in DOMAIN labels' : StateOf(x)' = "committed" => \E i \in 1..Len(stored) : stored[i] = EntryOf(x.range)
      BY <1>3, <1>6 DEF ServerOK
    <2>3. \A i \in 1..Len(stored) : \E x \in DOMAIN labels' : StateOf(x)' = "committed" /\ stored[i] = EntryOf(x.range)
      BY <1>3, <2>1 DEF ServerOK
    <2> QED BY <1>5, <2>1, <2>2, <2>3 DEF ServerOK
  <1> QED BY <1>1, <1>2, <1>4, <1>7 DEF ServerStep

(* Of the labels of one range only one commits: the ones before it are aborted, *)
(* and the ones after it are used only once it is aborted.                      *)
LEMMA OneCommits ==
    ASSUME ServerOK, NEW lb \in LabelSet, AbortedBelow(lb.range, lb.idx),
           StateOf(lb) \notin {"committed", "aborted"},
           NEW other \in DOMAIN labels, StateOf(other) = "committed"
    PROVE  other.range # lb.range
  <1> SUFFICES ASSUME other.range = lb.range PROVE FALSE
    OBVIOUS
  <1>1. other \in LabelSet /\ AbortedBelow(other.range, other.idx)
    BY DEF ServerOK
  <1>2. lb.idx \in Nat /\ other.idx \in Nat
    BY <1>1 DEF LabelSet
  <1>3. /\ lb = [range |-> lb.range, idx |-> lb.idx]
        /\ other = [range |-> lb.range, idx |-> other.idx]
    BY <1>1 DEF LabelSet
  <1>4. CASE other.idx < lb.idx
    <2>1. other.idx \in 0..(lb.idx - 1)
      BY <1>2, <1>4
    <2>2. StateOf([range |-> lb.range, idx |-> other.idx]) = "aborted"
      BY <2>1 DEF AbortedBelow
    <2> QED BY <1>3, <2>2
  <1>5. CASE lb.idx < other.idx
    <2>1. lb.idx \in 0..(other.idx - 1)
      BY <1>2, <1>5
    <2>2. StateOf([range |-> lb.range, idx |-> lb.idx]) = "aborted"
      BY <1>1, <2>1 DEF AbortedBelow
    <2> QED BY <1>3, <2>2
  <1>6. CASE lb.idx = other.idx
    BY <1>3, <1>6
  <1> QED BY <1>2, <1>4, <1>5, <1>6

(* The load under a label becomes visible. *)
LEMMA ServerCommits ==
    ASSUME ServerOK, NEW lb \in LabelSet, NEW l, LeaseOK(l), LeaseRange(l) = lb.range,
           AbortedBelow(lb.range, lb.idx), Commit(lb, l), StateOf(lb) \notin {"committed", "aborted"}
    PROVE  ServerStep /\ \A s \in Seqs(l) : HasPart(s, 0)'
  <1>1. SetLabel(lb, l, "committed") /\ Visible(l.first, l.last, 0)
    BY DEF Commit
  <1>2. /\ DOMAIN labels' = DOMAIN labels \cup {lb}
        /\ labels'[lb].range = lb.range
        /\ \A x \in DOMAIN labels \ {lb} : labels'[x] = labels[x]
        /\ StateOf(lb)' = "committed"
        /\ \A x : x # lb => StateOf(x)' = StateOf(x)
    BY <1>1, SetLabelFacts
  <1>3. PICK n : n = Len(stored)
    OBVIOUS
  <1>4. n \in Nat /\ stored \in Seq(Entries) /\ l.first \in Nat \ {0} /\ l.last \in Nat
    BY <1>3 DEF ServerOK, LeaseOK
  <1>5. /\ stored' \in Seq(Entries) /\ Len(stored') = n + 1
        /\ \A i \in 1..n : stored'[i] = stored[i]
        /\ stored'[n + 1] = [first |-> l.first, last |-> l.last, part |-> 0]
        /\ Grows
        /\ \A s \in l.first..l.last : HasPart(s, 0)'
    BY <1>1, <1>3, <1>4, VisibleFacts
  <1>6. PICK e : e = EntryOf(lb.range)
    OBVIOUS
  <1>7. stored'[n + 1] = e
    <2>1. lb.range.first = l.first /\ lb.range.last = l.last
      BY DEF LeaseRange
    <2> QED BY <1>5, <1>6, <2>1 DEF EntryOf
  <1>8. \A x : StateOf(x) = "aborted" => StateOf(x)' = "aborted"
    BY <1>2
  <1>9. \A x : StateOf(x)' = "committed" <=> x = lb \/ StateOf(x) = "committed"
    BY <1>2
  <1>10. \A x \in DOMAIN labels' : labels'[x].range = x.range /\ AbortedBelow(x.range, x.idx)'
    <2>1. \A r, m : AbortedBelow(r, m) => AbortedBelow(r, m)'
      BY <1>8 DEF AbortedBelow
    <2> QED BY <1>2, <2>1 DEF ServerOK
  <1>11. ASSUME NEW i \in 1..n PROVE stored[i] # e
    <2> SUFFICES ASSUME stored[i] = e PROVE FALSE
      OBVIOUS
    <2>1. PICK x \in DOMAIN labels : StateOf(x) = "committed" /\ stored[i] = EntryOf(x.range)
      BY <1>3 DEF ServerOK
    <2>2. x.range # lb.range
      BY <2>1, OneCommits
    <2>3. x.range \in Ranges /\ lb.range \in Ranges
      BY DEF ServerOK, LabelSet
    <2>4. EntryOf(x.range) = EntryOf(lb.range)
      BY <1>6, <2>1
    <2>5. x.range.first = lb.range.first /\ x.range.last = lb.range.last
      BY <2>4 DEF EntryOf
    <2> QED BY <2>2, <2>3, <2>5 DEF Ranges
  <1>12. ASSUME NEW x \in DOMAIN labels', StateOf(x)' = "committed"
         PROVE  \E i \in 1..(n + 1) : stored'[i] = EntryOf(x.range)
    <2>1. CASE x = lb
      <3>1. n + 1 \in 1..(n + 1)
        BY <1>4
      <3> QED BY <1>6, <1>7, <2>1, <3>1
    <2>2. CASE x # lb
      <3>1. x \in DOMAIN labels /\ StateOf(x) = "committed"
        BY <1>2, <1>12, <2>2
      <3>2. PICK i \in 1..n : stored[i] = EntryOf(x.range)
        BY <1>3, <3>1 DEF ServerOK
      <3>3. i \in 1..(n + 1)
        BY <1>4
      <3> QED BY <1>5, <3>2, <3>3
    <2> QED BY <2>1, <2>2
  <1>13. ASSUME NEW i \in 1..(n + 1)
         PROVE  \E x \in DOMAIN labels' : StateOf(x)' = "committed" /\ stored'[i] = EntryOf(x.range)
    <2>1. CASE i = n + 1
      BY <1>2, <1>6, <1>7, <2>1
    <2>2. CASE i # n + 1
      <3>1. i \in 1..n
        BY <1>4, <2>2
      <3>2. PICK x \in DOMAIN labels : StateOf(x) = "committed" /\ stored[i] = EntryOf(x.range)
        BY <1>3, <3>1 DEF ServerOK
      <3> QED BY <1>2, <1>5, <1>9, <3>1, <3>2
    <2> QED BY <2>1, <2>2
  <1>14. ASSUME NEW i \in 1..(n + 1), NEW j \in 1..(n + 1), stored'[i] = stored'[j]
         PROVE  i = j
    <2>1. ASSUME NEW a \in 1..(n + 1), a # n + 1 PROVE a \in 1..n
      BY <1>4, <2>1
    <2>2. CASE i = n + 1 \/ j = n + 1
      BY <1>5, <1>7, <1>11, <1>14, <2>1, <2>2
    <2>3. CASE i # n + 1 /\ j # n + 1
      <3>1. i \in 1..n /\ j \in 1..n
        BY <2>1, <2>3
      <3> QED BY <1>3, <1>5, <1>14, <3>1 DEF ServerOK
    <2> QED BY <2>2, <2>3
  <1>15. DOMAIN labels' \subseteq LabelSet
    BY <1>2 DEF ServerOK
  <1>16. ServerOK'
    BY <1>5, <1>10, <1>12, <1>13, <1>14, <1>15 DEF ServerOK, EntryOf
  <1> QED BY <1>2, <1>5, <1>8, <1>16 DEF ServerStep, Seqs

(* A request that is still under way carries a label like any other. *)
LateOK ==
    \A r \in late :
        /\ r.label \in LabelSet /\ LeaseOK(r.lease) /\ r.label.range = LeaseRange(r.lease)
        /\ AbortedBelow(r.label.range, r.label.idx)

(* What the sink remembers of a range: labels that are aborted. *)
TrackedOK == \A r \in DOMAIN tracked : tracked[r] \in Nat /\ AbortedBelow(r, tracked[r])

LoadOK ==
    /\ load \in [call : Calls, idx : Nat, probes : Nat]
    /\ load.call = "idle" => held = {}
    /\ load.call # "idle" => /\ \E l : held = {l}
                             /\ \A l \in held : AbortedBelow(LeaseRange(l), load.idx)
    /\ load.call \notin {"idle", "send", "begin"} =>
           \A l \in held : [range |-> LeaseRange(l), idx |-> load.idx] \in DOMAIN labels

StarRocksInv ==
    ~LongTable /\ FeedOK /\ ServerOK /\ LateOK /\ TrackedOK /\ LoadOK /\ ClaimsStored({0})

(* The label of the send in progress. *)
LEMMA ActiveFacts ==
    ASSUME StarRocksInv, load.call # "idle"
    PROVE  /\ held = {TheLease} /\ LeaseOK(TheLease)
           /\ ActiveLabel = [range |-> LeaseRange(TheLease), idx |-> load.idx]
           /\ ActiveLabel \in LabelSet /\ LeaseRange(TheLease) = ActiveLabel.range
           /\ ActiveLabel.idx = load.idx
           /\ AbortedBelow(ActiveLabel.range, ActiveLabel.idx)
           /\ load.call \notin {"idle", "send", "begin"} => ActiveLabel \in DOMAIN labels
  <1>1. PICK l : held = {l}
    BY DEF StarRocksInv, LoadOK
  <1>2. TheLease = l
    BY <1>1 DEF TheLease
  <1>3. LeaseOK(l)
    BY <1>1 DEF StarRocksInv, FeedOK
  <1>4. ActiveLabel = [range |-> LeaseRange(l), idx |-> load.idx]
    BY <1>2 DEF ActiveLabel, Label, StarRocksInv
  <1>5. load.idx \in Nat /\ LeaseRange(l) \in Ranges
    BY <1>3 DEF StarRocksInv, LoadOK, LeaseRange, LeaseOK, Ranges
  <1>6. ActiveLabel \in LabelSet /\ ActiveLabel.range = LeaseRange(l) /\ ActiveLabel.idx = load.idx
    BY <1>4, <1>5 DEF LabelSet
  <1>7. AbortedBelow(LeaseRange(l), load.idx)
    BY <1>1 DEF StarRocksInv, LoadOK
  <1>8. load.call \notin {"idle", "send", "begin"} => ActiveLabel \in DOMAIN labels
    BY <1>1, <1>4 DEF StarRocksInv, LoadOK
  <1> QED BY <1>1, <1>2, <1>3, <1>4, <1>6, <1>7, <1>8

LEMMA AbortedStays ==
    ASSUME ServerStep, NEW r, NEW n, AbortedBelow(r, n)
    PROVE  AbortedBelow(r, n)'
  BY DEF ServerStep, AbortedBelow

LEMMA LateStays ==
    ASSUME LateOK, ServerStep, late' \subseteq late
    PROVE  LateOK'
  <1> SUFFICES ASSUME NEW r \in late
               PROVE  /\ r.label \in LabelSet /\ LeaseOK(r.lease) /\ r.label.range = LeaseRange(r.lease)
                      /\ AbortedBelow(r.label.range, r.label.idx)'
    BY DEF LateOK, AbortedBelow, LeaseOK, LeaseRange
  <1> QED BY AbortedStays DEF LateOK

LEMMA LateAdds ==
    ASSUME StarRocksInv, load.call # "idle", ServerStep, NEW op,
           late' = late \cup {[op |-> op, label |-> ActiveLabel, lease |-> TheLease]}
    PROVE  LateOK'
  <1>1. PICK lb, l : lb = ActiveLabel /\ l = TheLease
    OBVIOUS
  <1>2. lb \in LabelSet /\ LeaseOK(l) /\ lb.range = LeaseRange(l) /\ AbortedBelow(lb.range, lb.idx)
    BY <1>1, ActiveFacts
  <1>3. PICK q : q = [op |-> op, label |-> lb, lease |-> l]
    OBVIOUS
  <1>4. q.label = lb /\ q.lease = l /\ late' = late \cup {q}
    BY <1>1, <1>3
  <1> SUFFICES ASSUME NEW r \in late'
               PROVE  /\ r.label \in LabelSet /\ LeaseOK(r.lease) /\ r.label.range = LeaseRange(r.lease)
                      /\ AbortedBelow(r.label.range, r.label.idx)'
    BY DEF LateOK, AbortedBelow, LeaseOK, LeaseRange
  <1>5. CASE r = q
    BY <1>2, <1>4, <1>5, AbortedStays
  <1>6. CASE r \in late
    BY <1>6, AbortedStays DEF LateOK, StarRocksInv
  <1> QED BY <1>4, <1>5, <1>6

LEMMA TrackedStays ==
    ASSUME TrackedOK, ServerStep, NEW D \in SUBSET DOMAIN tracked, tracked' = [r \in D |-> tracked[r]]
    PROVE  TrackedOK'
  <1> SUFFICES ASSUME NEW r \in D PROVE tracked[r] \in Nat /\ AbortedBelow(r, tracked[r])'
    <2>1. DOMAIN tracked' = D /\ \A r \in D : tracked'[r] = tracked[r]
      OBVIOUS
    <2>2. ASSUME NEW r \in DOMAIN tracked' PROVE tracked'[r] \in Nat /\ AbortedBelow(r, tracked[r])'
      BY <2>1, <2>2
    <2> QED BY <2>1, <2>2 DEF TrackedOK, AbortedBelow
  <1>1. PICK n : n = tracked[r]
    OBVIOUS
  <1>2. n \in Nat /\ AbortedBelow(r, n)
    BY <1>1 DEF TrackedOK
  <1> QED BY <1>1, <1>2, AbortedStays

(* A send that is over, however it went. *)
LEMMA StarRocksEnds ==
    ASSUME StarRocksInv, ServerStep, LateOK', TrackedOK', load' = NoSend, held' = {},
           UNCHANGED <<arrived, restarts>>,
           \A s \in Claims' : s \in Claims \/ HasPart(s, 0)'
    PROVE  StarRocksInv'
  <1>1. stored' \in Seq(Entries) /\ ServerOK' /\ Grows
    BY DEF ServerStep, ServerOK
  <1>2. FeedOK'
    BY <1>1 DEF StarRocksInv, FeedOK
  <1>3. LoadOK'
    BY DEF LoadOK, NoSend, Calls
  <1>4. ClaimsStored({0})'
    BY <1>1 DEF StarRocksInv, ClaimsStored, Grows
  <1> QED BY <1>1, <1>2, <1>3, <1>4 DEF StarRocksInv

LEMMA StarRocksSucceeds ==
    ASSUME StarRocksInv, load.call # "idle", Succeed, ServerStep, LateOK',
           \A s \in Seqs(TheLease) : HasPart(s, 0)'
    PROVE  StarRocksInv'
  <1>1. /\ tracked' = Forget(TheLease) /\ Ack(TheLease) /\ load' = NoSend
        /\ UNCHANGED <<workload, arrived, restarts>>
    BY DEF Succeed
  <1>2. held = {TheLease}
    BY ActiveFacts
  <1>3. held' = {} /\ Claims' \subseteq Claims \cup Seqs(TheLease)
    BY <1>1, <1>2, AckFacts
  <1>4. TrackedOK'
    <2>1. PICK D : D = DOMAIN tracked \ {LeaseRange(TheLease)}
      OBVIOUS
    <2>2. D \in SUBSET DOMAIN tracked /\ tracked' = [r \in D |-> tracked[r]]
      BY <1>1, <2>1 DEF Forget
    <2> QED BY <2>2, TrackedStays DEF StarRocksInv
  <1> QED BY <1>1, <1>3, <1>4, StarRocksEnds

LEMMA StarRocksFails ==
    ASSUME StarRocksInv, load.call # "idle", NEW err, Fail(err), ServerStep, LateOK'
    PROVE  StarRocksInv'
  <1>1. /\ tracked' = Remember(TheLease, Classify(err)) /\ Nack(TheLease, Classify(err)) /\ load' = NoSend
        /\ UNCHANGED <<workload, arrived, restarts>>
    BY DEF Fail
  <1>2. held = {TheLease} /\ AbortedBelow(LeaseRange(TheLease), load.idx)
    BY ActiveFacts
  <1>3. held' = {} /\ Claims' \subseteq Claims
    BY <1>1, <1>2, NackFacts
  <1>4. PICK k, n : k = LeaseRange(TheLease) /\ n = load.idx
    OBVIOUS
  <1>5. n \in Nat /\ AbortedBelow(k, n)'
    BY <1>2, <1>4, AbortedStays DEF StarRocksInv, LoadOK
  <1>6. TrackedOK
    BY DEF StarRocksInv
  <1>7. TrackedOK'
    <2>1. CASE tracked' = Forget(TheLease)
      <3>1. PICK D : D = DOMAIN tracked \ {LeaseRange(TheLease)}
        OBVIOUS
      <3>2. D \in SUBSET DOMAIN tracked /\ tracked' = [r \in D |-> tracked[r]]
        BY <2>1, <3>1 DEF Forget
      <3> QED BY <1>6, <3>2, TrackedStays
    <2>2. ASSUME NEW f, f = << >> \/ f = tracked, tracked' = Insert(f, k, n)
          PROVE  TrackedOK'
      <3>1. DOMAIN tracked' = DOMAIN f \cup {k} /\ tracked'[k] = n /\ \A r \in DOMAIN f \ {k} : tracked'[r] = f[r]
        BY <2>2 DEF Insert
      <3>2. DOMAIN f \subseteq DOMAIN tracked /\ \A r \in DOMAIN f : f[r] = tracked[r]
        BY <2>2
      <3>3. ASSUME NEW r \in DOMAIN tracked' PROVE \E m \in Nat : tracked'[r] = m /\ AbortedBelow(r, m)'
        <4>1. CASE r = k
          BY <1>5, <3>1, <4>1
        <4>2. CASE r # k
          <5>1. PICK m : m = tracked[r]
            OBVIOUS
          <5>2. tracked'[r] = m /\ r \in DOMAIN tracked
            BY <3>1, <3>2, <4>2, <5>1
          <5>3. m \in Nat /\ AbortedBelow(r, m)
            BY <1>6, <5>1, <5>2 DEF TrackedOK
          <5> QED BY <5>2, <5>3, AbortedStays
        <4> QED BY <4>1, <4>2
      <3> QED BY <3>3 DEF TrackedOK, AbortedBelow
    <2>3. \/ tracked' = Forget(TheLease)
          \/ \E f : (f = << >> \/ f = tracked) /\ tracked' = Insert(f, k, n)
      BY <1>1, <1>4 DEF Remember
    <2> QED BY <2>1, <2>2, <2>3
  <1> QED BY <1>1, <1>3, <1>7, StarRocksEnds

(* The send goes on. *)
LEMMA StarRocksGoesOn ==
    ASSUME StarRocksInv, load.call # "idle", SameFeed, ServerStep, LateOK', UNCHANGED tracked,
           load' \in [call : Calls, idx : Nat, probes : Nat], load'.call # "idle",
           AbortedBelow(LeaseRange(TheLease), load.idx)',
           load'.call \notin {"idle", "send", "begin"} =>
               [range |-> LeaseRange(TheLease), idx |-> load'.idx] \in DOMAIN labels'
    PROVE  StarRocksInv'
  <1>1. /\ held' = held /\ Claims' = Claims /\ UNCHANGED <<arrived, restarts>>
    BY ClaimsSame DEF SameFeed
  <1>2. stored' \in Seq(Entries) /\ ServerOK' /\ Grows
    BY DEF ServerStep, ServerOK
  <1>3. FeedOK'
    BY <1>1, <1>2 DEF StarRocksInv, FeedOK, LeaseOK
  <1>4. ClaimsStored({0})'
    BY <1>1, <1>2 DEF StarRocksInv, ClaimsStored, Grows
  <1>5. TrackedOK'
    <2> SUFFICES ASSUME NEW r \in DOMAIN tracked PROVE \E m \in Nat : tracked'[r] = m /\ AbortedBelow(r, m)'
      BY DEF TrackedOK, AbortedBelow
    <2>1. PICK m : m = tracked[r]
      OBVIOUS
    <2>2. m \in Nat /\ AbortedBelow(r, m)
      BY <2>1 DEF TrackedOK, StarRocksInv
    <2> QED BY <2>1, <2>2, AbortedStays
  <1>6. PICK l : l = TheLease
    OBVIOUS
  <1>7. held = {l} /\ TheLease' = TheLease
    BY <1>1, <1>6, ActiveFacts DEF TheLease
  <1>8. LoadOK'
    BY <1>1, <1>6, <1>7 DEF LoadOK
  <1> QED BY <1>2, <1>3, <1>4, <1>5, <1>8 DEF StarRocksInv

LEMMA StarRocksGoto ==
    ASSUME StarRocksInv, load.call # "idle", NEW c \in Calls \ {"idle"}, Goto(c), ServerStep, LateOK',
           ActiveLabel \in DOMAIN labels'
    PROVE  StarRocksInv'
  <1>1. load' = [load EXCEPT !.call = c] /\ SameFeed /\ UNCHANGED tracked
    BY DEF Goto
  <1>2. load \in [call : Calls, idx : Nat, probes : Nat]
    BY DEF StarRocksInv, LoadOK
  <1>3. load' \in [call : Calls, idx : Nat, probes : Nat] /\ load'.call = c /\ load'.idx = load.idx
    BY <1>1, <1>2
  <1>4. PICK l, n : l = TheLease /\ n = load.idx
    OBVIOUS
  <1>5. held = {l} /\ ActiveLabel = [range |-> LeaseRange(l), idx |-> n] /\ AbortedBelow(LeaseRange(l), n)
    BY <1>4, ActiveFacts
  <1>6. TheLease' = l
    BY <1>1, <1>4 DEF SameFeed, TheLease
  <1>7. AbortedBelow(LeaseRange(l), n)'
    BY <1>5, AbortedStays
  <1>8. AbortedBelow(LeaseRange(TheLease), load.idx)'
    BY <1>3, <1>4, <1>6, <1>7 DEF AbortedBelow
  <1> QED BY <1>1, <1>3, <1>4, <1>5, <1>8, StarRocksGoesOn

(* An aborted label is left for the next one. *)
LEMMA StarRocksProbes ==
    ASSUME StarRocksInv, load.call # "idle", NEW c \in {"send", "begin"}, Probe(c), ServerStep, LateOK',
           StateOf(ActiveLabel) = "aborted"
    PROVE  StarRocksInv'
  <1>1. CASE Fail("exists")
    BY <1>1, StarRocksFails
  <1>2. CASE /\ load' = [call |-> c, idx |-> load.idx + 1, probes |-> load.probes + 1]
             /\ SameFeed /\ UNCHANGED <<mode, tracked>>
    <2>1. load.idx \in Nat /\ load.probes \in Nat
      BY DEF StarRocksInv, LoadOK
    <2>2. load' \in [call : Calls, idx : Nat, probes : Nat] /\ load'.call = c /\ load'.idx = load.idx + 1
      BY <1>2, <2>1 DEF Calls
    <2>3. PICK l, n : l = TheLease /\ n = load.idx
      OBVIOUS
    <2>4. ActiveLabel = [range |-> LeaseRange(l), idx |-> n] /\ AbortedBelow(LeaseRange(l), n)
      BY <2>3, ActiveFacts
    <2>5. AbortedBelow(LeaseRange(l), n + 1)
      <3> SUFFICES ASSUME NEW k \in 0..((n + 1) - 1)
                   PROVE  StateOf([range |-> LeaseRange(l), idx |-> k]) = "aborted"
        BY DEF AbortedBelow
      <3>1. CASE k = n
        BY <2>4, <3>1
      <3>2. CASE k # n
        <4>1. k \in 0..(n - 1)
          BY <2>1, <2>3, <3>2
        <4> QED BY <2>4, <4>1 DEF AbortedBelow
      <3> QED BY <3>1, <3>2
    <2>6. TheLease' = l
      BY <1>2, <2>3 DEF SameFeed, TheLease
    <2>7. AbortedBelow(LeaseRange(l), n + 1)'
      BY <2>5, AbortedStays
    <2>8. AbortedBelow(LeaseRange(TheLease), load.idx)'
      BY <2>2, <2>3, <2>6, <2>7 DEF AbortedBelow
    <2> QED BY <1>2, <2>2, <2>8, StarRocksGoesOn
  <1> QED BY <1>1, <1>2 DEF Probe

(* What the server says is committed is visible. *)
LEMMA CommittedIsVisible ==
    ASSUME StarRocksInv, load.call # "idle", StateOf(ActiveLabel) = "committed"
    PROVE  \A s \in Seqs(TheLease) : HasPart(s, 0)
  <1>1. PICK lb, l : lb = ActiveLabel /\ l = TheLease
    OBVIOUS
  <1>2. lb.range = LeaseRange(l) /\ StateOf(lb) = "committed"
    BY <1>1, ActiveFacts
  <1>3. lb \in DOMAIN labels
    BY <1>2 DEF StateOf
  <1>4. PICK i \in 1..Len(stored) : stored[i] = EntryOf(lb.range)
    BY <1>2, <1>3 DEF StarRocksInv, ServerOK
  <1>5. stored[i].first = l.first /\ stored[i].last = l.last /\ stored[i].part = 0
    BY <1>2, <1>4 DEF EntryOf, LeaseRange
  <1>6. \A s \in Seqs(l) : HasPart(s, 0)
    BY <1>5 DEF HasPart, Seqs
  <1> QED BY <1>1, <1>6

(* What the calls of a send do to its own label. *)
LEMMA ActiveMoves ==
    ASSUME StarRocksInv, load.call # "idle", NEW st, SetLabel(ActiveLabel, TheLease, st), UNCHANGED stored,
           st = "committed" <=> StateOf(ActiveLabel) = "committed",
           StateOf(ActiveLabel) = "aborted" => st = "aborted"
    PROVE  ServerStep /\ ActiveLabel \in DOMAIN labels'
  <1>1. PICK lb, l : lb = ActiveLabel /\ l = TheLease
    OBVIOUS
  <1>2. lb \in LabelSet /\ LeaseRange(l) = lb.range /\ AbortedBelow(lb.range, lb.idx) /\ ServerOK
    BY <1>1, ActiveFacts DEF StarRocksInv
  <1>3. SetLabel(lb, l, st) /\ (st = "committed" <=> StateOf(lb) = "committed")
        /\ (StateOf(lb) = "aborted" => st = "aborted")
    BY <1>1
  <1>4. ServerStep
    BY <1>2, <1>3, ServerMoves
  <1>5. lb \in DOMAIN labels'
    BY <1>3, SetLabelFacts
  <1> QED BY <1>1, <1>4, <1>5

LEMMA ActiveRollsBack ==
    ASSUME StarRocksInv, load.call # "idle", NEW st, RollbackOr(ActiveLabel, st), UNCHANGED stored,
           \/ st = StateOf(ActiveLabel)
           \/ {st, StateOf(ActiveLabel)} \subseteq {"begun", "loaded", "prepared"}
    PROVE  ServerStep
  <1>1. CASE st \in {"begun", "loaded", "prepared"} /\ SetLabel(ActiveLabel, TheLease, "aborted")
    BY <1>1, ActiveMoves
  <1>2. CASE SetLabel(ActiveLabel, TheLease, st)
    BY <1>2, ActiveMoves
  <1> QED BY <1>1, <1>2 DEF RollbackOr

LEMMA ActiveCommits ==
    ASSUME StarRocksInv, load.call # "idle", Commit(ActiveLabel, TheLease),
           StateOf(ActiveLabel) \notin {"committed", "aborted"}
    PROVE  ServerStep /\ \A s \in Seqs(TheLease) : HasPart(s, 0)'
  <1>1. PICK lb, l : lb = ActiveLabel /\ l = TheLease
    OBVIOUS
  <1>2. /\ lb \in LabelSet /\ LeaseRange(l) = lb.range /\ AbortedBelow(lb.range, lb.idx) /\ ServerOK
        /\ LeaseOK(l)
    BY <1>1, ActiveFacts DEF StarRocksInv
  <1>3. Commit(lb, l) /\ StateOf(lb) \notin {"committed", "aborted"}
    BY <1>1
  <1>4. ServerStep /\ \A s \in Seqs(l) : HasPart(s, 0)'
    BY <1>2, <1>3, ServerCommits
  <1> QED BY <1>1, <1>4

LEMMA ServerIdles ==
    ASSUME StarRocksInv, UNCHANGED <<labels, stored>>
    PROVE  ServerStep
  BY ServerSame DEF StarRocksInv

LEMMA StarRocksStart ==
    ASSUME StarRocksInv, NEW l, StartLoad(l)
    PROVE  StarRocksInv'
  <1>1. /\ held = {} /\ Take(l)
        /\ load' = [call |-> IF mode = "V1" THEN "send" ELSE "begin",
                    idx |-> IF LeaseRange(l) \in DOMAIN tracked THEN tracked[LeaseRange(l)] ELSE 0,
                    probes |-> 0]
        /\ UNCHANGED <<workload, arrived, done, quarantined, restarts, stored, tracked, labels, late>>
    BY DEF StartLoad
  <1>2. FeedOK' /\ held' = {l} /\ Claims' = Claims /\ ServerStep
    BY <1>1, FeedTakes, ClaimsSame, ServerIdles DEF StarRocksInv
  <1>3. ServerOK' /\ Grows
    BY <1>2 DEF ServerStep
  <1>4. LateOK'
    BY <1>1, <1>2, LateStays DEF StarRocksInv
  <1>5. TrackedOK' /\ ClaimsStored({0})'
    <2>1. \A x : StateOf(x)' = StateOf(x)
      BY <1>1 DEF StateOf
    <2> QED BY <1>1, <1>2, <1>3, <2>1 DEF StarRocksInv, TrackedOK, AbortedBelow, ClaimsStored, Grows
  <1>6. PICK n : n = IF LeaseRange(l) \in DOMAIN tracked THEN tracked[LeaseRange(l)] ELSE 0
    OBVIOUS
  <1>7. n \in Nat /\ AbortedBelow(LeaseRange(l), n)
    BY <1>6 DEF StarRocksInv, TrackedOK, AbortedBelow
  <1>8. AbortedBelow(LeaseRange(l), n)'
    BY <1>2, <1>7, AbortedStays
  <1>9. /\ load' \in [call : Calls, idx : Nat, probes : Nat] /\ load'.call \in {"send", "begin"} /\ load'.idx = n
    BY <1>1, <1>6, <1>7 DEF Calls
  <1>10. LoadOK'
    BY <1>2, <1>8, <1>9 DEF LoadOK, AbortedBelow
  <1> QED BY <1>2, <1>3, <1>4, <1>5, <1>10 DEF StarRocksInv

(* Nothing is being sent, and what happens in the feed claims nothing new. *)
LEMMA StarRocksIdles ==
    ASSUME StarRocksInv, UNCHANGED <<load, tracked, labels, late, stored>>, held' = held, FeedOK',
           Claims' \subseteq Claims
    PROVE  StarRocksInv'
  <1>1. ServerStep
    BY ServerIdles
  <1>2. ServerOK' /\ Grows
    BY <1>1 DEF ServerStep
  <1>3. LateOK'
    BY <1>1, LateStays DEF StarRocksInv
  <1>4. \A x : StateOf(x)' = StateOf(x)
    BY DEF StateOf
  <1>5. TrackedOK' /\ ClaimsStored({0})'
    BY <1>2, <1>4 DEF StarRocksInv, TrackedOK, AbortedBelow, ClaimsStored, Grows
  <1>6. LoadOK'
    BY <1>4 DEF StarRocksInv, LoadOK, AbortedBelow
  <1> QED BY <1>2, <1>3, <1>5, <1>6 DEF StarRocksInv

LEMMA StarRocksSkips ==
    ASSUME StarRocksInv, NEW l, RejectLoad(l) \/ SkipEmpty(l)
    PROVE  StarRocksInv'
  <1>1. load.call = "idle" /\ (RejectUnprepared(l) \/ AckEmpty(l)) /\ UNCHANGED <<load, tracked, labels, late>>
    BY DEF RejectLoad, SkipEmpty, starRocksVars
  <1>2. held = {} /\ FeedOK
    BY <1>1 DEF StarRocksInv, LoadOK
  <1>3. held' = {} /\ Claims' \subseteq Claims /\ UNCHANGED <<arrived, restarts, stored>>
    BY <1>1, <1>2, RejectFacts, AckEmptyFacts
  <1>4. FeedOK'
    BY <1>2, <1>3, FeedStays
  <1> QED BY <1>1, <1>2, <1>3, <1>4, StarRocksIdles

LEMMA StarRocksArrival ==
    ASSUME StarRocksInv, Arrive, UNCHANGED starRocksVars
    PROVE  StarRocksInv'
  <1>1. FeedOK' /\ Claims' = Claims /\ held' = held
    BY FeedArrives DEF StarRocksInv
  <1>2. UNCHANGED <<load, tracked, labels, late, stored>>
    BY DEF starRocksVars, Arrive
  <1> QED BY <1>1, <1>2, StarRocksIdles

LEMMA StarRocksSendV1 ==
    ASSUME StarRocksInv, SendV1
    PROVE  StarRocksInv'
  <1>1. load.call # "idle" /\ StateOf(ActiveLabel) = "none"
    BY DEF SendV1
  <1>2. LateOK
    BY DEF StarRocksInv
  <1>3. CASE Commit(ActiveLabel, TheLease) /\ Succeed /\ UNCHANGED late
    <2>1. ServerStep /\ \A s \in Seqs(TheLease) : HasPart(s, 0)'
      BY <1>1, <1>3, ActiveCommits
    <2>2. LateOK'
      BY <1>2, <1>3, <2>1, LateStays
    <2> QED BY <1>1, <1>3, <2>1, <2>2, StarRocksSucceeds
  <1>4. ASSUME NEW err, Fail(err),
               \/ SameServer /\ UNCHANGED late
               \/ SameServer /\ late' = late \cup {[op |-> "send", label |-> ActiveLabel, lease |-> TheLease]}
               \/ \E st \in {"running", "aborted"} :
                      SetLabel(ActiveLabel, TheLease, st) /\ UNCHANGED <<stored, late>>
               \/ Commit(ActiveLabel, TheLease) /\ UNCHANGED late
        PROVE  StarRocksInv'
    <2>1. CASE SameServer /\ UNCHANGED late
      <3>1. ServerStep
        BY <2>1, ServerIdles DEF SameServer
      <3>2. LateOK'
        BY <1>2, <2>1, <3>1, LateStays
      <3> QED BY <1>1, <1>4, <3>1, <3>2, StarRocksFails
    <2>2. CASE SameServer /\ late' = late \cup {[op |-> "send", label |-> ActiveLabel, lease |-> TheLease]}
      <3>1. ServerStep
        BY <2>2, ServerIdles DEF SameServer
      <3>2. LateOK'
        BY <1>1, <2>2, <3>1, LateAdds
      <3> QED BY <1>1, <1>4, <3>1, <3>2, StarRocksFails
    <2>3. ASSUME NEW st \in {"running", "aborted"}, SetLabel(ActiveLabel, TheLease, st), UNCHANGED <<stored, late>>
          PROVE  StarRocksInv'
      <3>1. ServerStep
        BY <1>1, <2>3, ActiveMoves
      <3>2. LateOK'
        BY <1>2, <2>3, <3>1, LateStays
      <3> QED BY <1>1, <1>4, <3>1, <3>2, StarRocksFails
    <2>4. CASE Commit(ActiveLabel, TheLease) /\ UNCHANGED late
      <3>1. ServerStep
        BY <1>1, <2>4, ActiveCommits
      <3>2. LateOK'
        BY <1>2, <2>4, <3>1, LateStays
      <3> QED BY <1>1, <1>4, <3>1, <3>2, StarRocksFails
    <2> QED BY <1>4, <2>1, <2>2, <2>3, <2>4
  <1> QED BY <1>3, <1>4 DEF SendV1

(* Steps of the sink that leave the server alone. *)
LEMMA StarRocksAsks ==
    ASSUME StarRocksInv, load.call # "idle", SameServer, UNCHANGED late,
           \/ StateOf(ActiveLabel) = "committed" /\ Succeed
           \/ StateOf(ActiveLabel) = "aborted" /\ \E c \in {"send", "begin"} : Probe(c)
           \/ \E err : Fail(err)
           \/ StateOf(ActiveLabel) # "none" /\ \E c \in Calls \ {"idle"} : Goto(c)
    PROVE  StarRocksInv'
  <1>1. ServerStep
    BY ServerIdles DEF SameServer
  <1>2. LateOK'
    BY <1>1, LateStays DEF StarRocksInv
  <1>3. CASE StateOf(ActiveLabel) = "committed" /\ Succeed
    <2>1. \A s \in Seqs(TheLease) : HasPart(s, 0)
      BY <1>3, CommittedIsVisible
    <2>2. \A s \in Seqs(TheLease) : HasPart(s, 0)'
      BY <1>1, <2>1 DEF ServerStep, Grows
    <2> QED BY <1>1, <1>2, <1>3, <2>2, StarRocksSucceeds
  <1>4. CASE StateOf(ActiveLabel) = "aborted" /\ \E c \in {"send", "begin"} : Probe(c)
    BY <1>1, <1>2, <1>4, StarRocksProbes
  <1>5. CASE \E err : Fail(err)
    BY <1>1, <1>2, <1>5, StarRocksFails
  <1>6. CASE StateOf(ActiveLabel) # "none" /\ \E c \in Calls \ {"idle"} : Goto(c)
    <2>1. ActiveLabel \in DOMAIN labels
      BY <1>6 DEF StateOf
    <2>2. ActiveLabel \in DOMAIN labels'
      BY <2>1 DEF SameServer
    <2> QED BY <1>1, <1>2, <1>6, <2>2, StarRocksGoto
  <1> QED BY <1>3, <1>4, <1>5, <1>6

LEMMA StarRocksConfirms ==
    ASSUME StarRocksInv, SendV1Exists \/ ConfirmV1 \/ RecheckV2
    PROVE  StarRocksInv'
  <1>1. load.call # "idle" /\ SameServer /\ UNCHANGED late
    BY DEF SendV1Exists, ConfirmV1, RecheckV2
  <1>2. \/ StateOf(ActiveLabel) = "committed" /\ Succeed
        \/ StateOf(ActiveLabel) = "aborted" /\ Probe("send")
        \/ \E err : Fail(err)
        \/ StateOf(ActiveLabel) # "none" /\ Goto("confirm")
    BY DEF SendV1Exists, ConfirmV1, RecheckV2
  <1>3. "confirm" \in Calls \ {"idle"}
    BY DEF Calls
  <1> QED BY <1>1, <1>2, <1>3, StarRocksAsks

LEMMA StarRocksBegins ==
    ASSUME StarRocksInv, BeginV2
    PROVE  StarRocksInv'
  <1>1. load.call # "idle" /\ UNCHANGED <<stored, late>>
    BY DEF BeginV2
  <1>2. LateOK
    BY DEF StarRocksInv
  <1>3. CASE /\ StateOf(ActiveLabel) = "none" /\ SetLabel(ActiveLabel, TheLease, "begun")
             /\ Goto("load") \/ Fail("network")
    <2>1. ServerStep /\ ActiveLabel \in DOMAIN labels'
      BY <1>1, <1>3, ActiveMoves
    <2>2. LateOK'
      BY <1>1, <1>2, <2>1, LateStays
    <2>3. CASE Goto("load")
      <3>1. "load" \in Calls \ {"idle"}
        BY DEF Calls
      <3> QED BY <1>1, <2>1, <2>2, <2>3, <3>1, StarRocksGoto
    <2>4. CASE Fail("network")
      BY <1>1, <2>1, <2>2, <2>4, StarRocksFails
    <2> QED BY <1>3, <2>3, <2>4
  <1>4. CASE StateOf(ActiveLabel) # "none" /\ Goto("completeOrConfirm") /\ UNCHANGED labels
    <2>1. "completeOrConfirm" \in Calls \ {"idle"} /\ SameServer
      BY <1>1, <1>4 DEF Calls, SameServer
    <2> QED BY <1>1, <1>4, <2>1, StarRocksAsks
  <1>5. CASE (\E err : Fail(err)) /\ UNCHANGED labels
    <2>1. SameServer
      BY <1>1, <1>5 DEF SameServer
    <2> QED BY <1>1, <1>5, <2>1, StarRocksAsks
  <1> QED BY <1>3, <1>4, <1>5 DEF BeginV2

LEMMA StarRocksAdvances ==
    ASSUME StarRocksInv, load.call # "idle", NEW from \in {"begun", "loaded"}, NEW to \in {"loaded", "prepared"},
           Advance(from, to), UNCHANGED <<stored, late>>
    PROVE  StarRocksInv'
  <1>1. LateOK
    BY DEF StarRocksInv
  <1>2. ASSUME NEW err, Fail(err), ServerStep PROVE StarRocksInv'
    <2>1. LateOK'
      BY <1>1, <1>2, LateStays
    <2> QED BY <1>2, <2>1, StarRocksFails
  <1>3. CASE /\ StateOf(ActiveLabel) = from /\ SetLabel(ActiveLabel, TheLease, to)
             /\ Goto(IF to = "loaded" THEN "prepare" ELSE "commit")
    <2>1. ServerStep /\ ActiveLabel \in DOMAIN labels'
      BY <1>3, ActiveMoves
    <2>2. LateOK'
      BY <1>1, <2>1, LateStays
    <2>3. (IF to = "loaded" THEN "prepare" ELSE "commit") \in Calls \ {"idle"}
      BY DEF Calls
    <2> QED BY <1>3, <2>1, <2>2, <2>3, StarRocksGoto
  <1>4. ASSUME StateOf(ActiveLabel) = from, NEW err, Fail(err),
               NEW reached \in {from, to}, RollbackOr(ActiveLabel, reached)
        PROVE  StarRocksInv'
    <2>1. {reached, StateOf(ActiveLabel)} \subseteq {"begun", "loaded", "prepared"}
      BY <1>4
    <2>2. ServerStep
      BY <1>4, <2>1, ActiveRollsBack
    <2> QED BY <1>2, <1>4, <2>2
  <1>5. ASSUME NEW err, Fail(err), RollbackOr(ActiveLabel, StateOf(ActiveLabel))
        PROVE  StarRocksInv'
    <2>1. ServerStep
      BY <1>5, ActiveRollsBack
    <2> QED BY <1>2, <1>5, <2>1
  <1> QED BY <1>3, <1>4, <1>5 DEF Advance

LEMMA StarRocksCommitV2 ==
    ASSUME StarRocksInv, CommitV2
    PROVE  StarRocksInv'
  <1>1. load.call # "idle"
    BY DEF CommitV2
  <1>2. LateOK
    BY DEF StarRocksInv
  <1>3. CASE /\ StateOf(ActiveLabel) = "prepared" /\ Commit(ActiveLabel, TheLease)
             /\ Succeed \/ Fail("network")
             /\ UNCHANGED late
    <2>1. ServerStep /\ \A s \in Seqs(TheLease) : HasPart(s, 0)'
      BY <1>1, <1>3, ActiveCommits
    <2>2. LateOK'
      BY <1>2, <1>3, <2>1, LateStays
    <2> QED BY <1>1, <1>3, <2>1, <2>2, StarRocksSucceeds, StarRocksFails
  <1>4. CASE /\ Fail("network") /\ SameServer
             /\ late' \in {late, late \cup {[op |-> "commit", label |-> ActiveLabel, lease |-> TheLease]}}
    <2>1. ServerStep
      BY <1>4, ServerIdles DEF SameServer
    <2>2. LateOK'
      <3>1. CASE late' = late
        BY <1>2, <2>1, <3>1, LateStays
      <3>2. CASE late' = late \cup {[op |-> "commit", label |-> ActiveLabel, lease |-> TheLease]}
        BY <1>1, <2>1, <3>2, LateAdds
      <3> QED BY <1>4, <3>1, <3>2
    <2> QED BY <1>1, <1>4, <2>1, <2>2, StarRocksFails
  <1>5. CASE /\ StateOf(ActiveLabel) = "committed"
             /\ Goto(IF load.call = "commit" THEN "completeOrConfirm" ELSE "recheck")
             /\ SameServer /\ UNCHANGED late
    <2>1. (IF load.call = "commit" THEN "completeOrConfirm" ELSE "recheck") \in Calls \ {"idle"}
      BY DEF Calls
    <2> QED BY <1>1, <1>5, <2>1, StarRocksAsks
  <1>6. CASE (\E err : Fail(err)) /\ SameServer /\ UNCHANGED late
    BY <1>1, <1>6, StarRocksAsks
  <1> QED BY <1>3, <1>4, <1>5, <1>6 DEF CommitV2

LEMMA StarRocksCompletes ==
    ASSUME StarRocksInv, ConfirmOrCompleteV2
    PROVE  StarRocksInv'
  <1>1. load.call # "idle" /\ UNCHANGED <<stored, late>>
    BY DEF ConfirmOrCompleteV2
  <1>2. CASE /\ UNCHANGED labels
             /\ \/ StateOf(ActiveLabel) = "committed" /\ Succeed
                \/ StateOf(ActiveLabel) = "aborted" /\ Probe("begin")
                \/ \E err : Fail(err)
                \/ StateOf(ActiveLabel) # "none" /\ Goto("complete")
    <2>1. "complete" \in Calls \ {"idle"} /\ SameServer
      BY <1>1, <1>2 DEF Calls, SameServer
    <2> QED BY <1>1, <1>2, <2>1, StarRocksAsks
  <1>3. CASE Fail("uncommitted") /\ RollbackOr(ActiveLabel, StateOf(ActiveLabel))
    <2>1. ServerStep
      BY <1>1, <1>3, ActiveRollsBack
    <2>2. LateOK'
      BY <1>1, <2>1, LateStays DEF StarRocksInv
    <2> QED BY <1>1, <1>3, <2>1, <2>2, StarRocksFails
  <1> QED BY <1>2, <1>3 DEF ConfirmOrCompleteV2

(* The server's own steps. *)
LEMMA StarRocksServes ==
    ASSUME StarRocksInv, SameFeed, UNCHANGED <<load, tracked>>, ServerStep, late' \subseteq late
    PROVE  StarRocksInv'
  <1>1. held' = held /\ Claims' = Claims /\ UNCHANGED <<arrived, restarts>>
    BY ClaimsSame DEF SameFeed
  <1>2. stored' \in Seq(Entries) /\ ServerOK' /\ Grows
    BY DEF ServerStep, ServerOK
  <1>3. FeedOK'
    BY <1>1, <1>2 DEF StarRocksInv, FeedOK, LeaseOK
  <1>4. ClaimsStored({0})'
    BY <1>1, <1>2 DEF StarRocksInv, ClaimsStored, Grows
  <1>5. LateOK'
    BY LateStays DEF StarRocksInv
  <1>6. \A r, n : AbortedBelow(r, n) => AbortedBelow(r, n)'
    BY AbortedStays
  <1>7. TrackedOK'
    BY <1>6 DEF StarRocksInv, TrackedOK, AbortedBelow
  <1>8. LoadOK'
    <2>1. \A l \in held : AbortedBelow(LeaseRange(l), load.idx) => AbortedBelow(LeaseRange(l), load.idx)'
      BY <1>6 DEF AbortedBelow, LeaseRange
    <2> QED BY <1>1, <2>1 DEF StarRocksInv, LoadOK, ServerStep, LeaseRange
  <1> QED BY <1>2, <1>3, <1>4, <1>5, <1>7, <1>8 DEF StarRocksInv

LEMMA StarRocksLate ==
    ASSUME StarRocksInv, LateRequest
    PROVE  StarRocksInv'
  <1>1. PICK r \in late : /\ late' = late \ {r}
                          /\ \/ /\ StateOf(r.label) = (IF r.op = "send" THEN "none" ELSE "prepared")
                                /\ Commit(r.label, r.lease)
                             \/ SameServer
                          /\ SameFeed /\ UNCHANGED <<mode, load, tracked, faults>>
    BY DEF LateRequest
  <1>2. CASE SameServer
    <2>1. ServerStep
      BY <1>2, ServerIdles DEF SameServer
    <2> QED BY <1>1, <2>1, StarRocksServes
  <1>3. CASE StateOf(r.label) = (IF r.op = "send" THEN "none" ELSE "prepared") /\ Commit(r.label, r.lease)
    <2>1. PICK lb, l : lb = r.label /\ l = r.lease
      OBVIOUS
    <2>2. /\ lb \in LabelSet /\ LeaseOK(l) /\ LeaseRange(l) = lb.range
          /\ AbortedBelow(lb.range, lb.idx) /\ ServerOK
      BY <2>1 DEF StarRocksInv, LateOK
    <2>3. Commit(lb, l) /\ StateOf(lb) \notin {"committed", "aborted"}
      BY <1>3, <2>1
    <2>4. ServerStep
      BY <2>2, <2>3, ServerCommits
    <2> QED BY <1>1, <2>4, StarRocksServes
  <1> QED BY <1>1, <1>2, <1>3

LEMMA StarRocksServerEnds ==
    ASSUME StarRocksInv, ServerEndsLoad
    PROVE  StarRocksInv'
  <1>1. PICK lb \in DOMAIN labels :
            /\ \/ labels[lb].state = "running" /\ Commit(lb, labels[lb].range)
               \/ /\ labels[lb].state \in {"running", "begun", "loaded", "prepared"}
                  /\ SetLabel(lb, labels[lb].range, "aborted") /\ UNCHANGED stored
            /\ SameFeed /\ UNCHANGED <<load, tracked, late>>
    BY DEF ServerEndsLoad
  <1>2. PICK l : l = labels[lb].range
    OBVIOUS
  <1>3. lb \in LabelSet /\ l = lb.range /\ AbortedBelow(lb.range, lb.idx) /\ ServerOK
    BY <1>2 DEF StarRocksInv, ServerOK
  <1>4. l \in Ranges
    BY <1>3 DEF LabelSet
  <1>5. LeaseOK(l) /\ LeaseRange(l) = l
    BY <1>4 DEF Ranges, LeaseOK, LeaseRange
  <1>6. StateOf(lb) = labels[lb].state
    BY DEF StateOf
  <1>7. CASE labels[lb].state = "running" /\ Commit(lb, l)
    <2>1. ServerStep
      BY <1>3, <1>5, <1>6, <1>7, ServerCommits
    <2> QED BY <1>1, <2>1, StarRocksServes
  <1>8. CASE /\ labels[lb].state \in {"running", "begun", "loaded", "prepared"}
             /\ SetLabel(lb, l, "aborted") /\ UNCHANGED stored
    <2>1. StateOf(lb) # "committed"
      BY <1>6, <1>8
    <2>2. ServerStep
      BY <1>3, <1>5, <1>8, <2>1, ServerMoves
    <2> QED BY <1>1, <2>2, StarRocksServes
  <1> QED BY <1>1, <1>2, <1>7, <1>8

LEMMA StarRocksRestarts ==
    ASSUME StarRocksInv, RestartStarRocks
    PROVE  StarRocksInv'
  <1>1. Restart /\ load' = NoSend /\ tracked' = << >> /\ UNCHANGED <<labels, late>>
    BY DEF RestartStarRocks
  <1>2. FeedOK /\ restarts \in Nat /\ stored \in Seq(Entries)
    BY DEF StarRocksInv, FeedOK
  <1>3. /\ held' = {} /\ Claims' \subseteq Claims /\ restarts' = restarts + 1
        /\ UNCHANGED <<arrived, stored>>
    BY <1>1, <1>2, RestartFacts
  <1>4. restarts' \in Nat /\ stored' \in Seq(Entries)
    BY <1>2, <1>3
  <1>5. FeedOK' /\ ServerStep
    BY <1>1, <1>2, <1>3, <1>4, FeedKept, ServerIdles
  <1>6. ServerOK' /\ Grows
    BY <1>5 DEF ServerStep
  <1>7. LateOK'
    BY <1>1, <1>5, LateStays DEF StarRocksInv
  <1>8. TrackedOK' /\ LoadOK'
    BY <1>1, <1>3 DEF TrackedOK, LoadOK, NoSend, Calls
  <1>9. ClaimsStored({0})'
    BY <1>3, <1>6 DEF StarRocksInv, ClaimsStored, Grows
  <1> QED BY <1>5, <1>6, <1>7, <1>8, <1>9 DEF StarRocksInv

LEMMA StarRocksStep ==
    ASSUME StarRocksInv, StarRocksNext
    PROVE  StarRocksInv'
  <1>1. ASSUME NEW l, StartLoad(l) \/ RejectLoad(l) \/ SkipEmpty(l) PROVE StarRocksInv'
    BY <1>1, StarRocksStart, StarRocksSkips
  <1>2. CASE SendV1
    BY <1>2, StarRocksSendV1
  <1>3. CASE SendV1Exists \/ ConfirmV1 \/ RecheckV2
    BY <1>3, StarRocksConfirms
  <1>4. CASE BeginV2
    BY <1>4, StarRocksBegins
  <1>5. CASE LoadV2
    BY <1>5, StarRocksAdvances DEF LoadV2
  <1>6. CASE PrepareV2
    BY <1>6, StarRocksAdvances DEF PrepareV2
  <1>7. CASE CommitV2
    BY <1>7, StarRocksCommitV2
  <1>8. CASE ConfirmOrCompleteV2
    BY <1>8, StarRocksCompletes
  <1>9. CASE LateRequest
    BY <1>9, StarRocksLate
  <1>10. CASE ServerEndsLoad
    BY <1>10, StarRocksServerEnds
  <1>11. CASE RestartStarRocks
    BY <1>11, StarRocksRestarts
  <1>12. CASE Arrive /\ UNCHANGED starRocksVars
    BY <1>12, StarRocksArrival
  <1> QED BY <1>1, <1>2, <1>3, <1>4, <1>5, <1>6, <1>7, <1>8, <1>9, <1>10, <1>11, <1>12
          DEF StarRocksNext, StarRocksSteps

-----------------------------------------------------------------------------
(* The Parquet sink's writers and uploads                                   *)

(* A row is in the batch that is being routed, in an open writer, in an upload that *)
(* has not succeeded, or stored.                                                    *)
RoutedRows(rt) == UNION {rt[n].rows : n \in 1..Len(rt)}
OpenRows(w) == UNION {w[p].rows : p \in DOMAIN w}
SentRows(u) == UNION {u[i].rows : i \in {k \in 1..Len(u) : u[k].state # "done"}}

RowEntry(r) == [first |-> r[1], last |-> r[1], part |-> r[2]]
StoredRows(st) == {r \in AllRows : \E i \in 1..Len(st) : st[i] = RowEntry(r)}

PartOf(r) == PartitionOf[r[1]][r[2]]

(* Rows of one partition. *)
OfPart(R, p) == R \in SUBSET AllRows /\ IsFiniteSet(R) /\ \A r \in R : PartOf(r) = p

SubBatchSet == [part : Nat, rows : SUBSET AllRows, admitted : BOOLEAN]
WriterSet == [rows : SUBSET AllRows, old : BOOLEAN]
UploadSet == [rows : SUBSET AllRows, state : {"running", "done", "failed"}]

(* What is left of a batch: one part for each partition, and only the first one may *)
(* have been let in by the memory check.                                            *)
RouteOK(rt) ==
    /\ rt \in Seq(SubBatchSet)
    /\ \A n \in 1..Len(rt) : OfPart(rt[n].rows, rt[n].part) /\ \A q, r \in rt[n].rows : q[1] = r[1]
    /\ \A m, n \in 1..Len(rt) : rt[m].part = rt[n].part => m = n
    /\ \A n \in 2..Len(rt) : ~rt[n].admitted

(* What was let in still fits. *)
AdmittedFits(rt, m) ==
    rt # << >> /\ rt[1].admitted /\ MemoryLimit > 0 => m + Cardinality(rt[1].rows) <= MemoryLimit

WritersOK(w) ==
    /\ w \in [DOMAIN w -> WriterSet]
    /\ \A p \in DOMAIN w : OfPart(w[p].rows, p) /\ (MaxRecords > 0 => Cardinality(w[p].rows) <= MaxRecords)

LruOK(s, D) ==
    /\ s \in Seq(D)
    /\ \A p \in D : \E k \in 1..Len(s) : s[k] = p
    /\ \A j, k \in 1..Len(s) : s[j] = s[k] => j = k

UploadsOK(u) ==
    /\ u \in Seq(UploadSet)
    /\ \A i \in 1..Len(u) : IsFiniteSet(u[i].rows)
    /\ \A i, j \in 1..Len(u) :
          i # j /\ u[i].state # "done" /\ u[j].state # "done" => u[i].rows \cap u[j].rows = {}

StoredOK(st) == st \in Seq(Entries) /\ \A i, j \in 1..Len(st) : st[i] = st[j] => i = j

Apart(A, B, C, D) ==
    /\ A \cap B = {} /\ A \cap C = {} /\ A \cap D = {}
    /\ B \cap C = {} /\ B \cap D = {} /\ C \cap D = {}

Received(dn) == {r \in AllRows : r[1] \in dn}

(* No row is in two places; a row that was not received is in none, and as long as  *)
(* no error is known each one that was received is in one.                          *)
RowsOnce(rt, w, u, st, dn, res) ==
    /\ Apart(RoutedRows(rt), OpenRows(w), SentRows(u), StoredRows(st))
    /\ RoutedRows(rt) \cup OpenRows(w) \cup SentRows(u) \cup StoredRows(st) \subseteq Received(dn)
    /\ res = "Ok" =>
          Received(dn) \subseteq RoutedRows(rt) \cup OpenRows(w) \cup SentRows(u) \cup StoredRows(st)

MemoryOK(w, m, rt) ==
    /\ IsFiniteSet(OpenRows(w)) /\ m = Cardinality(OpenRows(w))
    /\ MemoryLimit > 0 => m <= MemoryLimit
    /\ AdmittedFits(rt, m)

StagesOK(stg, res, rt, w, u, dn) ==
    /\ stg \in {"receive", "drain", "ended"} /\ res \in {"Ok", "Err"}
    /\ stg = "receive" => res = "Ok"
    /\ stg # "receive" => rt = << >>
    /\ stg # "receive" /\ res = "Ok" => 1..MaxSeq \subseteq dn
    /\ stg = "ended" => DOMAIN w = {} /\ u = << >>

InputOK(ar, hd, dn) == ar \in 0..MaxSeq /\ hd = {} /\ dn \subseteq 1..ar

PoolOK(w, l) == WritersOK(w) /\ LruOK(l, DOMAIN w) /\ Len(l) <= MaxOpen

ParquetInv ==
    /\ InputOK(arrived, held, done)
    /\ StagesOK(stage, result, route, writers, uploads, done)
    /\ RouteOK(route) /\ PoolOK(writers, lru) /\ UploadsOK(uploads) /\ StoredOK(stored)
    /\ MemoryOK(writers, memory, route)
    /\ RowsOnce(route, writers, uploads, stored, done, result)

(* The rows of a batch are finitely many. *)
LEMMA BatchFacts ==
    ASSUME NEW s \in 1..MaxSeq
    PROVE  /\ RowsOfBatch(s) \in Seq(Nat) /\ Len(RowsOfBatch(s)) \in Nat
           /\ s \notin Empty => RowsOfBatch(s) = PartitionOf[s]
           /\ s \in Empty => RowsOfBatch(s) = << >>
  BY ParquetAssumption DEF RowsOfBatch

LEMMA AllRowsMember ==
    ASSUME NEW r
    PROVE  r \in AllRows <=> \E s \in 1..MaxSeq : \E i \in 1..Len(RowsOfBatch(s)) : r = <<s, i>>
  BY DEF AllRows

LEMMA RowFacts ==
    ASSUME NEW r \in AllRows
    PROVE  /\ r = <<r[1], r[2]>> /\ r[1] \in 1..MaxSeq /\ r[2] \in 1..Len(RowsOfBatch(r[1]))
           /\ r[1] \in Nat \ {0} /\ r[2] \in Nat
  <1>0. PICK s \in 1..MaxSeq : \E i \in 1..Len(RowsOfBatch(s)) : r = <<s, i>>
    BY AllRowsMember
  <1>1. PICK i \in 1..Len(RowsOfBatch(s)) : r = <<s, i>>
    BY <1>0
  <1>2. r[1] = s /\ r[2] = i
    BY <1>1
  <1>3. s \in Nat \ {0} /\ i \in Nat
    BY LeaseFeedAssumption, BatchFacts
  <1> QED BY <1>1, <1>2, <1>3

LEMMA EntryFacts ==
    ASSUME NEW q \in AllRows, NEW r \in AllRows
    PROVE  RowEntry(r) \in Entries /\ (RowEntry(q) = RowEntry(r) => q = r)
  <1>1. RowEntry(r) \in Entries
    BY RowFacts DEF RowEntry, Entries
  <1>2. RowEntry(q) = RowEntry(r) => q[1] = r[1] /\ q[2] = r[2]
    BY DEF RowEntry
  <1> QED BY <1>1, <1>2, RowFacts

(* RowsIn: rows of one batch and one partition. *)
LEMMA RowsInFacts ==
    ASSUME NEW s \in 1..MaxSeq, NEW p
    PROVE  /\ OfPart(RowsIn(s, p), p)
           /\ \A r \in RowsIn(s, p) : r[1] = s
  <1> DEFINE K == {k \in 1..Len(RowsOfBatch(s)) : PartitionOf[s][k] = p}
             f == [k \in K |-> <<s, k>>]
  <1>1. Len(RowsOfBatch(s)) \in Nat
    BY BatchFacts
  <1>2. IsFiniteSet(K)
    <2>1. IsFiniteSet(1..Len(RowsOfBatch(s)))
      BY <1>1, FS_Interval
    <2> QED BY <2>1, FS_Subset
  <1>3. f \in Surjection(K, RowsIn(s, p))
    BY DEF Surjection, RowsIn
  <1>4. IsFiniteSet(RowsIn(s, p))
    BY <1>2, <1>3, FS_Surjection
  <1>5. ASSUME NEW r \in RowsIn(s, p) PROVE r \in AllRows /\ PartOf(r) = p /\ r[1] = s
    <2>1. PICK k \in K : r = <<s, k>>
      BY DEF RowsIn
    <2>2. r[1] = s /\ r[2] = k
      BY <2>1
    <2> QED BY <2>1, <2>2, AllRowsMember DEF PartOf
  <1> QED BY <1>4, <1>5 DEF OfPart

-----------------------------------------------------------------------------
(* Uploads *)

LEMMA UploadFields ==
    ASSUME NEW x \in UploadSet
    PROVE  x.rows \in SUBSET AllRows /\ x.state \in {"running", "done", "failed"}
  BY DEF UploadSet

LEMMA SentMember ==
    ASSUME NEW u, NEW r
    PROVE  r \in SentRows(u) <=> \E i \in 1..Len(u) : u[i].state # "done" /\ r \in u[i].rows
  BY DEF SentRows

(* check_background_errors: what leaves the list is done, or has failed. *)
LEMMA UnfinishedFacts ==
    ASSUME NEW u, UploadsOK(u)
    PROVE  /\ UploadsOK(Unfinished(u)) /\ Len(Unfinished(u)) \in Nat
           /\ SentRows(Unfinished(u)) \subseteq SentRows(u)
           /\ ~Failed(u) => SentRows(u) \subseteq SentRows(Unfinished(u))
  <1> DEFINE S == {i \in 1..Len(u) : u[i].state = "running"}
             c == Cardinality(S)
             v == Unfinished(u)
  <1>1. u \in Seq(UploadSet) /\ S \in SUBSET (1..Len(u)) /\ v = AtPlaces(u, S)
    BY DEF UploadsOK, Unfinished
  <1> HIDE DEF S, v
  <1>2. v \in Seq(UploadSet) /\ Len(v) = c /\ c \in Nat /\ Keeps(v, u, S)
    BY <1>1, PlacesKept
  <1>3. PICK a \in [1..c -> S] :
              /\ \A k \in 1..c : v[k] = u[a[k]]
              /\ \A j, k \in 1..c : j < k => a[j] < a[k]
              /\ \A x \in S : \E k \in 1..c : a[k] = x
    BY <1>2 DEF Keeps
  <1> HIDE DEF c
  <1>4. \A k \in 1..c : a[k] \in 1..Len(u) /\ u[a[k]].state = "running" /\ v[k] = u[a[k]]
    BY <1>3 DEF S
  <1>5. \A j, k \in 1..c : j # k => a[j] # a[k]
    <2> SUFFICES ASSUME NEW j \in 1..c, NEW k \in 1..c, j # k PROVE a[j] # a[k]
      OBVIOUS
    <2>1. j < k \/ k < j
      <3>1. j \in Int /\ k \in Int
        OBVIOUS
      <3> QED BY <3>1
    <2>2. a[j] < a[k] \/ a[k] < a[j]
      BY <1>3, <2>1
    <2>3. a[j] \in Int /\ a[k] \in Int
      <3>1. a[j] \in 1..Len(u) /\ a[k] \in 1..Len(u)
        BY <1>4
      <3> QED BY <3>1
    <2> QED BY <2>2, <2>3
  <1>6. UploadsOK(v)
    <2>1. \A i \in 1..c : IsFiniteSet(v[i].rows)
      BY <1>4 DEF UploadsOK
    <2>2. ASSUME NEW i \in 1..c, NEW j \in 1..c, i # j PROVE v[i].rows \cap v[j].rows = {}
      <3>1. a[i] # a[j] /\ a[i] \in 1..Len(u) /\ a[j] \in 1..Len(u)
        BY <1>4, <1>5, <2>2
      <3>2. u[a[i]].state # "done" /\ u[a[j]].state # "done"
        BY <1>4
      <3>3. u[a[i]].rows \cap u[a[j]].rows = {}
        BY <3>1, <3>2 DEF UploadsOK
      <3> QED BY <1>4, <3>3
    <2> QED BY <1>2, <2>1, <2>2 DEF UploadsOK
  <1>7. ASSUME NEW r \in SentRows(v) PROVE r \in SentRows(u)
    <2>1. PICK k \in 1..c : r \in v[k].rows
      BY <1>2, SentMember
    <2> QED BY <1>4, <2>1, SentMember
  <1>8. ASSUME ~Failed(u), NEW r \in SentRows(u) PROVE r \in SentRows(v)
    <2>1. PICK i \in 1..Len(u) : u[i].state # "done" /\ r \in u[i].rows
      BY SentMember
    <2>2. u[i] \in UploadSet
      BY <1>1, ElementOfSeq
    <2>3. u[i].state = "running"
      BY <1>8, <2>1, <2>2 DEF UploadSet, Failed
    <2>4. PICK k \in 1..c : a[k] = i
      BY <1>3, <2>3 DEF S
    <2>5. v[k].state # "done" /\ r \in v[k].rows
      BY <1>4, <2>1, <2>3, <2>4
    <2> QED BY <1>2, <2>5, SentMember
  <1> QED BY <1>2, <1>6, <1>7, <1>8 DEF v

(* An upload is added, *)
LEMMA AppendUpload ==
    ASSUME NEW u, UploadsOK(u), NEW R \in SUBSET AllRows, IsFiniteSet(R), R \cap SentRows(u) = {},
           NEW st \in {"running", "failed"}
    PROVE  /\ UploadsOK(Append(u, [rows |-> R, state |-> st]))
           /\ SentRows(Append(u, [rows |-> R, state |-> st])) = SentRows(u) \cup R
  <1> DEFINE x == [rows |-> R, state |-> st]
             v == Append(u, x)
             n == Len(u)
  <1>1. u \in Seq(UploadSet) /\ x \in UploadSet /\ x.rows = R /\ x.state # "done"
    BY DEF UploadsOK, UploadSet
  <1> HIDE DEF x
  <1>2. v \in Seq(UploadSet) /\ Len(v) = n + 1 /\ n \in Nat /\ v[n + 1] = x /\ \A i \in 1..n : v[i] = u[i]
    BY <1>1
  <1> HIDE DEF v
  <1>3. \A i \in 1..(n + 1) : i \in 1..n \/ i = n + 1
    BY <1>2
  <1>4. \A i \in 1..n : u[i].state # "done" => u[i].rows \cap R = {}
    BY SentMember
  <1>5. \A i \in 1..Len(v) : IsFiniteSet(v[i].rows)
    BY <1>1, <1>2, <1>3 DEF UploadsOK
  <1>6. \A i, j \in 1..Len(v) :
          i # j /\ v[i].state # "done" /\ v[j].state # "done" => v[i].rows \cap v[j].rows = {}
    <2> SUFFICES ASSUME NEW i \in 1..(n + 1), NEW j \in 1..(n + 1), i # j, v[i].state # "done", v[j].state # "done"
                 PROVE  v[i].rows \cap v[j].rows = {}
      BY <1>2
    <2>1. CASE i \in 1..n /\ j \in 1..n
      BY <1>2, <2>1 DEF UploadsOK
    <2>2. CASE i \in 1..n /\ j = n + 1
      BY <1>1, <1>2, <1>4, <2>2
    <2>3. CASE i = n + 1 /\ j \in 1..n
      BY <1>1, <1>2, <1>4, <2>3
    <2> QED BY <1>3, <2>1, <2>2, <2>3
  <1>7. UploadsOK(v)
    BY <1>2, <1>5, <1>6 DEF UploadsOK
  <1>8. SentRows(v) = SentRows(u) \cup R
    <2>1. ASSUME NEW r \in SentRows(v) PROVE r \in SentRows(u) \cup R
      <3>1. PICK i \in 1..(n + 1) : v[i].state # "done" /\ r \in v[i].rows
        BY <1>2, SentMember
      <3> QED BY <1>1, <1>2, <1>3, <3>1, SentMember
    <2>2. ASSUME NEW r \in SentRows(u) PROVE r \in SentRows(v)
      <3>1. PICK i \in 1..n : u[i].state # "done" /\ r \in u[i].rows
        BY SentMember
      <3>2. i \in 1..(n + 1) /\ v[i] = u[i]
        BY <1>2, <3>1
      <3> QED BY <1>2, <3>1, <3>2, SentMember
    <2>3. ASSUME NEW r \in R PROVE r \in SentRows(v)
      <3>1. n + 1 \in 1..Len(v)
        BY <1>2
      <3> QED BY <1>1, <1>2, <3>1, SentMember
    <2> QED BY <2>1, <2>2, <2>3
  <1> QED BY <1>7, <1>8 DEF v, x

(* the oldest one is awaited, *)
LEMMA TailUpload ==
    ASSUME NEW u, UploadsOK(u), u # << >>
    PROVE  /\ UploadsOK(Tail(u)) /\ Head(u) = u[1]
           /\ SentRows(Tail(u)) \subseteq SentRows(u)
           /\ u[1].state = "done" => SentRows(u) \subseteq SentRows(Tail(u))
  <1> DEFINE v == Tail(u)
             n == Len(u)
  <1>1. u \in Seq(UploadSet)
    BY DEF UploadsOK
  <1>2. n \in Nat \ {0} /\ v \in Seq(UploadSet) /\ Len(v) = n - 1 /\ Head(u) = u[1]
        /\ \A i \in 1..(n - 1) : v[i] = u[i + 1]
    BY <1>1, EmptySeq, HeadTailProperties
  <1> HIDE DEF v
  <1>3. \A i \in 1..(n - 1) : i + 1 \in 1..n
    BY <1>2
  <1>4. \A i \in 1..n : i = 1 \/ (i - 1 \in 1..(n - 1) /\ (i - 1) + 1 = i)
    BY <1>2
  <1>5. \A i \in 1..Len(v) : IsFiniteSet(v[i].rows)
    BY <1>2, <1>3 DEF UploadsOK
  <1>6. \A i, j \in 1..Len(v) :
          i # j /\ v[i].state # "done" /\ v[j].state # "done" => v[i].rows \cap v[j].rows = {}
    <2> SUFFICES ASSUME NEW i \in 1..(n - 1), NEW j \in 1..(n - 1), i # j, v[i].state # "done", v[j].state # "done"
                 PROVE  v[i].rows \cap v[j].rows = {}
      BY <1>2
    <2>1. i + 1 # j + 1
      BY <1>2
    <2>2. u[i + 1].rows \cap u[j + 1].rows = {}
      BY <1>2, <1>3, <2>1 DEF UploadsOK
    <2> QED BY <1>2, <2>2
  <1>7. ASSUME NEW r \in SentRows(v) PROVE r \in SentRows(u)
    <2>1. PICK i \in 1..(n - 1) : v[i].state # "done" /\ r \in v[i].rows
      BY <1>2, SentMember
    <2> QED BY <1>2, <1>3, <2>1, SentMember
  <1>8. ASSUME u[1].state = "done", NEW r \in SentRows(u) PROVE r \in SentRows(v)
    <2>1. PICK i \in 1..n : u[i].state # "done" /\ r \in u[i].rows
      BY SentMember
    <2>2. i - 1 \in 1..(n - 1) /\ (i - 1) + 1 = i
      BY <1>4, <1>8, <2>1
    <2>3. v[i - 1] = u[i]
      BY <1>2, <2>2
    <2> QED BY <1>2, <2>1, <2>2, <2>3, SentMember
  <1> QED BY <1>2, <1>5, <1>6, <1>7, <1>8 DEF UploadsOK, v

(* and a running one ends. *)
LEMMA EndUpload ==
    ASSUME NEW u, UploadsOK(u), NEW i \in 1..Len(u), u[i].state = "running",
           NEW st \in {"done", "failed"}
    PROVE  /\ UploadsOK([u EXCEPT ![i].state = st])
           /\ u[i].rows \subseteq SentRows(u) /\ u[i].rows \in SUBSET AllRows /\ IsFiniteSet(u[i].rows)
           /\ st = "failed" => SentRows([u EXCEPT ![i].state = st]) = SentRows(u)
           /\ st = "done" => SentRows([u EXCEPT ![i].state = st]) = SentRows(u) \ u[i].rows
  <1> DEFINE v == [u EXCEPT ![i].state = st]
             n == Len(u)
  <1>1. u \in Seq(UploadSet) /\ n \in Nat /\ u[i] \in UploadSet
    BY ElementOfSeq DEF UploadsOK
  <1>2. u[i].rows \in SUBSET AllRows /\ [u[i] EXCEPT !.state = st] \in UploadSet
        /\ [u[i] EXCEPT !.state = st].state = st /\ [u[i] EXCEPT !.state = st].rows = u[i].rows
    BY <1>1 DEF UploadSet
  <1>3. v = [u EXCEPT ![i] = [u[i] EXCEPT !.state = st]]
    BY <1>1
  <1>4. PICK x : x = [u[i] EXCEPT !.state = st]
    OBVIOUS
  <1>5. v = [u EXCEPT ![i] = x] /\ x \in UploadSet /\ x.state = st /\ x.rows = u[i].rows
    BY <1>2, <1>3, <1>4
  <1> HIDE DEF v
  <1>6. v \in Seq(UploadSet) /\ Len(v) = n /\ \A j \in 1..n : v[j] = IF j = i THEN x ELSE u[j]
    BY <1>1, <1>5, ExceptSeq
  <1>7. \A j \in 1..n : v[j].rows = u[j].rows /\ (v[j].state # "done" => u[j].state # "done")
    BY <1>5, <1>6
  <1>8. UploadsOK(v)
    BY <1>6, <1>7 DEF UploadsOK
  <1>9. u[i].rows \subseteq SentRows(u) /\ IsFiniteSet(u[i].rows)
    BY SentMember DEF UploadsOK
  <1>10. ASSUME st = "failed" PROVE SentRows(v) = SentRows(u)
    <2>1. \A j \in 1..n : v[j].state # "done" <=> u[j].state # "done"
      BY <1>5, <1>6, <1>10
    <2>2. \A r : r \in SentRows(v) <=> r \in SentRows(u)
      BY <1>6, <1>7, <2>1, SentMember
    <2> QED BY <2>2
  <1>11. ASSUME st = "done" PROVE SentRows(v) = SentRows(u) \ u[i].rows
    <2>1. \A j \in 1..n : v[j].state # "done" <=> u[j].state # "done" /\ j # i
      BY <1>5, <1>6, <1>11
    <2>2. \A j \in 1..n : j # i /\ u[j].state # "done" => u[j].rows \cap u[i].rows = {}
      BY DEF UploadsOK
    <2>3. \A r : r \in SentRows(v) <=> r \in SentRows(u) /\ r \notin u[i].rows
      <3> SUFFICES ASSUME NEW r PROVE r \in SentRows(v) <=> r \in SentRows(u) /\ r \notin u[i].rows
        OBVIOUS
      <3>1. ASSUME r \in SentRows(v) PROVE r \in SentRows(u) /\ r \notin u[i].rows
        <4>1. PICK j \in 1..n : v[j].state # "done" /\ r \in v[j].rows
          BY <1>6, <3>1, SentMember
        <4>2. u[j].state # "done" /\ j # i /\ r \in u[j].rows
          BY <1>7, <2>1, <4>1
        <4> QED BY <2>2, <4>2, SentMember
      <3>2. ASSUME r \in SentRows(u), r \notin u[i].rows PROVE r \in SentRows(v)
        <4>1. PICK j \in 1..n : u[j].state # "done" /\ r \in u[j].rows
          BY <3>2, SentMember
        <4>2. v[j].state # "done" /\ r \in v[j].rows
          BY <1>7, <2>1, <3>2, <4>1
        <4> QED BY <1>6, <4>2, SentMember
      <3> QED BY <3>1, <3>2
    <2> QED BY <2>3
  <1> QED BY <1>2, <1>8, <1>9, <1>10, <1>11 DEF v

-----------------------------------------------------------------------------
(* Open writers *)

(* The list of open partitions is as long as there are writers. *)
LEMMA LruLength ==
    ASSUME NEW D, NEW s, LruOK(s, D)
    PROVE  IsFiniteSet(D) /\ Cardinality(D) = Len(s) /\ Len(s) \in Nat
  <1>1. s \in Seq(D) /\ Len(s) \in Nat
    BY DEF LruOK
  <1>2. PICK n \in Nat : n = Len(s)
    BY <1>1
  <1>3. s \in [1..n -> D]
    BY <1>1, <1>2
  <1>4. s \in Surjection(1..n, D) /\ s \in Injection(1..n, D)
    BY <1>2, <1>3 DEF LruOK, Surjection, Injection, IsInjective
  <1>5. IsFiniteSet(1..n) /\ Cardinality(1..n) = n
    BY FS_Interval
  <1> QED BY <1>1, <1>2, <1>4, <1>5, FS_Surjection

LEMMA WithoutFacts ==
    ASSUME NEW D, NEW s, LruOK(s, D), NEW p
    PROVE  LruOK(Without(s, p), D \ {p})
  <1> DEFINE S == {i \in 1..Len(s) : s[i] # p}
             c == Cardinality(S)
             v == Without(s, p)
  <1>1. s \in Seq(D) /\ S \in SUBSET (1..Len(s)) /\ v = AtPlaces(s, S)
    BY DEF LruOK, Without
  <1> HIDE DEF S, v
  <1>2. v \in Seq(D) /\ Len(v) = c /\ c \in Nat /\ Keeps(v, s, S)
    BY <1>1, PlacesKept
  <1>3. PICK a \in [1..c -> S] :
              /\ \A k \in 1..c : v[k] = s[a[k]]
              /\ \A j, k \in 1..c : j < k => a[j] < a[k]
              /\ \A x \in S : \E k \in 1..c : a[k] = x
    BY <1>2 DEF Keeps
  <1> HIDE DEF c
  <1>4. \A k \in 1..c : a[k] \in 1..Len(s) /\ s[a[k]] # p /\ v[k] = s[a[k]]
    BY <1>3 DEF S
  <1>5. \A k \in 1..c : v[k] \in D \ {p}
    BY <1>1, <1>4, ElementOfSeq
  <1>6. v \in Seq(D \ {p})
    <2>1. v \in [1..Len(v) -> D \ {p}]
      BY <1>2, <1>5
    <2> QED BY <1>2, <2>1
  <1>7. ASSUME NEW q \in D \ {p} PROVE \E k \in 1..Len(v) : v[k] = q
    <2>1. PICK i \in 1..Len(s) : s[i] = q
      BY DEF LruOK
    <2>2. PICK k \in 1..c : a[k] = i
      BY <1>3, <2>1 DEF S
    <2> QED BY <1>2, <1>4, <2>1, <2>2
  <1>8. ASSUME NEW j \in 1..c, NEW k \in 1..c, v[j] = v[k] PROVE j = k
    <2>1. a[j] = a[k]
      <3>1. PICK x, y : x = a[j] /\ y = a[k]
        OBVIOUS
      <3>2. x \in 1..Len(s) /\ y \in 1..Len(s) /\ s[x] = s[y]
        BY <1>4, <1>8, <3>1
      <3> QED BY <3>1, <3>2 DEF LruOK
    <2>2. a[j] \in Int /\ a[k] \in Int
      <3>1. a[j] \in 1..Len(s) /\ a[k] \in 1..Len(s)
        BY <1>4
      <3> QED BY <3>1
    <2>3. ~(j < k) /\ ~(k < j)
      BY <1>3, <2>1, <2>2
    <2>4. j \in Int /\ k \in Int
      OBVIOUS
    <2> QED BY <2>3, <2>4
  <1> QED BY <1>2, <1>6, <1>7, <1>8 DEF LruOK, v

LEMMA AppendLru ==
    ASSUME NEW D, NEW s, NEW p, LruOK(s, D \ {p})
    PROVE  LruOK(Append(s, p), D \cup {p})
  <1> DEFINE v == Append(s, p)
             E == D \cup {p}
             n == Len(s)
  <1>1. s \in Seq(D \ {p}) /\ n \in Nat
    BY DEF LruOK
  <1>2. s \in Seq(E) /\ p \in E
    <2>1. D \ {p} \subseteq E
      OBVIOUS
    <2> QED BY <1>1, <2>1, SeqMonotonic
  <1> HIDE DEF E
  <1>3. v \in Seq(E) /\ Len(v) = n + 1 /\ v[n + 1] = p /\ \A i \in 1..n : v[i] = s[i]
    BY <1>1, <1>2
  <1>4. \A i \in 1..n : s[i] \in D \ {p}
    BY <1>1, ElementOfSeq
  <1> HIDE DEF v
  <1>5. \A i \in 1..(n + 1) : i \in 1..n \/ i = n + 1
    BY <1>1
  <1>6. ASSUME NEW q \in E PROVE \E k \in 1..Len(v) : v[k] = q
    <2>1. CASE q = p
      <3>1. n + 1 \in 1..Len(v)
        BY <1>1, <1>3
      <3> QED BY <1>3, <2>1, <3>1
    <2>2. CASE q \in D \ {p}
      <3>1. PICK i \in 1..n : s[i] = q
        BY <2>2 DEF LruOK
      <3>2. i \in 1..Len(v)
        BY <1>1, <1>3
      <3> QED BY <1>3, <3>1, <3>2
    <2> QED BY <2>1, <2>2 DEF E
  <1>7. ASSUME NEW j \in 1..(n + 1), NEW k \in 1..(n + 1), v[j] = v[k] PROVE j = k
    <2>1. CASE j \in 1..n /\ k \in 1..n
      BY <1>3, <1>7, <2>1 DEF LruOK
    <2>2. CASE j = n + 1 /\ k = n + 1
      BY <2>2
    <2>3. CASE (j \in 1..n /\ k = n + 1) \/ (k \in 1..n /\ j = n + 1)
      BY <1>3, <1>4, <1>7, <2>3
    <2> QED BY <1>5, <2>1, <2>2, <2>3
  <1> QED BY <1>3, <1>6, <1>7 DEF LruOK, v, E

(* The memory that a set of rows takes and gives back. *)
LEMMA RowCounts ==
    ASSUME NEW O, IsFiniteSet(O), NEW R, IsFiniteSet(R)
    PROVE  /\ Cardinality(O) \in Nat /\ Cardinality(R) \in Nat
           /\ R \subseteq O => /\ IsFiniteSet(O \ R)
                               /\ Cardinality(O \ R) = Cardinality(O) - Cardinality(R)
                               /\ Cardinality(R) <= Cardinality(O)
           /\ R \cap O = {} => /\ IsFiniteSet(O \cup R)
                               /\ Cardinality(O \cup R) = Cardinality(O) + Cardinality(R)
  <1>1. Cardinality(O) \in Nat /\ Cardinality(R) \in Nat
    BY FS_CardinalityType
  <1>2. ASSUME R \subseteq O
        PROVE  /\ IsFiniteSet(O \ R) /\ Cardinality(R) <= Cardinality(O)
               /\ Cardinality(O \ R) = Cardinality(O) - Cardinality(R)
    <2>1. O \cap R = R
      BY <1>2
    <2> QED BY <1>2, <2>1, FS_Difference, FS_Subset, ZenonT(60)
  <1>3. ASSUME R \cap O = {}
        PROVE  IsFiniteSet(O \cup R) /\ Cardinality(O \cup R) = Cardinality(O) + Cardinality(R)
    <2>1. O \cap R = {} /\ Cardinality({}) = 0
      BY <1>3, FS_EmptySet
    <2>2. IsFiniteSet(O \cup R) /\ Cardinality(O \cup R) = Cardinality(O) + Cardinality(R) - Cardinality(O \cap R)
      BY FS_Union
    <2>3. Cardinality(O \cup R) = Cardinality(O) + Cardinality(R) - 0
      BY <2>1, <2>2
    <2> QED BY <1>1, <2>2, <2>3
  <1> QED BY <1>1, <1>2, <1>3

LEMMA OpenMember ==
    ASSUME NEW w, NEW r
    PROVE  r \in OpenRows(w) <=> \E p \in DOMAIN w : r \in w[p].rows
  BY DEF OpenRows

LEMMA WriterFields ==
    ASSUME NEW w, WritersOK(w), NEW p \in DOMAIN w
    PROVE  /\ w[p] \in WriterSet /\ w[p].rows \in SUBSET AllRows /\ w[p].old \in BOOLEAN
           /\ IsFiniteSet(w[p].rows) /\ w[p].rows \subseteq OpenRows(w)
           /\ \A r \in w[p].rows : PartOf(r) = p
  BY OpenMember DEF WritersOK, WriterSet, OfPart

(* A writer is closed or given up. *)
LEMMA DropFacts ==
    ASSUME NEW w, WritersOK(w), NEW p
    PROVE  /\ WritersOK(Drop(w, p)) /\ DOMAIN Drop(w, p) = DOMAIN w \ {p}
           /\ p \in DOMAIN w => OpenRows(Drop(w, p)) = OpenRows(w) \ w[p].rows
           /\ p \notin DOMAIN w => OpenRows(Drop(w, p)) = OpenRows(w)
  <1> DEFINE v == Drop(w, p)
  <1>1. DOMAIN v = DOMAIN w \ {p} /\ \A q \in DOMAIN w \ {p} : v[q] = w[q]
    BY DEF Drop
  <1>2. v = [q \in DOMAIN v |-> v[q]]
    BY DEF Drop
  <1> HIDE DEF v
  <1>3. WritersOK(v)
    <2>1. \A q \in DOMAIN v : v[q] \in WriterSet
      BY <1>1, WriterFields
    <2>2. v \in [DOMAIN v -> WriterSet]
      BY <1>2, <2>1
    <2> QED BY <1>1, <2>2 DEF WritersOK
  <1>4. ASSUME p \in DOMAIN w PROVE OpenRows(v) = OpenRows(w) \ w[p].rows
    <2>1. ASSUME NEW r \in OpenRows(v) PROVE r \in OpenRows(w) /\ r \notin w[p].rows
      <3>1. PICK q \in DOMAIN w \ {p} : r \in w[q].rows
        BY <1>1, OpenMember
      <3>2. PartOf(r) = q
        BY <3>1, WriterFields
      <3> QED BY <1>4, <3>1, <3>2, WriterFields, OpenMember
    <2>2. ASSUME NEW r \in OpenRows(w), r \notin w[p].rows PROVE r \in OpenRows(v)
      <3>1. PICK q \in DOMAIN w : r \in w[q].rows
        BY OpenMember
      <3>2. q # p
        BY <2>2, <3>1
      <3> QED BY <1>1, <3>1, <3>2, OpenMember
    <2> QED BY <2>1, <2>2
  <1>5. ASSUME p \notin DOMAIN w PROVE OpenRows(v) = OpenRows(w)
    <2>1. DOMAIN v = DOMAIN w /\ \A q \in DOMAIN w : v[q] = w[q]
      BY <1>1, <1>5
    <2> QED BY <2>1 DEF OpenRows
  <1> QED BY <1>1, <1>3, <1>4, <1>5 DEF v

(* Rows are written to the writer of their partition. *)
LEMMA WriteFacts ==
    ASSUME NEW w, WritersOK(w), NEW p, NEW R, OfPart(R, p), NEW old \in BOOLEAN,
           NEW X, p \in DOMAIN w => X = R \cup w[p].rows, p \notin DOMAIN w => X = R,
           MaxRecords > 0 => Cardinality(X) <= MaxRecords,
           NEW v, DOMAIN v = DOMAIN w \cup {p}, v = [q \in DOMAIN v |-> v[q]],
           v[p] = [rows |-> X, old |-> old], \A q \in DOMAIN w : q # p => v[q] = w[q]
    PROVE  WritersOK(v) /\ DOMAIN v = DOMAIN w \cup {p} /\ OpenRows(v) = OpenRows(w) \cup R
  <1>2. OfPart(X, p)
    <2>1. CASE p \in DOMAIN w
      <3>1. X = R \cup w[p].rows /\ IsFiniteSet(R) /\ IsFiniteSet(w[p].rows)
        BY <2>1, WriterFields DEF OfPart
      <3>2. IsFiniteSet(X)
        BY <3>1, FS_Union
      <3> QED BY <2>1, <3>1, <3>2, WriterFields DEF OfPart
    <2>2. CASE p \notin DOMAIN w
      <3>1. X = R
        BY <2>2
      <3> QED BY <3>1
    <2> QED BY <2>1, <2>2
  <1>4. /\ DOMAIN v = DOMAIN w \cup {p}
        /\ v[p] = [rows |-> X, old |-> old]
        /\ \A q \in DOMAIN w : q # p => v[q] = w[q]
        /\ v = [q \in DOMAIN v |-> v[q]]
    OBVIOUS
  <1>5. v[p] \in WriterSet /\ v[p].rows = X
    BY <1>2, <1>4 DEF WriterSet, OfPart
  <1>6. \A q \in DOMAIN v : v[q] \in WriterSet
    BY <1>4, <1>5, WriterFields
  <1>7. WritersOK(v)
    <2>1. v \in [DOMAIN v -> WriterSet]
      BY <1>4, <1>6
    <2>2. ASSUME NEW q \in DOMAIN v
          PROVE  OfPart(v[q].rows, q) /\ (MaxRecords > 0 => Cardinality(v[q].rows) <= MaxRecords)
      <3>1. CASE q = p
        BY <1>2, <1>5, <3>1
      <3>2. CASE q \in DOMAIN w /\ q # p
        BY <1>4, <3>2 DEF WritersOK
      <3> QED BY <1>4, <3>1, <3>2
    <2> QED BY <2>1, <2>2 DEF WritersOK
  <1>8. OpenRows(v) = OpenRows(w) \cup R
    <2>1. ASSUME NEW r \in OpenRows(v) PROVE r \in OpenRows(w) \cup R
      <3>1. PICK q \in DOMAIN v : r \in v[q].rows
        BY OpenMember
      <3>2. CASE q = p
        BY <1>5, <3>1, <3>2, OpenMember
      <3>3. CASE q # p
        BY <1>4, <3>1, <3>3, OpenMember
      <3> QED BY <3>2, <3>3
    <2>2. ASSUME NEW r \in OpenRows(w) PROVE r \in OpenRows(v)
      <3>1. PICK q \in DOMAIN w : r \in w[q].rows
        BY OpenMember
      <3>2. q \in DOMAIN v /\ r \in v[q].rows
        BY <1>4, <1>5, <3>1
      <3> QED BY <3>2, OpenMember
    <2>3. ASSUME NEW r \in R PROVE r \in OpenRows(v)
      <3>1. p \in DOMAIN v /\ r \in v[p].rows
        BY <1>4, <1>5
      <3> QED BY <3>1, OpenMember
    <2> QED BY <2>1, <2>2, <2>3
  <1> QED BY <1>4, <1>7, <1>8


-----------------------------------------------------------------------------
(* What is stored *)

(* The rows that are stored, one by one. *)
LEMMA StoredMember ==
    ASSUME NEW st, NEW r
    PROVE  r \in StoredRows(st) <=> r \in AllRows /\ \E i \in 1..Len(st) : st[i] = RowEntry(r)
  BY DEF StoredRows

(* A file becomes visible: each of its rows once. *)
LEMMA StoreFacts ==
    ASSUME NEW st, StoredOK(st), NEW R \in SUBSET AllRows, IsFiniteSet(R), R \cap StoredRows(st) = {},
           NEW v, v = st \o SetToSeq({[first |-> r[1], last |-> r[1], part |-> r[2]] : r \in R})
    PROVE  StoredOK(v) /\ StoredRows(v) = StoredRows(st) \cup R
  <1> DEFINE E == {[first |-> r[1], last |-> r[1], part |-> r[2]] : r \in R}
             f == [r \in R |-> RowEntry(r)]
  <1>1. f \in Surjection(R, E)
    BY DEF Surjection, RowEntry
  <1>2. IsFiniteSet(E)
    BY <1>1, FS_Surjection
  <1>3. \A x : x \in E <=> \E r \in R : x = RowEntry(r)
    BY DEF RowEntry
  <1>4. E \subseteq Entries
    BY <1>3, EntryFacts
  <1>5. v = st \o SetToSeq(E)
    OBVIOUS
  <1> HIDE DEF E, f
  <1>6. PICK q : q = SetToSeq(E)
    OBVIOUS
  <1>7. /\ q \in Seq(E)
        /\ \A x \in E : \E i \in 1..Len(q) : q[i] = x
        /\ \A i, j \in 1..Len(q) : q[i] = q[j] => i = j
    BY <1>2, <1>6, SetToSeqFacts
  <1>8. st \in Seq(Entries) /\ q \in Seq(Entries)
    BY <1>4, <1>7, SeqMonotonic DEF StoredOK
  <1>9. PICK n \in Nat : n = Len(st)
    BY <1>8
  <1>10. PICK m \in Nat : m = Len(q)
    BY <1>8
  <1>11. v \in Seq(Entries) /\ Len(v) = n + m /\ \A i \in 1..(n + m) : v[i] = IF i <= n THEN st[i] ELSE q[i - n]
    <2>1. v = st \o q
      BY <1>5, <1>6
    <2> QED BY ONLY <1>8, <1>9, <1>10, <2>1, ConcatProperties
  <1>12. \A i \in 1..(n + m) : (i \in 1..n /\ v[i] = st[i]) \/ (i - n \in 1..m /\ v[i] = q[i - n] /\ ~(i <= n))
    BY <1>11, SMTT(30)
  <1>13. \A i \in 1..n : i \in 1..(n + m) /\ v[i] = st[i]
    BY <1>11, SMTT(30)
  <1>14. \A i \in 1..m : i + n \in 1..(n + m) /\ v[i + n] = q[i]
    <2> SUFFICES ASSUME NEW i \in 1..m PROVE i + n \in 1..(n + m) /\ v[i + n] = q[i]
      OBVIOUS
    <2>1. i + n \in 1..(n + m) /\ ~(i + n <= n) /\ (i + n) - n = i
      OBVIOUS
    <2> QED BY <1>11, <2>1
  <1>15. \A i \in 1..m : \E r \in R : q[i] = RowEntry(r)
    BY <1>3, <1>7, <1>10, ElementOfSeq
  <1>16. \A i \in 1..n, j \in 1..m : st[i] # q[j]
    <2> SUFFICES ASSUME NEW i \in 1..n, NEW j \in 1..m, st[i] = q[j] PROVE FALSE
      OBVIOUS
    <2>1. PICK r \in R : q[j] = RowEntry(r)
      BY <1>15
    <2>2. r \in StoredRows(st)
      BY <1>9, <2>1, StoredMember
    <2> QED BY <2>2
  <1>17. StoredOK(v)
    <2> SUFFICES ASSUME NEW i \in 1..(n + m), NEW j \in 1..(n + m), v[i] = v[j] PROVE i = j
      BY <1>11 DEF StoredOK
    <2>1. CASE i \in 1..n /\ j \in 1..n
      BY <1>9, <1>13, <2>1 DEF StoredOK
    <2>2. CASE i \in 1..n /\ ~(j \in 1..n)
      <3>1. v[i] = st[i] /\ j - n \in 1..m /\ v[j] = q[j - n]
        BY <1>12, <1>13, <2>2
      <3> QED BY <1>16, <2>2, <3>1
    <2>3. CASE ~(i \in 1..n) /\ j \in 1..n
      <3>1. v[j] = st[j] /\ i - n \in 1..m /\ v[i] = q[i - n]
        BY <1>12, <1>13, <2>3
      <3> QED BY <1>16, <2>3, <3>1
    <2>4. CASE ~(i \in 1..n) /\ ~(j \in 1..n)
      <3>1. i - n \in 1..m /\ j - n \in 1..m /\ q[i - n] = q[j - n]
        BY <1>12, <2>4
      <3>2. i - n = j - n
        BY <1>7, <1>10, <3>1
      <3>3. i \in Int /\ j \in Int
        OBVIOUS
      <3> QED BY <3>2, <3>3
    <2> QED BY <2>1, <2>2, <2>3, <2>4
  <1>18. StoredRows(v) = StoredRows(st) \cup R
    <2>1. ASSUME NEW r \in StoredRows(v) PROVE r \in StoredRows(st) \cup R
      <3>1. r \in AllRows /\ \E i \in 1..(n + m) : v[i] = RowEntry(r)
        BY <1>11, StoredMember
      <3>2. PICK i \in 1..(n + m) : v[i] = RowEntry(r)
        BY <3>1
      <3>3. CASE i \in 1..n
        BY <1>9, <1>13, <3>1, <3>2, <3>3, StoredMember
      <3>4. CASE ~(i \in 1..n)
        <4>1. i - n \in 1..m /\ q[i - n] = RowEntry(r)
          BY <1>12, <3>2, <3>4
        <4>2. PICK x \in R : RowEntry(x) = RowEntry(r)
          BY <1>15, <4>1
        <4> QED BY <3>1, <4>2, EntryFacts
      <3> QED BY <3>3, <3>4
    <2>2. ASSUME NEW r \in StoredRows(st) PROVE r \in StoredRows(v)
      <3>1. r \in AllRows /\ \E i \in 1..n : st[i] = RowEntry(r)
        BY <1>9, StoredMember
      <3> QED BY <1>11, <1>13, <3>1, StoredMember
    <2>3. ASSUME NEW r \in R PROVE r \in StoredRows(v)
      <3>1. PICK i \in 1..m : q[i] = RowEntry(r)
        BY <1>3, <1>7, <1>10
      <3> QED BY <1>11, <1>14, <3>1, StoredMember
    <2> QED BY <2>1, <2>2, <2>3
  <1> QED BY <1>17, <1>18

-----------------------------------------------------------------------------
(* The batch that is being routed *)

LEMMA RoutedMember ==
    ASSUME NEW rt, NEW r
    PROVE  r \in RoutedRows(rt) <=> \E n \in 1..Len(rt) : r \in rt[n].rows
  BY DEF RoutedRows

LEMMA RouteFields ==
    ASSUME NEW rt, RouteOK(rt), NEW n \in 1..Len(rt)
    PROVE  /\ rt[n] \in SubBatchSet /\ rt[n].part \in Nat /\ rt[n].rows \in SUBSET AllRows
           /\ rt[n].admitted \in BOOLEAN
           /\ IsFiniteSet(rt[n].rows) /\ rt[n].rows \subseteq RoutedRows(rt)
           /\ \A r \in rt[n].rows : PartOf(r) = rt[n].part
           /\ \A q, r \in rt[n].rows : q[1] = r[1]
  <1>1. rt \in Seq(SubBatchSet) /\ OfPart(rt[n].rows, rt[n].part) /\ \A q, r \in rt[n].rows : q[1] = r[1]
    BY DEF RouteOK
  <1>2. rt[n] \in SubBatchSet
    BY <1>1, ElementOfSeq
  <1>3. rt[n].part \in Nat /\ rt[n].admitted \in BOOLEAN
    BY <1>2 DEF SubBatchSet
  <1>4. rt[n].rows \subseteq RoutedRows(rt)
    BY RoutedMember
  <1> QED BY <1>1, <1>2, <1>3, <1>4 DEF OfPart

LEMMA EmptyRoute == RouteOK(<< >>) /\ RoutedRows(<< >>) = {} /\ \A m : AdmittedFits(<< >>, m)
  <1>1. Len(<< >>) = 0 /\ << >> \in Seq(SubBatchSet)
    OBVIOUS
  <1>2. 1..0 = {} /\ 2..0 = {}
    OBVIOUS
  <1>3. RoutedRows(<< >>) = {}
    BY <1>1, <1>2, RoutedMember
  <1>4. \A n \in 1..Len(<< >>) : FALSE
    BY <1>1, <1>2
  <1>5. \A n \in 2..Len(<< >>) : FALSE
    BY <1>1, <1>2
  <1>6. RouteOK(<< >>)
    BY <1>1, <1>4, <1>5 DEF RouteOK
  <1> QED BY <1>3, <1>6 DEF AdmittedFits

(* route_batch: each row of a batch is in one part. *)
LEMMA SubBatchesFacts ==
    ASSUME NEW s \in 1..MaxSeq
    PROVE  /\ RouteOK(SubBatches(s)) /\ \A m : AdmittedFits(SubBatches(s), m)
           /\ RoutedRows(SubBatches(s)) = {r \in AllRows : r[1] = s}
  <1>1. PICK b \in Seq(Nat) : b = RowsOfBatch(s)
    BY BatchFacts
  <1>2. PICK n \in Nat : n = Len(b)
    OBVIOUS
  <1>3. PICK S : S = {k \in 1..n : \A j \in 1..(k - 1) : b[j] # b[k]}
    OBVIOUS
  <1>4. PICK keys : keys = AtPlaces(b, S)
    OBVIOUS
  <1> DEFINE c == Cardinality(S)
  <1>6. S \in SUBSET (1..Len(b))
    BY <1>2, <1>3
  <1>7. keys \in Seq(Nat) /\ Len(keys) = c /\ c \in Nat /\ Keeps(keys, b, S)
    BY <1>4, <1>6, PlacesKept
  <1>8. PICK a \in [1..c -> S] :
              /\ \A k \in 1..c : keys[k] = b[a[k]]
              /\ \A j, k \in 1..c : j < k => a[j] < a[k]
              /\ \A x \in S : \E k \in 1..c : a[k] = x
    BY <1>7 DEF Keeps
  <1> HIDE DEF c
  <1>9. PICK rt : rt = SubBatches(s)
    OBVIOUS
  <1>10. rt = [k \in 1..c |-> [part |-> keys[k], rows |-> RowsIn(s, keys[k]), admitted |-> FALSE]]
    <2>1. keys = DistinctKeys(RowsOfBatch(s)) /\ Len(keys) = c
      BY <1>1, <1>2, <1>3, <1>4, <1>7 DEF DistinctKeys
    <2> QED BY <1>9, <2>1 DEF SubBatches
  <1>11. \A k \in 1..c : keys[k] \in Nat
    BY <1>7, ElementOfSeq
  <1>12. \A k \in 1..c : RowsIn(s, keys[k]) \in SUBSET AllRows
    BY RowsInFacts DEF OfPart
  <1>13. \A k \in 1..c : [part |-> keys[k], rows |-> RowsIn(s, keys[k]), admitted |-> FALSE] \in SubBatchSet
    BY <1>11, <1>12 DEF SubBatchSet
  <1>14. rt \in Seq(SubBatchSet) /\ Len(rt) = c
    <2>1. PICK d \in Nat : d = c
      BY <1>7
    <2>2. rt \in [1..d -> SubBatchSet]
      BY <1>10, <1>13, <2>1
    <2> QED BY <2>1, <2>2
  <1>15. \A k \in 1..c : rt[k].part = keys[k] /\ rt[k].rows = RowsIn(s, keys[k]) /\ rt[k].admitted = FALSE
    BY <1>10
  <1>16. \A k \in 1..c : a[k] \in 1..n /\ \A j \in 1..(a[k] - 1) : b[j] # b[a[k]]
    BY <1>3, <1>8
  <1>17. ASSUME NEW j \in 1..c, NEW k \in 1..c, keys[j] = keys[k] PROVE j = k
    <2>1. PICK x \in 1..n : x = a[j]
      BY <1>16
    <2>2. PICK y \in 1..n : y = a[k]
      BY <1>16
    <2>3. b[x] = b[y] /\ (\A i \in 1..(x - 1) : b[i] # b[x]) /\ \A i \in 1..(y - 1) : b[i] # b[y]
      BY <1>8, <1>16, <1>17, <2>1, <2>2
    <2>4. ~(x < y) /\ ~(y < x)
      <3>1. x < y => x \in 1..(y - 1)
        OBVIOUS
      <3>2. y < x => y \in 1..(x - 1)
        OBVIOUS
      <3> QED BY <2>3, <3>1, <3>2
    <2>5. ~(j < k) /\ ~(k < j)
      BY <1>8, <2>1, <2>2, <2>4
    <2>6. j \in Int /\ k \in Int
      BY <1>7
    <2> QED BY <2>5, <2>6
  <1>18. RouteOK(rt)
    <2>1. \A k \in 1..Len(rt) : OfPart(rt[k].rows, rt[k].part) /\ \A q, r \in rt[k].rows : q[1] = r[1]
      BY <1>14, <1>15, RowsInFacts
    <2>2. \A j, k \in 1..Len(rt) : rt[j].part = rt[k].part => j = k
      BY <1>14, <1>15, <1>17
    <2>3. \A k \in 2..Len(rt) : k \in 1..c
      BY <1>7, <1>14
    <2> QED BY <1>14, <1>15, <2>1, <2>2, <2>3 DEF RouteOK
  <1>19. \A m : AdmittedFits(rt, m)
    <2>1. rt # << >> => 1 \in 1..c
      BY <1>7, <1>14, EmptySeq
    <2> QED BY <1>15, <2>1 DEF AdmittedFits
  <1>20. ASSUME NEW r \in RoutedRows(rt) PROVE r \in AllRows /\ r[1] = s
    <2>1. PICK k \in 1..c : r \in RowsIn(s, keys[k])
      BY <1>14, <1>15, RoutedMember
    <2> QED BY <1>12, <2>1, RowsInFacts
  <1>21. ASSUME NEW r \in AllRows, r[1] = s PROVE r \in RoutedRows(rt)
    <2>1. PICK i \in 1..n : i = r[2]
      BY <1>1, <1>2, <1>21, RowFacts
    <2>2. r = <<s, i>>
      BY <1>21, <2>1, RowFacts
    <2>3. b = PartitionOf[s]
      <3>1. CASE s \in Empty
        <4>1. n = 0
          BY <1>1, <1>2, <3>1, BatchFacts
        <4> QED BY <4>1
      <3>2. CASE s \notin Empty
        BY <1>1, <3>2, BatchFacts
      <3> QED BY <3>1, <3>2
    <2> DEFINE T == {j \in 1..n : b[j] = b[i]}
    <2>4. T \in SUBSET Nat /\ T # {}
      <3>1. i \in T
        OBVIOUS
      <3> QED BY <3>1
    <2>5. PICK x : x = Min(T)
      OBVIOUS
    <2>6. x \in T /\ \A y \in T : x <= y
      BY <2>4, <2>5, LeastOf
    <2>7. x \in S
      <3>1. x \in 1..n /\ b[x] = b[i]
        BY <2>6
      <3>2. ASSUME NEW j \in 1..(x - 1), b[j] = b[x] PROVE FALSE
        <4>1. j \in 1..n /\ ~(x <= j)
          BY <3>1
        <4> QED BY <2>6, <3>1, <3>2, <4>1
      <3> QED BY <1>3, <3>1, <3>2
    <2>8. PICK k \in 1..c : a[k] = x
      BY <1>8, <2>7
    <2>9. keys[k] = b[i]
      BY <1>8, <2>6, <2>8
    <2>10. r \in RowsIn(s, keys[k])
      BY <1>1, <1>2, <2>2, <2>3, <2>9 DEF RowsIn
    <2> QED BY <1>14, <1>15, <2>10, RoutedMember
  <1> QED BY <1>9, <1>18, <1>19, <1>20, <1>21


(* A part is written, *)
LEMMA TailRoute ==
    ASSUME NEW rt, RouteOK(rt), rt # << >>
    PROVE  /\ 1 \in 1..Len(rt) /\ Head(rt) = rt[1]
           /\ RouteOK(Tail(rt)) /\ \A m : AdmittedFits(Tail(rt), m)
           /\ RoutedRows(rt) = RoutedRows(Tail(rt)) \cup rt[1].rows
           /\ RoutedRows(Tail(rt)) \cap rt[1].rows = {}
  <1> DEFINE v == Tail(rt)
             n == Len(rt)
  <1>1. rt \in Seq(SubBatchSet)
    BY DEF RouteOK
  <1>2. n \in Nat \ {0} /\ v \in Seq(SubBatchSet) /\ Len(v) = n - 1 /\ Head(rt) = rt[1]
        /\ \A i \in 1..(n - 1) : v[i] = rt[i + 1]
    BY <1>1, EmptySeq, HeadTailProperties
  <1> HIDE DEF v
  <1>3. \A i \in 1..(n - 1) : i + 1 \in 1..n /\ i + 1 \in 2..n /\ i + 1 # 1
    BY <1>2
  <1>4. \A i \in 1..n : i = 1 \/ (i - 1 \in 1..(n - 1) /\ (i - 1) + 1 = i)
    BY <1>2
  <1>5. 1 \in 1..n
    BY <1>2
  <1>6. RouteOK(v)
    <2>1. \A i \in 1..Len(v) : OfPart(v[i].rows, v[i].part) /\ \A q, r \in v[i].rows : q[1] = r[1]
      BY <1>2, <1>3 DEF RouteOK
    <2>2. ASSUME NEW i \in 1..(n - 1), NEW j \in 1..(n - 1), v[i].part = v[j].part PROVE i = j
      <3>1. i + 1 = j + 1
        BY <1>2, <1>3, <2>2 DEF RouteOK
      <3>2. i \in Int /\ j \in Int
        BY <1>2
      <3> QED BY <3>1, <3>2
    <2>3. \A i \in 1..(n - 1) : ~v[i].admitted
      BY <1>2, <1>3 DEF RouteOK
    <2>4. \A i \in 2..(n - 1) : i \in 1..(n - 1)
      BY <1>2
    <2> QED BY <1>2, <2>1, <2>2, <2>3, <2>4 DEF RouteOK
  <1>7. \A m : AdmittedFits(v, m)
    <2>1. ASSUME v # << >> PROVE ~v[1].admitted
      <3>1. 1 \in 1..(n - 1)
        BY <1>2, <2>1, EmptySeq
      <3>2. v[1] = rt[1 + 1] /\ 1 + 1 \in 2..n
        BY <1>2, <1>3, <3>1
      <3> QED BY <3>2 DEF RouteOK
    <2> QED BY <2>1 DEF AdmittedFits
  <1>8. RoutedRows(rt) = RoutedRows(v) \cup rt[1].rows
    <2>1. ASSUME NEW r \in RoutedRows(rt) PROVE r \in RoutedRows(v) \cup rt[1].rows
      <3>1. PICK i \in 1..n : r \in rt[i].rows
        BY RoutedMember
      <3>2. CASE i # 1
        <4>1. i - 1 \in 1..(n - 1) /\ v[i - 1] = rt[i]
          BY <1>2, <1>4, <3>2
        <4> QED BY <1>2, <3>1, <4>1, RoutedMember
      <3> QED BY <3>1, <3>2
    <2>2. ASSUME NEW r \in RoutedRows(v) PROVE r \in RoutedRows(rt)
      <3>1. PICK i \in 1..(n - 1) : r \in v[i].rows
        BY <1>2, RoutedMember
      <3> QED BY <1>2, <1>3, <3>1, RoutedMember
    <2> QED BY <1>5, <2>1, <2>2, RoutedMember
  <1>9. ASSUME NEW r \in RoutedRows(v), r \in rt[1].rows PROVE FALSE
    <2>1. PICK i \in 1..(n - 1) : r \in v[i].rows
      BY <1>2, RoutedMember
    <2>2. r \in rt[i + 1].rows /\ i + 1 \in 1..n /\ i + 1 # 1
      BY <1>2, <1>3, <2>1
    <2>3. PartOf(r) = rt[1].part /\ PartOf(r) = rt[i + 1].part
      BY <1>5, <1>9, <2>2, RouteFields
    <2> QED BY <1>5, <2>2, <2>3 DEF RouteOK
  <1> QED BY <1>2, <1>5, <1>6, <1>7, <1>8, <1>9 DEF v

(* or a slice of it. *)
LEMMA ShortenRoute ==
    ASSUME NEW rt, RouteOK(rt), rt # << >>, NEW rest \in SUBSET rt[1].rows,
           NEW v, v = <<[part |-> rt[1].part, rows |-> rest, admitted |-> TRUE]>> \o Tail(rt)
    PROVE  /\ RouteOK(v) /\ v # << >> /\ v[1].rows = rest
           /\ RoutedRows(v) = RoutedRows(Tail(rt)) \cup rest
  <1>1. PICK t : t = Tail(rt)
    OBVIOUS
  <1>2. /\ 1 \in 1..Len(rt) /\ Head(rt) = rt[1] /\ RouteOK(t)
        /\ RoutedRows(rt) = RoutedRows(t) \cup rt[1].rows
    BY <1>1, TailRoute
  <1>3. PICK h : h = rt[1]
    OBVIOUS
  <1>4. /\ h.part \in Nat /\ h.rows \in SUBSET AllRows /\ IsFiniteSet(h.rows)
        /\ (\A r \in h.rows : PartOf(r) = h.part) /\ \A q, r \in h.rows : q[1] = r[1]
    BY <1>2, <1>3, RouteFields
  <1>5. PICK x : x = [part |-> h.part, rows |-> rest, admitted |-> TRUE]
    OBVIOUS
  <1>7. x.part = h.part /\ x.rows = rest /\ x \in SubBatchSet
    BY <1>3, <1>4, <1>5 DEF SubBatchSet
  <1>8. OfPart(x.rows, x.part) /\ \A q, r \in x.rows : q[1] = r[1]
    <2>1. IsFiniteSet(rest)
      BY <1>3, <1>4, FS_Subset
    <2> QED BY <1>3, <1>4, <1>7, <2>1 DEF OfPart
  <1>9. rt \in Seq(SubBatchSet) /\ t \in Seq(SubBatchSet) /\ v = <<x>> \o t
    BY <1>1, <1>2, <1>3, <1>5 DEF RouteOK
  <1>10. PICK n \in Nat : n = Len(t)
    BY <1>9
  <1>11. Len(rt) = n + 1 /\ \A i \in 1..n : t[i] = rt[i + 1]
    BY <1>1, <1>9, <1>10, HeadTailProperties
  <1>12. v \in Seq(SubBatchSet) /\ Len(v) = n + 1 /\ v[1] = x /\ \A i \in 1..n : v[i + 1] = t[i]
    <2>1. <<x>> \in Seq(SubBatchSet) /\ Len(<<x>>) = 1 /\ <<x>>[1] = x
      BY <1>7
    <2>2. PICK y : y = <<x>>
      OBVIOUS
    <2>3. v = y \o t /\ y \in Seq(SubBatchSet) /\ Len(y) = 1 /\ y[1] = x
      BY <1>9, <2>1, <2>2
    <2>4. v \in Seq(SubBatchSet) /\ Len(v) = 1 + n
          /\ \A i \in 1..(1 + n) : v[i] = IF i <= 1 THEN y[i] ELSE t[i - 1]
      BY ONLY <1>9, <1>10, <2>3, ConcatProperties
    <2>5. 1 \in 1..(1 + n) /\ 1 <= 1 /\ \A i \in 1..n : i + 1 \in 1..(1 + n) /\ ~(i + 1 <= 1) /\ (i + 1) - 1 = i
      OBVIOUS
    <2> QED BY <2>3, <2>4, <2>5
  <1>13. \A i \in 2..(n + 1) : i \in 1..(n + 1) /\ i - 1 \in 1..n /\ v[i] = t[i - 1] /\ v[i] = rt[i]
    <2> SUFFICES ASSUME NEW i \in 2..(n + 1)
                 PROVE  i \in 1..(n + 1) /\ i - 1 \in 1..n /\ v[i] = t[i - 1] /\ v[i] = rt[i]
      OBVIOUS
    <2>1. i - 1 \in 1..n /\ (i - 1) + 1 = i /\ i \in 1..(n + 1)
      OBVIOUS
    <2> QED BY <1>11, <1>12, <2>1
  <1>14. \A i \in 1..(n + 1) : i = 1 \/ i \in 2..(n + 1)
    OBVIOUS
  <1>15. \A i \in 1..(n + 1) : v[i].part = rt[i].part
    BY <1>3, <1>7, <1>12, <1>13, <1>14
  <1>16. RouteOK(v)
    <2>1. ASSUME NEW i \in 1..(n + 1)
          PROVE  OfPart(v[i].rows, v[i].part) /\ \A q, r \in v[i].rows : q[1] = r[1]
      <3>1. CASE i = 1
        BY <1>8, <1>12, <3>1
      <3>2. CASE i \in 2..(n + 1)
        BY <1>11, <1>13, <3>2 DEF RouteOK
      <3> QED BY <1>14, <3>1, <3>2
    <2>2. \A i, j \in 1..(n + 1) : v[i].part = v[j].part => i = j
      BY <1>11, <1>15 DEF RouteOK
    <2>3. \A i \in 2..(n + 1) : ~v[i].admitted
      BY <1>11, <1>13 DEF RouteOK
    <2> QED BY <1>12, <2>1, <2>2, <2>3 DEF RouteOK
  <1>17. RoutedRows(v) = RoutedRows(t) \cup rest
    <2>1. ASSUME NEW r \in RoutedRows(v) PROVE r \in RoutedRows(t) \cup rest
      <3>1. PICK i \in 1..(n + 1) : r \in v[i].rows
        BY <1>12, RoutedMember
      <3>2. CASE i = 1
        BY <1>7, <1>12, <3>1, <3>2
      <3>3. CASE i \in 2..(n + 1)
        BY <1>10, <1>13, <3>1, <3>3, RoutedMember
      <3> QED BY <1>14, <3>2, <3>3
    <2>2. ASSUME NEW r \in RoutedRows(t) PROVE r \in RoutedRows(v)
      <3>1. PICK i \in 1..n : r \in t[i].rows
        BY <1>10, RoutedMember
      <3>2. i + 1 \in 1..(n + 1)
        OBVIOUS
      <3> QED BY <1>12, <3>1, <3>2, RoutedMember
    <2>3. ASSUME NEW r \in rest PROVE r \in RoutedRows(v)
      <3>1. 1 \in 1..(n + 1)
        OBVIOUS
      <3> QED BY <1>7, <1>12, <3>1, RoutedMember
    <2> QED BY <2>1, <2>2, <2>3
  <1>18. v # << >>
    BY <1>12
  <1> QED BY <1>1, <1>7, <1>12, <1>16, <1>17, <1>18

(* The first rows of a part, as many as there is room for. *)
LEMMA SliceFacts ==
    ASSUME NEW X \in SUBSET AllRows, IsFiniteSet(X), \A q, r \in X : q[1] = r[1], NEW room \in Nat,
           NEW T, T = {r \in X : Cardinality({q \in X : q[2] < r[2]}) < room}
    PROVE  T \subseteq X /\ IsFiniteSet(T) /\ Cardinality(T) <= room
  <1> DEFINE below(r) == {q \in X : q[2] < r[2]}
             rank == [r \in T |-> Cardinality(below(r)) + 1]
  <1>1. IsFiniteSet(T) /\ T \subseteq X
    BY FS_Subset
  <1>2. \A r \in X : r[2] \in Nat /\ r = <<r[1], r[2]>>
    BY RowFacts
  <1>3. \A r \in X : IsFiniteSet(below(r)) /\ Cardinality(below(r)) \in Nat
    BY FS_Subset, FS_CardinalityType
  <1>4. ASSUME NEW q \in T, NEW r \in T, q[2] < r[2] PROVE rank[q] < rank[r]
    <2>1. q[2] \in Nat /\ r[2] \in Nat
      BY <1>1, <1>2
    <2>2. below(q) \in SUBSET below(r) /\ q \in below(r) /\ q \notin below(q)
      BY <1>1, <1>2, <1>4, <2>1
    <2>3. IsFiniteSet(below(r)) /\ Cardinality(below(q)) \in Nat /\ Cardinality(below(r)) \in Nat
      BY <1>1, <1>3
    <2>4. Cardinality(below(q)) <= Cardinality(below(r)) /\ Cardinality(below(q)) # Cardinality(below(r))
      BY <2>2, <2>3, FS_Subset
    <2> QED BY <2>3, <2>4
  <1>5. ASSUME NEW r \in T PROVE rank[r] \in 1..room
    <2>1. Cardinality(below(r)) \in Nat /\ Cardinality(below(r)) < room
      BY <1>1, <1>3
    <2> QED BY <2>1
  <1> HIDE DEF rank
  <1>6. ASSUME NEW q \in T, NEW r \in T, rank[q] = rank[r] PROVE q = r
    <2>1. q[2] \in Nat /\ r[2] \in Nat /\ q[1] = r[1] /\ q = <<q[1], q[2]>> /\ r = <<r[1], r[2]>>
      BY <1>1, <1>2
    <2>2. rank[q] \in Int
      BY <1>5
    <2>3. ~(q[2] < r[2]) /\ ~(r[2] < q[2])
      BY <1>4, <1>6, <2>2
    <2>4. q[2] = r[2]
      BY <2>1, <2>3
    <2> QED BY <2>1, <2>4
  <1>7. rank \in Injection(T, 1..room)
    <2>1. rank = [r \in T |-> rank[r]]
      BY DEF rank
    <2> QED BY <1>5, <1>6, <2>1 DEF Injection, IsInjective
  <1>8. IsFiniteSet(1..room) /\ Cardinality(1..room) = room
    BY FS_Interval
  <1> QED BY <1>1, <1>7, <1>8, FS_Injection


-----------------------------------------------------------------------------
(* The steps *)

(* The rows are given by the workload, which no step changes. *)
LEMMA RowsStay ==
    ASSUME workload' = workload
    PROVE  ParquetInv' <=>
             /\ InputOK(arrived', held', done')
             /\ StagesOK(stage', result', route', writers', uploads', done')
             /\ RouteOK(route') /\ PoolOK(writers', lru') /\ UploadsOK(uploads') /\ StoredOK(stored')
             /\ MemoryOK(writers', memory', route')
             /\ RowsOnce(route', writers', uploads', stored', done', result')
  <1>1. AllRows' = AllRows
    BY DEF AllRows, RowsOfBatch, Empty, OfKind
  <1>2. RouteOK(route)' <=> RouteOK(route')
    BY <1>1 DEF RouteOK, OfPart, SubBatchSet, PartOf
  <1>3. PoolOK(writers, lru)' <=> PoolOK(writers', lru')
    BY <1>1 DEF PoolOK, WritersOK, OfPart, WriterSet, PartOf, LruOK
  <1>4. UploadsOK(uploads)' <=> UploadsOK(uploads')
    BY <1>1 DEF UploadsOK, UploadSet
  <1>5. StoredOK(stored)' <=> StoredOK(stored')
    BY DEF StoredOK, Entries
  <1>6. RoutedRows(route)' = RoutedRows(route') /\ OpenRows(writers)' = OpenRows(writers')
        /\ SentRows(uploads)' = SentRows(uploads')
    BY DEF RoutedRows, OpenRows, SentRows
  <1>7. StoredRows(stored)' = StoredRows(stored') /\ Received(done)' = Received(done')
    BY <1>1 DEF StoredRows, Received, RowEntry
  <1>8. MemoryOK(writers, memory, route)' <=> MemoryOK(writers', memory', route')
    BY <1>6 DEF MemoryOK, AdmittedFits
  <1>9. RowsOnce(route, writers, uploads, stored, done, result)' <=>
            RowsOnce(route', writers', uploads', stored', done', result')
    BY <1>6, <1>7 DEF RowsOnce, Apart
  <1>10. InputOK(arrived, held, done)' <=> InputOK(arrived', held', done')
    BY DEF InputOK
  <1>11. StagesOK(stage, result, route, writers, uploads, done)' <=>
            StagesOK(stage', result', route', writers', uploads', done')
    BY DEF StagesOK
  <1> QED BY <1>2, <1>3, <1>4, <1>5, <1>8, <1>9, <1>10, <1>11 DEF ParquetInv

(* The routing fails: the rows of the batch that were not written are lost, and the *)
(* error is known.                                                                  *)
LEMMA FailureFacts ==
    ASSUME RouteFails
    PROVE  /\ stage' = "drain" /\ result' = "Err" /\ route' = << >>
           /\ RouteOK(route') /\ RoutedRows(route') = {} /\ \A m : AdmittedFits(route', m)
  BY EmptyRoute DEF RouteFails

(* A writer is closed, and its rows are in an upload. *)
LEMMA ParquetCloses ==
    ASSUME ParquetInv, NEW p \in DOMAIN writers, CloseWriter(p)
    PROVE  ParquetInv'
  <1> DEFINE R == writers[p].rows
             O == OpenRows(writers)
  <1>1. /\ writers' = Drop(writers, p) /\ lru' = Without(lru, p) /\ memory' = memory - Cardinality(R)
        /\ UNCHANGED <<workload, arrived, held, done, stored>>
    BY DEF CloseWriter, SameInput
  <1>2. /\ WritersOK(writers) /\ LruOK(lru, DOMAIN writers) /\ Len(lru) <= MaxOpen
        /\ UploadsOK(uploads) /\ IsFiniteSet(O) /\ memory = Cardinality(O)
        /\ RouteOK(route) /\ AdmittedFits(route, memory) /\ (MemoryLimit > 0 => memory <= MemoryLimit)
    BY DEF ParquetInv, PoolOK, MemoryOK
  <1>3. /\ R \in SUBSET AllRows /\ IsFiniteSet(R) /\ R \subseteq O
    BY <1>2, WriterFields
  <1>4. /\ WritersOK(writers') /\ DOMAIN writers' = DOMAIN writers \ {p} /\ OpenRows(writers') = O \ R
    BY <1>1, <1>2, DropFacts
  <1>5. LruOK(lru', DOMAIN writers')
    BY <1>1, <1>2, <1>4, WithoutFacts
  <1>6. Len(lru') <= MaxOpen
    <2>1. /\ IsFiniteSet(DOMAIN writers) /\ Cardinality(DOMAIN writers) = Len(lru) /\ Len(lru) \in Nat
          /\ Cardinality(DOMAIN writers') = Len(lru') /\ Len(lru') \in Nat
      BY <1>2, <1>5, LruLength
    <2>2. Cardinality(DOMAIN writers') <= Cardinality(DOMAIN writers)
      BY <1>4, <2>1, FS_Subset
    <2> QED BY <1>2, <2>1, <2>2, ParquetAssumption
  <1>7. /\ IsFiniteSet(O \ R) /\ memory' = Cardinality(O \ R) /\ memory \in Nat /\ memory' \in Nat
        /\ memory' <= memory
    <2> HIDE DEF R, O
    <2>1. /\ IsFiniteSet(O \ R) /\ Cardinality(O \ R) = Cardinality(O) - Cardinality(R)
          /\ Cardinality(R) <= Cardinality(O) /\ Cardinality(O) \in Nat /\ Cardinality(R) \in Nat
      BY <1>2, <1>3, RowCounts
    <2> QED BY <1>1, <1>2, <2>1
  <1>8. PICK st \in {"running", "failed"} :
            /\ uploads' = Append(Unfinished(uploads), [rows |-> R, state |-> st])
            /\ \/ ~Failed(uploads) /\ UNCHANGED <<stage, result, route>>
               \/ RouteFails
    BY DEF CloseWriter
  <1>9. /\ UploadsOK(Unfinished(uploads)) /\ SentRows(Unfinished(uploads)) \subseteq SentRows(uploads)
        /\ ~Failed(uploads) => SentRows(uploads) \subseteq SentRows(Unfinished(uploads))
    BY <1>2, UnfinishedFacts
  <1>10. Apart(RoutedRows(route), O, SentRows(uploads), StoredRows(stored))
         /\ RoutedRows(route) \cup O \cup SentRows(uploads) \cup StoredRows(stored) \subseteq Received(done)
         /\ (result = "Ok" => Received(done) \subseteq RoutedRows(route) \cup O \cup SentRows(uploads) \cup StoredRows(stored))
    BY DEF ParquetInv, RowsOnce
  <1> HIDE DEF R, O
  <1>11. R \cap SentRows(Unfinished(uploads)) = {}
    BY <1>3, <1>9, <1>10 DEF Apart
  <1>12. UploadsOK(uploads') /\ SentRows(uploads') = SentRows(Unfinished(uploads)) \cup R
    BY <1>3, <1>8, <1>9, <1>11, AppendUpload
  <1>13. InputOK(arrived', held', done')
    BY <1>1 DEF ParquetInv, InputOK
  <1>14. StagesOK(stage, result, route, writers, uploads, done) /\ stage # "ended"
    BY DEF ParquetInv, StagesOK
  <1>15. StoredOK(stored') /\ stored' = stored /\ done' = done
    BY <1>1 DEF ParquetInv, StoredOK
  <1>16. CASE ~Failed(uploads) /\ UNCHANGED <<stage, result, route>>
    <2>1. StagesOK(stage', result', route', writers', uploads', done')
      BY <1>14, <1>15, <1>16 DEF StagesOK
    <2>2. MemoryOK(writers', memory', route')
      <3>1. AdmittedFits(route', memory')
        <4> SUFFICES ASSUME route # << >>, route[1].admitted, MemoryLimit > 0
                     PROVE  memory' + Cardinality(route[1].rows) <= MemoryLimit
          BY <1>16 DEF AdmittedFits
        <4>1. 1 \in 1..Len(route)
          BY <1>2, TailRoute
        <4>2. Cardinality(route[1].rows) \in Nat
          BY <1>2, <4>1, RouteFields, FS_CardinalityType
        <4>3. memory + Cardinality(route[1].rows) <= MemoryLimit
          BY <1>2 DEF AdmittedFits
        <4> QED BY <1>7, <4>2, <4>3, ParquetAssumption
      <3>2. MemoryLimit > 0 => memory' <= MemoryLimit
        BY <1>2, <1>7, ParquetAssumption
      <3> QED BY <1>4, <1>7, <3>1, <3>2 DEF MemoryOK
    <2>3. RowsOnce(route', writers', uploads', stored', done', result')
      BY <1>3, <1>4, <1>9, <1>10, <1>12, <1>15, <1>16 DEF RowsOnce, Apart
    <2> QED BY <1>1, <1>2, <1>4, <1>5, <1>6, <1>12, <1>13, <1>15, <1>16, <2>1, <2>2, <2>3, RowsStay DEF PoolOK
  <1>17. CASE RouteFails
    <2>1. StagesOK(stage', result', route', writers', uploads', done')
      BY <1>17 DEF RouteFails, StagesOK
    <2>2. MemoryOK(writers', memory', route')
      <3>1. MemoryLimit > 0 => memory' <= MemoryLimit
        BY <1>2, <1>7, ParquetAssumption
      <3> QED BY <1>4, <1>7, <1>17, <3>1, FailureFacts DEF MemoryOK
    <2>3. RowsOnce(route', writers', uploads', stored', done', result')
      <3>1. RoutedRows(route') = {} /\ result' = "Err"
        BY <1>17, FailureFacts
      <3> QED BY <1>3, <1>4, <1>9, <1>10, <1>12, <1>15, <3>1 DEF RowsOnce, Apart
    <2> QED BY <1>1, <1>4, <1>5, <1>6, <1>12, <1>13, <1>15, <1>17, <2>1, <2>2, <2>3, RowsStay, FailureFacts
            DEF PoolOK
  <1> QED BY <1>8, <1>16, <1>17


(* The oldest upload is awaited. *)
LEMMA ParquetWaits ==
    ASSUME ParquetInv, WaitOldest
    PROVE  ParquetInv'
  <1>1. /\ uploads # << >> /\ Head(uploads).state # "running" /\ uploads' = Tail(uploads)
        /\ IF Head(uploads).state = "failed" THEN RouteFails ELSE UNCHANGED <<stage, result, route>>
        /\ UNCHANGED <<workload, arrived, held, done, stored, writers, lru, memory>>
    BY DEF WaitOldest, SameInput
  <1>2. UploadsOK(uploads) /\ StagesOK(stage, result, route, writers, uploads, done) /\ stage # "ended"
    BY <1>1 DEF ParquetInv, StagesOK
  <1>3. /\ UploadsOK(uploads') /\ Head(uploads) = uploads[1] /\ SentRows(uploads') \subseteq SentRows(uploads)
        /\ uploads[1].state = "done" => SentRows(uploads) \subseteq SentRows(uploads')
    BY <1>1, <1>2, TailUpload
  <1>4. uploads[1].state \in {"running", "done", "failed"}
    <2>1. uploads \in Seq(UploadSet) /\ uploads # << >>
      BY <1>1, <1>2 DEF UploadsOK
    <2>2. uploads[1] \in UploadSet
      BY <2>1
    <2> QED BY <2>2, UploadFields
  <1>5. InputOK(arrived', held', done') /\ PoolOK(writers', lru') /\ StoredOK(stored')
    BY <1>1 DEF ParquetInv
  <1>6. RowsOnce(route, writers, uploads, stored, done, result) /\ MemoryOK(writers, memory, route) /\ RouteOK(route)
    BY DEF ParquetInv
  <1>7. CASE RouteFails
    <2>1. StagesOK(stage', result', route', writers', uploads', done')
      BY <1>7 DEF RouteFails, StagesOK
    <2>2. RouteOK(route') /\ RoutedRows(route') = {} /\ result' = "Err" /\ AdmittedFits(route', memory')
      BY <1>7, FailureFacts
    <2>3. MemoryOK(writers', memory', route')
      BY <1>1, <1>6, <2>2 DEF MemoryOK
    <2>4. RowsOnce(route', writers', uploads', stored', done', result')
      BY <1>1, <1>3, <1>6, <2>2 DEF RowsOnce, Apart
    <2> QED BY <1>1, <1>3, <1>5, <2>1, <2>2, <2>3, <2>4, RowsStay
  <1>8. CASE UNCHANGED <<stage, result, route>> /\ Head(uploads).state # "failed"
    <2>1. SentRows(uploads') = SentRows(uploads)
      BY <1>1, <1>3, <1>4, <1>8
    <2>2. StagesOK(stage', result', route', writers', uploads', done')
      BY <1>1, <1>2, <1>8 DEF StagesOK
    <2>3. RowsOnce(route', writers', uploads', stored', done', result')
      BY <1>1, <1>6, <1>8, <2>1 DEF RowsOnce
    <2> QED BY <1>1, <1>3, <1>5, <1>6, <1>8, <2>2, <2>3, RowsStay
  <1> QED BY <1>1, <1>7, <1>8

(* A part that cannot fit is refused. *)
LEMMA ParquetRejects ==
    ASSUME ParquetInv, RejectTooLarge
    PROVE  ParquetInv'
  <1>1. RouteFails /\ UNCHANGED <<workload, arrived, held, done, stored, writers, lru, memory, uploads>>
    BY DEF RejectTooLarge, SameInput
  <1>2. RouteOK(route') /\ RoutedRows(route') = {} /\ result' = "Err" /\ AdmittedFits(route', memory')
    BY <1>1, FailureFacts
  <1>3. StagesOK(stage', result', route', writers', uploads', done')
    BY <1>1 DEF RouteFails, StagesOK
  <1>4. MemoryOK(writers', memory', route')
    BY <1>1, <1>2 DEF ParquetInv, MemoryOK
  <1>5. RowsOnce(route', writers', uploads', stored', done', result')
    BY <1>1, <1>2 DEF ParquetInv, RowsOnce, Apart
  <1>6. /\ InputOK(arrived', held', done') /\ PoolOK(writers', lru') /\ UploadsOK(uploads') /\ StoredOK(stored')
    BY <1>1 DEF ParquetInv
  <1> QED BY <1>1, <1>2, <1>3, <1>4, <1>5, <1>6, RowsStay

(* An upload ends: the file is visible, or nothing of it is. *)
LEMMA ParquetUploads ==
    ASSUME ParquetInv, FinishUpload
    PROVE  ParquetInv'
  <1>1. PICK i \in 1..Len(uploads) : uploads[i].state = "running" /\ UploadEnds(i)
    BY DEF FinishUpload
  <1>2. UNCHANGED <<workload, arrived, held, done, stage, result, route, writers, lru, memory>>
    BY DEF FinishUpload, SameInput
  <1>3. UploadsOK(uploads) /\ StoredOK(stored) /\ RowsOnce(route, writers, uploads, stored, done, result)
        /\ StagesOK(stage, result, route, writers, uploads, done)
    BY DEF ParquetInv
  <1>4. uploads # << >> /\ stage # "ended"
    <2>1. uploads = << >> => Len(uploads) = 0
      OBVIOUS
    <2>2. uploads # << >>
      BY <2>1
    <2> QED BY <1>3, <2>2 DEF StagesOK
  <1>5. StagesOK(stage', result', route', writers', uploads', done')
    BY <1>2, <1>3, <1>4 DEF StagesOK
  <1>6. InputOK(arrived', held', done') /\ RouteOK(route') /\ PoolOK(writers', lru') /\ MemoryOK(writers', memory', route')
    BY <1>2 DEF ParquetInv
  <1>7. CASE uploads' = [uploads EXCEPT ![i].state = "failed"] /\ stored' = stored
    <2>1. UploadsOK(uploads') /\ SentRows(uploads') = SentRows(uploads)
      BY <1>1, <1>3, <1>7, EndUpload
    <2>2. RowsOnce(route', writers', uploads', stored', done', result')
      BY <1>2, <1>3, <1>7, <2>1 DEF RowsOnce
    <2> QED BY <1>2, <1>3, <1>5, <1>6, <1>7, <2>1, <2>2, RowsStay
  <1>8. CASE /\ uploads' = [uploads EXCEPT ![i].state = "done"]
             /\ stored' = stored \o SetToSeq({[first |-> r[1], last |-> r[1], part |-> r[2]] : r \in uploads[i].rows})
    <2>1. PICK R : R = uploads[i].rows
      OBVIOUS
    <2>2. /\ UploadsOK(uploads') /\ SentRows(uploads') = SentRows(uploads) \ R
          /\ R \subseteq SentRows(uploads) /\ R \in SUBSET AllRows /\ IsFiniteSet(R)
      BY <1>1, <1>3, <1>8, <2>1, EndUpload
    <2>3. stored' = stored \o SetToSeq({[first |-> r[1], last |-> r[1], part |-> r[2]] : r \in R})
      BY <1>8, <2>1
    <2>4. R \cap StoredRows(stored) = {}
      BY <1>3, <2>2 DEF RowsOnce, Apart
    <2>5. StoredOK(stored') /\ StoredRows(stored') = StoredRows(stored) \cup R
      BY <1>3, <2>2, <2>3, <2>4, StoreFacts
    <2>6. RowsOnce(route', writers', uploads', stored', done', result')
      BY <1>2, <1>3, <2>2, <2>5 DEF RowsOnce, Apart
    <2> QED BY <1>2, <1>5, <1>6, <2>2, <2>5, <2>6, RowsStay
  <1> QED BY <1>1, <1>7, <1>8 DEF UploadEnds

(* Batches arrive, files grow old, the input ends and the sink stops. *)
LEMMA ParquetArrival ==
    ASSUME ParquetInv, Arrive, UNCHANGED parquetVars
    PROVE  ParquetInv'
  <1>1. /\ UNCHANGED <<workload, held, done, stored, stage, result, route, writers, lru, memory, uploads>>
        /\ arrived < MaxSeq /\ arrived' = arrived + 1
    BY DEF Arrive, parquetVars
  <1>2. InputOK(arrived', held', done')
    <2>1. arrived \in 0..MaxSeq /\ held = {} /\ done \subseteq 1..arrived
      BY DEF ParquetInv, InputOK
    <2>2. arrived + 1 \in 0..MaxSeq /\ 1..arrived \subseteq 1..(arrived + 1)
      BY <1>1, <2>1, LeaseFeedAssumption
    <2> QED BY <1>1, <2>1, <2>2 DEF InputOK
  <1> QED BY <1>1, <1>2, RowsStay DEF ParquetInv

LEMMA ParquetAges ==
    ASSUME ParquetInv, FileAges
    PROVE  ParquetInv'
  <1>1. PICK p \in DOMAIN writers : writers' = [writers EXCEPT ![p].old = TRUE]
    BY DEF FileAges
  <1>2. UNCHANGED <<workload, arrived, held, done, stored, stage, result, route, lru, memory, uploads>>
    BY DEF FileAges, SameInput
  <1>3. WritersOK(writers)
    BY DEF ParquetInv, PoolOK
  <1>4. writers = [q \in DOMAIN writers |-> writers[q]] /\ writers \in [DOMAIN writers -> WriterSet]
    BY <1>3 DEF WritersOK
  <1>5. PICK x : x = [writers[p] EXCEPT !.old = TRUE]
    OBVIOUS
  <1>6. x \in WriterSet /\ x.rows = writers[p].rows
    BY <1>4, <1>5 DEF WriterSet
  <1>7. writers' = [writers EXCEPT ![p] = x]
    BY <1>1, <1>5
  <1>8. /\ DOMAIN writers' = DOMAIN writers /\ writers' \in [DOMAIN writers -> WriterSet]
        /\ \A q \in DOMAIN writers : writers'[q].rows = writers[q].rows
    BY <1>4, <1>6, <1>7
  <1>9. WritersOK(writers')
    BY <1>3, <1>8 DEF WritersOK
  <1>10. OpenRows(writers') = OpenRows(writers)
    BY <1>8 DEF OpenRows
  <1>11. PoolOK(writers', lru') /\ MemoryOK(writers', memory', route')
    BY <1>2, <1>8, <1>9, <1>10 DEF ParquetInv, PoolOK, MemoryOK
  <1>12. StagesOK(stage', result', route', writers', uploads', done')
    BY <1>2, <1>8 DEF ParquetInv, StagesOK
  <1>13. RowsOnce(route', writers', uploads', stored', done', result')
    BY <1>2, <1>10 DEF ParquetInv, RowsOnce
  <1> QED BY <1>2, <1>11, <1>12, <1>13, RowsStay DEF ParquetInv

LEMMA ParquetInputEnds ==
    ASSUME ParquetInv, InputEnds
    PROVE  ParquetInv'
  <1>1. /\ stage = "receive" /\ stage' = "drain" /\ route = << >> /\ Waiting = {} /\ arrived = MaxSeq
        /\ UNCHANGED <<workload, arrived, held, done, stored, result, route, writers, lru, memory, uploads>>
    BY DEF InputEnds, SameInput
  <1>2. held = {} /\ result = "Ok"
    BY <1>1 DEF ParquetInv, InputOK, StagesOK
  <1>3. 1..MaxSeq \subseteq done
    BY <1>1, <1>2 DEF Waiting
  <1>4. StagesOK(stage', result', route', writers', uploads', done')
    BY <1>1, <1>2, <1>3 DEF StagesOK
  <1> QED BY <1>1, <1>4, RowsStay DEF ParquetInv

LEMMA ParquetDrains ==
    ASSUME ParquetInv, Drain
    PROVE  ParquetInv'
  <1>1. CASE \E p \in DOMAIN writers : CloseWriter(p)
    BY <1>1, ParquetCloses
  <1>2. CASE WaitOldest
    BY <1>2, ParquetWaits
  <1>3. CASE /\ stage = "drain" /\ DOMAIN writers = {} /\ uploads = << >> /\ stage' = "ended" /\ SameInput
             /\ UNCHANGED <<faults, stored, result, route, writers, lru, memory, uploads>>
    <2>1. UNCHANGED <<workload, arrived, held, done, stored, result, route, writers, lru, memory, uploads>>
      BY <1>3 DEF SameInput
    <2>2. StagesOK(stage', result', route', writers', uploads', done')
      BY <1>3, <2>1 DEF ParquetInv, StagesOK
    <2> QED BY <2>1, <2>2, RowsStay DEF ParquetInv
  <1> QED BY <1>1, <1>2, <1>3 DEF Drain


(* A batch is received and acknowledged: its rows were not received before. *)
LEMMA ReceivedFacts ==
    ASSUME ParquetInv, NEW l \in NextLeases, l.first = l.last
    PROVE  /\ l.first \in 1..MaxSeq /\ InputOK(arrived, held, done \cup Seqs(l))
           /\ Received(done \cup Seqs(l)) = Received(done) \cup {r \in AllRows : r[1] = l.first}
           /\ Received(done) \cap {r \in AllRows : r[1] = l.first} = {}
  <1>1. arrived \in 0..MaxSeq /\ held = {} /\ done \subseteq 1..arrived
    BY DEF ParquetInv, InputOK
  <1>2. arrived \in Nat
    BY <1>1, LeaseFeedAssumption
  <1>3. l.first \in Waiting /\ LeaseOK(l)
    BY <1>2, FirstWaiting
  <1>4. l.first \in 1..arrived /\ l.first \notin done
    BY <1>3 DEF Waiting
  <1>5. Seqs(l) = {l.first}
    <2>1. PICK n \in Nat : n = l.first
      BY <1>3 DEF LeaseOK
    <2>2. n..n = {n}
      OBVIOUS
    <2> QED BY <2>1, <2>2 DEF Seqs
  <1>6. l.first \in 1..MaxSeq
    BY <1>1, <1>4, LeaseFeedAssumption
  <1> QED BY <1>1, <1>4, <1>5, <1>6 DEF InputOK, Received

LEMMA ParquetReceives ==
    ASSUME ParquetInv, NEW l \in NextLeases, ReceiveBatch(l)
    PROVE  ParquetInv'
  <1>1. /\ stage = "receive" /\ route = << >> /\ l.first = l.last /\ done' = done \cup Seqs(l)
        /\ uploads' = Unfinished(uploads)
        /\ IF Failed(uploads) THEN RouteFails
           ELSE route' = SubBatches(l.first) /\ UNCHANGED <<stage, result>>
        /\ UNCHANGED <<workload, arrived, held, stored, writers, lru, memory>>
    BY DEF ReceiveBatch
  <1>2. PICK B : B = {r \in AllRows : r[1] = l.first}
    OBVIOUS
  <1>3. /\ l.first \in 1..MaxSeq /\ InputOK(arrived', held', done')
        /\ Received(done') = Received(done) \cup B /\ Received(done) \cap B = {}
    BY <1>1, <1>2, ReceivedFacts
  <1>4. UploadsOK(uploads) /\ RowsOnce(route, writers, uploads, stored, done, result)
        /\ MemoryOK(writers, memory, route) /\ result = "Ok"
    BY <1>1 DEF ParquetInv, StagesOK
  <1>5. /\ UploadsOK(uploads') /\ SentRows(uploads') \subseteq SentRows(uploads)
        /\ ~Failed(uploads) => SentRows(uploads) \subseteq SentRows(uploads')
    BY <1>1, <1>4, UnfinishedFacts
  <1>6. PoolOK(writers', lru') /\ StoredOK(stored')
    BY <1>1 DEF ParquetInv
  <1>7. RoutedRows(route) = {}
    BY <1>1, EmptyRoute
  <1>8. CASE Failed(uploads)
    <2>1. RouteFails
      BY <1>1, <1>8
    <2>2. RouteOK(route') /\ RoutedRows(route') = {} /\ result' = "Err" /\ AdmittedFits(route', memory')
      BY <2>1, FailureFacts
    <2>3. StagesOK(stage', result', route', writers', uploads', done')
      BY <2>1 DEF RouteFails, StagesOK
    <2>4. MemoryOK(writers', memory', route')
      BY <1>1, <1>4, <2>2 DEF MemoryOK
    <2>5. RowsOnce(route', writers', uploads', stored', done', result')
      BY <1>1, <1>3, <1>4, <1>5, <2>2 DEF RowsOnce, Apart
    <2> QED BY <1>1, <1>3, <1>5, <1>6, <2>2, <2>3, <2>4, <2>5, RowsStay
  <1>9. CASE ~Failed(uploads)
    <2>1. route' = SubBatches(l.first) /\ stage' = "receive" /\ result' = "Ok"
      BY <1>1, <1>4, <1>9
    <2>2. RouteOK(route') /\ RoutedRows(route') = B /\ AdmittedFits(route', memory')
      BY <1>2, <1>3, <2>1, SubBatchesFacts
    <2>3. StagesOK(stage', result', route', writers', uploads', done')
      BY <2>1 DEF StagesOK
    <2>4. MemoryOK(writers', memory', route')
      BY <1>1, <1>4, <2>2 DEF MemoryOK
    <2>5. RowsOnce(route', writers', uploads', stored', done', result')
      BY <1>1, <1>3, <1>4, <1>5, <1>7, <1>9, <2>1, <2>2 DEF RowsOnce, Apart
    <2> QED BY <1>1, <1>3, <1>5, <1>6, <2>2, <2>3, <2>4, <2>5, RowsStay
  <1> QED BY <1>8, <1>9

LEMMA ParquetPrepareFails ==
    ASSUME ParquetInv, NEW l \in NextLeases, PrepareFails(l)
    PROVE  ParquetInv'
  <1>1. /\ l.first = l.last /\ done' = done \cup Seqs(l) /\ RouteFails
        /\ UNCHANGED <<workload, arrived, held, stored, writers, lru, memory, uploads>>
    BY DEF PrepareFails
  <1>2. InputOK(arrived', held', done') /\ Received(done) \subseteq Received(done')
    BY <1>1, ReceivedFacts
  <1>3. RouteOK(route') /\ RoutedRows(route') = {} /\ result' = "Err" /\ AdmittedFits(route', memory')
    BY <1>1, FailureFacts
  <1>4. StagesOK(stage', result', route', writers', uploads', done')
    BY <1>1 DEF RouteFails, StagesOK
  <1>5. MemoryOK(writers', memory', route')
    BY <1>1, <1>3 DEF ParquetInv, MemoryOK
  <1>6. RowsOnce(route', writers', uploads', stored', done', result')
    BY <1>1, <1>2, <1>3 DEF ParquetInv, RowsOnce, Apart
  <1>7. PoolOK(writers', lru') /\ UploadsOK(uploads') /\ StoredOK(stored')
    BY <1>1 DEF ParquetInv
  <1> QED BY <1>1, <1>2, <1>3, <1>4, <1>5, <1>6, <1>7, RowsStay

(* What is evicted is open. *)
LEMMA ParquetMakesRoom ==
    ASSUME ParquetInv, MakeRoom
    PROVE  ParquetInv'
  <1>1. PICK p \in MustClose : CloseWriter(p)
    BY DEF MakeRoom
  <1>2. LruOK(lru, DOMAIN writers)
    BY DEF ParquetInv, PoolOK
  <1>3. DOMAIN writers # {} => Head(lru) \in DOMAIN writers
    <2> SUFFICES ASSUME DOMAIN writers # {} PROVE Head(lru) \in DOMAIN writers
      OBVIOUS
    <2>1. lru \in Seq(DOMAIN writers) /\ lru # << >>
      BY <1>2 DEF LruOK
    <2> QED BY <2>1, HeadTailProperties
  <1>4. Cardinality(DOMAIN writers) >= MaxOpen => DOMAIN writers # {}
    <2>1. DOMAIN writers = {} => Cardinality(DOMAIN writers) = 0
      BY FS_EmptySet, Zenon
    <2>2. MaxOpen \in Nat \ {0}
      BY ParquetAssumption
    <2>3. DOMAIN writers = {} => ~(Cardinality(DOMAIN writers) >= MaxOpen)
      <3> SUFFICES ASSUME DOMAIN writers = {} PROVE ~(Cardinality(DOMAIN writers) >= MaxOpen)
        OBVIOUS
      <3>1. PICK n : n = Cardinality(DOMAIN writers)
        OBVIOUS
      <3>2. n = 0
        BY <2>1, <3>1
      <3>3. ~(n >= MaxOpen)
        BY <2>2, <3>2
      <3> QED BY <3>1, <3>3
    <2> QED BY <2>3
  <1>5. p \in DOMAIN writers
    BY <1>1, <1>3, <1>4 DEF MustClose, OverMemory, IsOpen
  <1> QED BY <1>1, <1>5, ParquetCloses

(* A slice is written: its rows are in the writer of their partition. *)
LEMMA ParquetWrites ==
    ASSUME ParquetInv, WriteSlice
    PROVE  ParquetInv'
  <1>1. /\ WritersOK(writers) /\ LruOK(lru, DOMAIN writers) /\ Len(lru) <= MaxOpen
        /\ RouteOK(route) /\ MemoryOK(writers, memory, route)
        /\ RowsOnce(route, writers, uploads, stored, done, result)
    BY DEF ParquetInv, PoolOK
  <1>2. /\ route # << >> /\ ~TooLarge /\ MustClose = {}
        /\ UNCHANGED <<workload, arrived, held, done, stored, uploads>>
    BY DEF WriteSlice, SameInput
  <1>3. /\ 1 \in 1..Len(route) /\ Head(route) = route[1]
        /\ RouteOK(Tail(route)) /\ \A m : AdmittedFits(Tail(route), m)
        /\ RoutedRows(route) = RoutedRows(Tail(route)) \cup route[1].rows
        /\ RoutedRows(Tail(route)) \cap route[1].rows = {}
    BY <1>1, <1>2, TailRoute
  <1>4. PICK p, X : p = route[1].part /\ X = route[1].rows
    OBVIOUS
  <1>5. /\ X \in SUBSET AllRows /\ IsFiniteSet(X) /\ (\A r \in X : PartOf(r) = p)
        /\ \A q, r \in X : q[1] = r[1]
    BY <1>1, <1>3, <1>4, RouteFields
  <1>6. stage = "receive" /\ result = "Ok"
    BY <1>2 DEF ParquetInv, StagesOK
  <1> DEFINE O == OpenRows(writers)
             used == IF p \in DOMAIN writers THEN writers[p].rows ELSE {}
  <1>7. /\ IsFiniteSet(used) /\ used \subseteq O /\ Cardinality(used) \in Nat
        /\ MaxRecords > 0 => Cardinality(used) <= MaxRecords
        /\ Cardinality(used) = IF p \in DOMAIN writers THEN Cardinality(writers[p].rows) ELSE 0
    <2>1. CASE p \in DOMAIN writers
      <3>1. used = writers[p].rows
        BY <2>1
      <3>2. IsFiniteSet(used) /\ used \subseteq O
        BY <1>1, <2>1, <3>1, WriterFields
      <3> HIDE DEF used, O
      <3> QED BY <1>1, <2>1, <3>1, <3>2, FS_CardinalityType DEF WritersOK
    <2>2. CASE p \notin DOMAIN writers
      <3>1. used = {}
        BY <2>2
      <3> HIDE DEF used, O
      <3> QED BY <2>2, <3>1, FS_EmptySet, ParquetAssumption
    <2> QED BY <2>1, <2>2
  <1>8. PICK room : room = IF MaxRecords = 0 THEN Cardinality(X) ELSE MaxRecords - Cardinality(used)
    OBVIOUS
  <1>9. Cardinality(X) \in Nat
    BY <1>5, FS_CardinalityType
  <1> HIDE DEF used, O
  <1>10. room \in Nat /\ (MaxRecords > 0 => room + Cardinality(used) = MaxRecords)
    BY <1>7, <1>8, <1>9, ParquetAssumption
  <1>11. PICK slice : slice = Slice(p)
    OBVIOUS
  <1>12. slice = {r \in X : Cardinality({q \in X : q[2] < r[2]}) < room}
    BY <1>3, <1>4, <1>7, <1>8, <1>11 DEF Slice, Next1, IsOpen
  <1>13. slice \subseteq X /\ IsFiniteSet(slice) /\ Cardinality(slice) <= room
    BY <1>5, <1>10, <1>12, SliceFacts
  <1>14. /\ Apart(RoutedRows(route), O, SentRows(uploads), StoredRows(stored))
         /\ RoutedRows(route) \cup O \cup SentRows(uploads) \cup StoredRows(stored) \subseteq Received(done)
         /\ Received(done) \subseteq RoutedRows(route) \cup O \cup SentRows(uploads) \cup StoredRows(stored)
    BY <1>1, <1>6 DEF RowsOnce, O
  <1>15. /\ IsFiniteSet(O) /\ memory = Cardinality(O) /\ (MemoryLimit > 0 => memory <= MemoryLimit)
         /\ AdmittedFits(route, memory)
    BY <1>1 DEF MemoryOK, O
  <1>16. slice \cap O = {} /\ slice \cap used = {}
    BY <1>3, <1>4, <1>7, <1>13, <1>14 DEF Apart
  <1>17. /\ InputOK(arrived', held', done') /\ UploadsOK(uploads') /\ StoredOK(stored')
    BY <1>2 DEF ParquetInv
  <1>18. CASE /\ writers' = [q \in DOMAIN writers \cup {p} |->
                    IF q = p THEN [rows |-> slice \cup used,
                                   old |-> IF p \in DOMAIN writers THEN writers[p].old ELSE FALSE]
                    ELSE writers[q]]
              /\ lru' = Touch(p) /\ memory' = memory + Cardinality(slice)
              /\ route' = IF X \ slice = {} THEN Tail(route)
                          ELSE <<[part |-> p, rows |-> X \ slice, admitted |-> TRUE]>> \o Tail(route)
              /\ UNCHANGED <<stage, result>>
    <2>1. PICK old : old = IF p \in DOMAIN writers THEN writers[p].old ELSE FALSE
      OBVIOUS
    <2>2. old \in BOOLEAN
      BY <1>1, <2>1, WriterFields
    <2>3. OfPart(slice, p)
      BY <1>5, <1>13 DEF OfPart
    <2>4. MaxRecords > 0 => Cardinality(slice \cup used) <= MaxRecords
      <3>1. Cardinality(used \cup slice) = Cardinality(used) + Cardinality(slice) /\ Cardinality(slice) \in Nat
        BY <1>7, <1>13, <1>16, RowCounts
      <3>2. slice \cup used = used \cup slice
        OBVIOUS
      <3>3. PICK n \in Nat : n = Cardinality(slice) /\ n <= room
        BY <1>13, <3>1
      <3>4. PICK m \in Nat : m = Cardinality(used)
        BY <1>7
      <3>5. Cardinality(slice \cup used) = m + n
        BY <3>1, <3>2, <3>3, <3>4
      <3>6. room \in Nat /\ (MaxRecords > 0 => room + m = MaxRecords)
        BY <1>10, <3>4
      <3> QED BY ONLY <3>3, <3>4, <3>5, <3>6
    <2>5. WritersOK(writers') /\ DOMAIN writers' = DOMAIN writers \cup {p} /\ OpenRows(writers') = O \cup slice
      <3>1. PICK Y : Y = slice \cup used
        OBVIOUS
      <3>2. /\ p \in DOMAIN writers => Y = slice \cup writers[p].rows
            /\ p \notin DOMAIN writers => Y = slice
        BY <3>1 DEF used
      <3>3. writers' = [q \in DOMAIN writers \cup {p} |-> IF q = p THEN [rows |-> Y, old |-> old] ELSE writers[q]]
        BY <1>18, <2>1, <3>1
      <3>5. /\ DOMAIN writers' = DOMAIN writers \cup {p} /\ writers' = [q \in DOMAIN writers' |-> writers'[q]]
            /\ writers'[p] = [rows |-> Y, old |-> old] /\ \A q \in DOMAIN writers : q # p => writers'[q] = writers[q]
        BY <3>3
      <3>4. MaxRecords > 0 => Cardinality(Y) <= MaxRecords
        BY <2>4, <3>1
      <3> QED BY <1>1, <2>2, <2>3, <3>2, <3>4, <3>5, WriteFacts, SMTT(30) DEF O
    <2>6. LruOK(lru', DOMAIN writers')
      BY <1>1, <1>18, <2>5, WithoutFacts, AppendLru DEF Touch
    <2>7. Len(lru') <= MaxOpen
      <3>1. /\ IsFiniteSet(DOMAIN writers) /\ Cardinality(DOMAIN writers) = Len(lru) /\ Len(lru) \in Nat
            /\ Cardinality(DOMAIN writers') = Len(lru') /\ Len(lru') \in Nat
        BY <1>1, <2>6, LruLength
      <3>2. CASE p \in DOMAIN writers
        <4>1. DOMAIN writers' = DOMAIN writers
          BY <2>5, <3>2
        <4> QED BY <1>1, <3>1, <4>1
      <3>3. CASE p \notin DOMAIN writers
        <4>1. ~(Cardinality(DOMAIN writers) >= MaxOpen)
          BY <1>2, <1>3, <1>4, <3>3 DEF MustClose, IsOpen, Next1
        <4>2. Cardinality(DOMAIN writers') = Cardinality(DOMAIN writers) + 1
          BY <2>5, <3>1, <3>3, FS_AddElement
        <4> QED BY <3>1, <4>1, <4>2, ParquetAssumption
      <3> QED BY <3>2, <3>3
    <2>8. /\ IsFiniteSet(O \cup slice) /\ memory' = Cardinality(O \cup slice)
          /\ memory \in Nat /\ memory' = memory + Cardinality(slice) /\ Cardinality(slice) \in Nat
          /\ Cardinality(X \ slice) = Cardinality(X) - Cardinality(slice) /\ Cardinality(slice) <= Cardinality(X)
      <3>1. /\ IsFiniteSet(O \cup slice) /\ Cardinality(O \cup slice) = Cardinality(O) + Cardinality(slice)
            /\ Cardinality(O) \in Nat /\ Cardinality(slice) \in Nat
        BY <1>13, <1>15, <1>16, RowCounts
      <3>2. Cardinality(X \ slice) = Cardinality(X) - Cardinality(slice) /\ Cardinality(slice) <= Cardinality(X)
        BY <1>5, <1>13, RowCounts
      <3> QED BY <1>15, <1>18, <3>1, <3>2
    <2>9. MemoryLimit > 0 => memory + Cardinality(X) <= MemoryLimit
      <3> SUFFICES ASSUME MemoryLimit > 0 PROVE memory + Cardinality(X) <= MemoryLimit
        OBVIOUS
      <3>1. CASE route[1].admitted
        BY <1>2, <1>4, <1>15, <3>1 DEF AdmittedFits
      <3>2. CASE ~route[1].admitted
        <4>1. ~OverMemory
          BY <1>2 DEF MustClose
        <4>2. CASE DOMAIN writers = {}
          <5>1. O = {}
            BY <4>2 DEF O, OpenRows
          <5>2. memory = 0
            BY <1>15, <5>1, FS_EmptySet
          <5>3. ~(Cardinality(X) > MemoryLimit)
            BY <1>2, <1>3, <1>4 DEF TooLarge, Next1
          <5> QED BY <1>9, <5>2, <5>3, ParquetAssumption
        <4>3. CASE DOMAIN writers # {}
          <5>1. ~(memory + Cardinality(X) > MemoryLimit)
            BY <1>3, <1>4, <3>2, <4>1, <4>3 DEF OverMemory, Next1
          <5> QED BY <1>9, <2>8, <5>1, ParquetAssumption
        <4> QED BY <4>2, <4>3
      <3> QED BY <3>1, <3>2
    <2>10. /\ RouteOK(route') /\ AdmittedFits(route', memory')
           /\ RoutedRows(route') = RoutedRows(Tail(route)) \cup (X \ slice)
      <3>1. CASE X \ slice = {}
        BY <1>3, <1>18, <3>1
      <3>2. CASE X \ slice # {}
        <4>1. PICK rest : rest = X \ slice
          OBVIOUS
        <4>2. rest \in SUBSET route[1].rows
          BY <1>4, <4>1
        <4>3. route' = <<[part |-> route[1].part, rows |-> rest, admitted |-> TRUE]>> \o Tail(route)
          BY <1>4, <1>18, <3>2, <4>1
        <4>4. RouteOK(route') /\ route'[1].rows = rest /\ RoutedRows(route') = RoutedRows(Tail(route)) \cup rest
          BY <1>1, <1>2, <4>2, <4>3, ShortenRoute, ZenonT(60)
        <4>5. MemoryLimit > 0 => memory' + Cardinality(rest) <= MemoryLimit
          BY <1>9, <2>8, <2>9, <4>1, ParquetAssumption
        <4> QED BY <4>1, <4>4, <4>5 DEF AdmittedFits
      <3> QED BY <3>1, <3>2
    <2>11. MemoryOK(writers', memory', route')
      <3>1. MemoryLimit > 0 => memory' <= MemoryLimit
        BY <1>9, <2>8, <2>9, ParquetAssumption
      <3> QED BY <2>5, <2>8, <2>10, <3>1 DEF MemoryOK
    <2>12. StagesOK(stage', result', route', writers', uploads', done')
      BY <1>6, <1>18 DEF StagesOK
    <2>13. RowsOnce(route', writers', uploads', stored', done', result')
      <3>1. RoutedRows(route') \cup slice = RoutedRows(route) /\ RoutedRows(route') \cap slice = {}
        BY <1>3, <1>4, <1>13, <2>10
      <3> QED BY <1>2, <1>14, <1>16, <2>5, <3>1 DEF RowsOnce, Apart
    <2> QED BY <1>2, <1>17, <2>5, <2>6, <2>7, <2>10, <2>11, <2>12, <2>13, RowsStay DEF PoolOK
  <1>19. CASE AbortWriter(p) /\ RouteFails
    <2>1. WritersOK(writers') /\ DOMAIN writers' = DOMAIN writers \ {p}
      BY <1>1, <1>19, DropFacts DEF AbortWriter
    <2>2. OpenRows(writers') = O \ used
      BY <1>1, <1>19, DropFacts DEF AbortWriter, O, used
    <2>3. LruOK(lru', DOMAIN writers')
      BY <1>1, <1>19, <2>1, WithoutFacts DEF AbortWriter
    <2>4. Len(lru') <= MaxOpen
      <3>1. /\ IsFiniteSet(DOMAIN writers) /\ Cardinality(DOMAIN writers) = Len(lru) /\ Len(lru) \in Nat
            /\ Cardinality(DOMAIN writers') = Len(lru') /\ Len(lru') \in Nat
        BY <1>1, <2>3, LruLength
      <3>2. Cardinality(DOMAIN writers') <= Cardinality(DOMAIN writers)
        BY <2>1, <3>1, FS_Subset
      <3> QED BY <1>1, <3>1, <3>2, ParquetAssumption
    <2>5. IsFiniteSet(O \ used) /\ memory' = Cardinality(O \ used) /\ (MemoryLimit > 0 => memory' <= MemoryLimit)
      <3>1. /\ IsFiniteSet(O \ used) /\ Cardinality(O \ used) = Cardinality(O) - Cardinality(used)
            /\ Cardinality(O) \in Nat /\ Cardinality(used) <= Cardinality(O)
        BY <1>7, <1>15, RowCounts
      <3>2. memory' = memory - Cardinality(used)
        BY <1>7, <1>19 DEF AbortWriter, IsOpen
      <3> QED BY <1>7, <1>15, <3>1, <3>2, ParquetAssumption
    <2>6. RouteOK(route') /\ RoutedRows(route') = {} /\ result' = "Err" /\ AdmittedFits(route', memory')
      BY <1>19, FailureFacts
    <2>7. MemoryOK(writers', memory', route')
      BY <2>2, <2>5, <2>6 DEF MemoryOK
    <2>8. StagesOK(stage', result', route', writers', uploads', done')
      BY <1>19 DEF RouteFails, StagesOK
    <2>9. RowsOnce(route', writers', uploads', stored', done', result')
      BY <1>2, <1>14, <2>2, <2>6 DEF RowsOnce, Apart
    <2> QED BY <1>2, <1>17, <2>1, <2>3, <2>4, <2>6, <2>7, <2>8, <2>9, RowsStay DEF PoolOK
  <1> QED BY <1>3, <1>4, <1>11, <1>18, <1>19, ZenonT(60) DEF WriteSlice, Next1, IsOpen, used

(* Every step of the sink keeps its bookkeeping. *)
LEMMA ParquetStep == ParquetInv /\ ParquetNext => ParquetInv'
  <1> SUFFICES ASSUME ParquetInv, ParquetNext PROVE ParquetInv'
    OBVIOUS
  <1>1. CASE CloseFull \/ Sweep
    BY <1>1, ParquetCloses DEF CloseFull, Sweep
  <1>2. CASE WaitOldest
    BY <1>2, ParquetWaits
  <1> QED BY <1>1, <1>2, ParquetReceives, ParquetPrepareFails, ParquetRejects, ParquetMakesRoom, ParquetWrites,
             ParquetUploads, ParquetInputEnds, ParquetDrains, ParquetAges, ParquetArrival
          DEF ParquetNext, ParquetSteps

LEMMA ParquetStarts ==
    ASSUME arrived = 0, done = {}, held = {}, stored = << >>, ParquetInit
    PROVE  ParquetInv
  <1>1. /\ stage = "receive" /\ result = "Ok" /\ route = << >> /\ writers = << >> /\ lru = << >>
        /\ memory = 0 /\ uploads = << >>
    BY DEF ParquetInit
  <1>2. DOMAIN writers = {} /\ Len(lru) = 0 /\ Len(uploads) = 0 /\ Len(stored) = 0
    BY <1>1
  <1>3. 1..0 = {}
    OBVIOUS
  <1>4. InputOK(arrived, held, done) /\ StagesOK(stage, result, route, writers, uploads, done)
    BY <1>1, LeaseFeedAssumption DEF InputOK, StagesOK
  <1>5. RouteOK(route) /\ RoutedRows(route) = {} /\ AdmittedFits(route, memory)
    BY <1>1, EmptyRoute
  <1>6. OpenRows(writers) = {} /\ SentRows(uploads) = {} /\ StoredRows(stored) = {} /\ Received(done) = {}
    BY <1>2, <1>3, OpenMember, SentMember, StoredMember DEF Received
  <1>7. WritersOK(writers)
    BY <1>2 DEF WritersOK
  <1>8. LruOK(lru, DOMAIN writers)
    <2>1. lru \in Seq(DOMAIN writers)
      BY <1>1
    <2> QED BY <1>2, <1>3, <2>1 DEF LruOK
  <1>9. Len(lru) <= MaxOpen
    BY <1>2, ParquetAssumption
  <1>10. UploadsOK(uploads) /\ StoredOK(stored)
    <2>1. uploads \in Seq(UploadSet) /\ stored \in Seq(Entries)
      BY <1>1
    <2> QED BY <1>2, <1>3, <2>1 DEF UploadsOK, StoredOK
  <1>11. MemoryOK(writers, memory, route)
    <2>1. IsFiniteSet({}) /\ Cardinality({}) = 0
      BY FS_EmptySet
    <2>2. IsFiniteSet(OpenRows(writers)) /\ memory = Cardinality(OpenRows(writers))
      BY <1>1, <1>6, <2>1
    <2>3. MemoryLimit > 0 => memory <= MemoryLimit
      BY <1>1, ParquetAssumption
    <2> QED BY <1>5, <2>2, <2>3 DEF MemoryOK
  <1>12. RowsOnce(route, writers, uploads, stored, done, result)
    BY <1>5, <1>6 DEF RowsOnce, Apart
  <1> QED BY <1>4, <1>5, <1>7, <1>8, <1>9, <1>10, <1>11, <1>12 DEF ParquetInv, PoolOK

-----------------------------------------------------------------------------
(* Elasticsearch                                                            *)

RowNumbers == Nat \ {0}
PlanChunks == [start : RowNumbers, rows : Seq(RowNumbers)]

(* A chunk stands for the rows R from its start: item k is the row that start_row   *)
(* and the index say.                                                               *)
Stands(c, R, n) ==
    /\ c.start \in RowNumbers /\ c.rows \in Seq(RowNumbers)
    /\ \A k \in 1..Len(c.rows) : c.start + k - 1 \in 1..n /\ c.rows[k] = R[c.start + k - 1]

HoldsPlace(c, m) == \E k \in 1..Len(c.rows) : c.start + k - 1 = m

(* A chunk with a row more. *)
Grown(c, row) == [start |-> c.start, rows |-> Append(c.rows, row)]
KeepsPlaces(c, x) == \A m : HoldsPlace(c, m) => HoldsPlace(x, m)

(* The chunks stand for the first n rows: each row that is not too large is in one. *)
StandFor(ch, R, n) ==
    /\ \A i \in 1..Len(ch) : Stands(ch[i], R, n)
    /\ \A m \in 1..n : R[m] \notin Oversized => \E i \in 1..Len(ch) : HoldsPlace(ch[i], m)

LEMMA StandsLater ==
    ASSUME NEW c, NEW R, NEW n \in RowNumbers, Stands(c, R, n - 1)
    PROVE  Stands(c, R, n)
  <1>1. n \in Nat /\ \A m \in 1..(n - 1) : m \in 1..n
    BY DEF RowNumbers
  <1> QED BY <1>1 DEF Stands

LEMMA ChunkGrows ==
    ASSUME NEW c, NEW R, NEW n \in RowNumbers, Stands(c, R, n - 1), R[n] \in RowNumbers,
           c.start + Len(c.rows) = n, NEW x, x = Grown(c, R[n])
    PROVE  /\ x \in PlanChunks /\ Stands(x, R, n) /\ HoldsPlace(x, n)
           /\ KeepsPlaces(c, x)
  <1>1. PICK s \in RowNumbers : s = c.start
    BY DEF Stands
  <1>2. PICK rows \in Seq(RowNumbers) : rows = c.rows
    BY DEF Stands
  <1>3. PICK row \in RowNumbers : row = R[n]
    OBVIOUS
  <1>4. PICK more : more = Append(rows, row)
    OBVIOUS
  <1>5. PICK z \in Nat : z = Len(rows)
    OBVIOUS
  <1>6. /\ more \in Seq(RowNumbers) /\ Len(more) = z + 1 /\ more[z + 1] = row
        /\ \A k \in 1..z : more[k] = rows[k]
    BY <1>4, <1>5
  <1>7. x.start = s /\ x.rows = more /\ x = [start |-> s, rows |-> more]
    BY <1>1, <1>2, <1>3, <1>4 DEF Grown
  <1>8. x \in PlanChunks
    BY <1>6, <1>7 DEF PlanChunks
  <1>9. s \in Nat /\ n \in Nat /\ s + z = n
    BY <1>1, <1>2, <1>5 DEF RowNumbers
  <1>10. ASSUME NEW k \in 1..(z + 1) PROVE s + k - 1 \in 1..n /\ more[k] = R[s + k - 1]
    <2>1. CASE k = z + 1
      <3>1. s + k - 1 = n /\ n \in 1..n
        BY <1>9, <2>1 DEF RowNumbers
      <3> QED BY <1>3, <1>6, <2>1, <3>1
    <2>2. CASE k # z + 1
      <3>1. k \in 1..z
        BY <2>2
      <3>2. s + k - 1 \in 1..(n - 1) /\ rows[k] = R[s + k - 1]
        BY <1>1, <1>2, <1>5, <3>1 DEF Stands
      <3>3. s + k - 1 \in 1..n
        BY <1>9, <3>2
      <3> QED BY <1>6, <3>1, <3>2, <3>3
    <2> QED BY <2>1, <2>2
  <1>11. Stands(x, R, n)
    BY <1>6, <1>7, <1>10 DEF Stands
  <1>12. HoldsPlace(x, n)
    <2>1. z + 1 \in 1..(z + 1) /\ s + (z + 1) - 1 = n
      BY <1>9
    <2> QED BY <1>6, <1>7, <2>1 DEF HoldsPlace
  <1>13. ASSUME NEW m, HoldsPlace(c, m) PROVE HoldsPlace(x, m)
    <2>1. PICK k \in 1..z : s + k - 1 = m
      BY <1>1, <1>2, <1>5, <1>13 DEF HoldsPlace
    <2>2. k \in 1..(z + 1)
      OBVIOUS
    <2> QED BY <1>6, <1>7, <2>1, <2>2 DEF HoldsPlace
  <1> QED BY <1>8, <1>11, <1>12, <1>13 DEF KeepsPlaces

LEMMA ChunkBegins ==
    ASSUME NEW R, NEW n \in RowNumbers, R[n] \in RowNumbers, NEW x, x = [start |-> n, rows |-> <<R[n]>>]
    PROVE  x \in PlanChunks /\ Stands(x, R, n) /\ HoldsPlace(x, n)
  <1>1. PICK row \in RowNumbers : row = R[n]
    OBVIOUS
  <1>2. PICK rows : rows = <<row>>
    OBVIOUS
  <1>3. rows \in Seq(RowNumbers) /\ Len(rows) = 1 /\ rows[1] = row
    BY <1>2
  <1>4. x.start = n /\ x.rows = rows /\ x = [start |-> n, rows |-> rows]
    BY <1>1, <1>2
  <1>5. n \in Nat /\ n + 1 - 1 = n /\ n \in 1..n /\ \A k \in 1..1 : k = 1
    BY DEF RowNumbers
  <1>6. Stands(x, R, n)
    BY <1>1, <1>3, <1>4, <1>5 DEF Stands
  <1>7. HoldsPlace(x, n)
    <2>1. 1 \in 1..1
      OBVIOUS
    <2> QED BY <1>3, <1>4, <1>5, <2>1 DEF HoldsPlace
  <1> QED BY <1>3, <1>4, <1>6, <1>7 DEF PlanChunks

(* A row more. *)
LEMMA RowIsAdded ==
    ASSUME NEW R, NEW n \in RowNumbers, R[n] \in RowNumbers, NEW ch \in Seq(PlanChunks),
           StandFor(ch, R, n - 1), NEW new, new = AddRow(ch, R[n], n)
    PROVE  new \in Seq(PlanChunks) /\ StandFor(new, R, n)
  <1>1. PICK c \in Nat : c = Len(ch)
    OBVIOUS
  <1>2. PICK row : row = R[n]
    OBVIOUS
  <1>3. n \in Nat /\ \A m \in 1..n : m # n => m \in 1..(n - 1)
    BY DEF RowNumbers
  <1>4. \A i \in 1..c : ch[i] \in PlanChunks /\ Stands(ch[i], R, n - 1) /\ Stands(ch[i], R, n)
    BY <1>1, StandsLater DEF StandFor
  <1>5. \A m \in 1..n : m # n /\ R[m] \notin Oversized => \E i \in 1..c : HoldsPlace(ch[i], m)
    BY <1>1, <1>3 DEF StandFor
  <1>6. CASE row \in Oversized
    <2>1. new = ch
      BY <1>2, <1>6 DEF AddRow
    <2> QED BY <1>1, <1>2, <1>4, <1>5, <1>6, <2>1 DEF StandFor
  <1>7. CASE row \notin Oversized
    <2>1. PICK last : last = ch[c]
      OBVIOUS
    <2>2. CASE ch # << >> /\ Len(last.rows) < ChunkRows /\ last.start + Len(last.rows) = n
      <3>1. c \in 1..c
        BY <1>1, <2>2
      <3>2. PICK x : x = Grown(last, R[n])
        OBVIOUS
      <3>3. last \in PlanChunks /\ Stands(last, R, n - 1)
        BY <1>4, <2>1, <3>1
      <3>4. /\ x \in PlanChunks /\ Stands(x, R, n) /\ HoldsPlace(x, n)
            /\ KeepsPlaces(last, x)
        BY <2>2, <3>2, <3>3, ChunkGrows
      <3>5. new = [ch EXCEPT ![c] = x]
        <4>1. new = [ch EXCEPT ![Len(ch)].rows = Append(@, row)]
          BY <1>1, <1>2, <1>7, <2>1, <2>2 DEF AddRow, Last
        <4>2. [last EXCEPT !.rows = Append(@, row)] = x
          <5>1. last = [start |-> last.start, rows |-> last.rows]
            BY <3>3 DEF PlanChunks
          <5>2. PICK a, b : a = last.start /\ b = last.rows
            OBVIOUS
          <5>3. PICK d : d = Append(b, row)
            OBVIOUS
          <5>4. last = [start |-> a, rows |-> b] /\ x = [start |-> a, rows |-> d]
            BY <1>2, <3>2, <5>1, <5>2, <5>3 DEF Grown
          <5>5. [last EXCEPT !.rows = d] = x
            BY <5>4
          <5> QED BY <5>2, <5>3, <5>5
        <4> QED BY <1>1, <2>1, <4>1, <4>2
      <3>6. new \in Seq(PlanChunks) /\ Len(new) = c /\ new[c] = x /\ \A i \in 1..c : i # c => new[i] = ch[i]
        BY <1>1, <3>1, <3>4, <3>5
      <3>7. \A i \in 1..c : Stands(new[i], R, n)
        BY <1>4, <3>4, <3>6
      <3>8. ASSUME NEW m \in 1..n, R[m] \notin Oversized PROVE \E i \in 1..c : HoldsPlace(new[i], m)
        <4>1. CASE m = n
          BY <3>1, <3>4, <3>6, <4>1
        <4>2. CASE m # n
          <5>1. PICK i \in 1..c : HoldsPlace(ch[i], m)
            BY <1>5, <3>8, <4>2
          <5>2. HoldsPlace(new[i], m)
            BY <2>1, <3>4, <3>6, <5>1 DEF KeepsPlaces
          <5> QED BY <5>2
        <4> QED BY <4>1, <4>2
      <3> QED BY <3>6, <3>7, <3>8 DEF StandFor
    <2>3. CASE ~(ch # << >> /\ Len(last.rows) < ChunkRows /\ last.start + Len(last.rows) = n)
      <3>1. PICK x : x = [start |-> n, rows |-> <<R[n]>>]
        OBVIOUS
      <3>2. x \in PlanChunks /\ Stands(x, R, n) /\ HoldsPlace(x, n)
        BY <3>1, ChunkBegins
      <3>3. new = Append(ch, x)
        BY <1>1, <1>2, <1>7, <2>1, <2>3, <3>1 DEF AddRow, Last
      <3>4. new \in Seq(PlanChunks) /\ Len(new) = c + 1 /\ new[c + 1] = x /\ \A i \in 1..c : new[i] = ch[i]
        BY <1>1, <3>2, <3>3
      <3>5. c + 1 \in 1..(c + 1) /\ \A i \in 1..(c + 1) : i # c + 1 => i \in 1..c
        OBVIOUS
      <3>6. \A i \in 1..c : i \in 1..(c + 1)
        OBVIOUS
      <3>7. \A i \in 1..(c + 1) : Stands(new[i], R, n)
        BY <1>4, <3>2, <3>4, <3>5
      <3>8. ASSUME NEW m \in 1..n, R[m] \notin Oversized PROVE \E i \in 1..(c + 1) : HoldsPlace(new[i], m)
        <4>1. CASE m = n
          BY <3>2, <3>4, <3>5, <4>1
        <4>2. CASE m # n
          <5>1. PICK i \in 1..c : HoldsPlace(ch[i], m)
            BY <1>5, <3>8, <4>2
          <5>2. i \in 1..(c + 1) /\ HoldsPlace(new[i], m)
            BY <3>4, <3>6, <5>1
          <5> QED BY <5>2
        <4> QED BY <4>1, <4>2
      <3> QED BY <3>4, <3>7, <3>8 DEF StandFor
    <2> QED BY <2>2, <2>3
  <1> QED BY <1>6, <1>7

(* The rows of a lease: all that are not empty, each at its place. *)
LEMMA RowsOfFacts ==
    ASSUME NEW l, LeaseOK(l), NEW R, R = RowsOf(l)
    PROVE  /\ R \in Seq(RowNumbers) /\ Len(R) \in Nat
           /\ \A m \in 1..Len(R) : R[m] \in RowNumbers /\ R[m] \in Seqs(l)
           /\ \A s \in Seqs(l) \ Empty : \E m \in 1..Len(R) : R[m] = s
  <1>1. PICK S : S = Seqs(l) \ Empty
    OBVIOUS
  <1>2. PICK n \in Nat : n = l.last
    BY DEF LeaseOK
  <1>3. S \in SUBSET (1..n)
    BY <1>1, <1>2 DEF Seqs, LeaseOK
  <1>4. PICK c \in Nat : c = Cardinality(S)
    BY <1>3, AscendingOnce
  <1>5. R = Ascending(S)
    BY <1>1 DEF RowsOf
  <1>6. /\ R = [k \in 1..c |-> R[k]]
        /\ \A k \in 1..c : R[k] \in S
        /\ \A x \in S : \E k \in 1..c : R[k] = x
    BY <1>3, <1>4, <1>5, AscendingOnce
  <1>7. \A x \in S : x \in RowNumbers
    BY <1>3 DEF RowNumbers
  <1>8. R \in Seq(RowNumbers) /\ Len(R) = c
    BY <1>6, <1>7
  <1> QED BY <1>1, <1>6, <1>7, <1>8

(* What the recursion that plans the chunks has after each row. *)
PlansRows(f, R, m) ==
    /\ f[0] = << >>
    /\ \A i \in 1..m : f[i] = AddRow(f[i - 1], R[i], i)

PlannedTo(f, R, i) == f[i] \in Seq(PlanChunks) /\ StandFor(f[i], R, i)

LEMMA PlanGoesOn ==
    ASSUME NEW R, NEW N \in Nat, \A i \in 1..N : R[i] \in RowNumbers,
           NEW f, PlansRows(f, R, N), NEW n \in 0..N
    PROVE  PlannedTo(f, R, n)
  <1> SUFFICES ASSUME ~PlannedTo(f, R, n) PROVE FALSE
    OBVIOUS
  <1> DEFINE Bad == {m \in 0..N : ~PlannedTo(f, R, m)}
  <1>1. Bad \in SUBSET Nat /\ Bad # {}
    OBVIOUS
  <1>2. PICK m \in Bad : \A k \in Bad : m <= k
    BY <1>1, LeastOf
  <1>3. m \in 0..N /\ m \in Nat /\ ~PlannedTo(f, R, m)
    BY <1>2
  <1>4. CASE m = 0
    <2>1. f[0] = << >> /\ Len(f[0]) = 0 /\ f[0] \in Seq(PlanChunks)
      BY DEF PlansRows
    <2>2. StandFor(f[0], R, 0)
      BY <2>1 DEF StandFor
    <2> QED BY <1>3, <1>4, <2>1, <2>2 DEF PlannedTo
  <1>5. CASE m # 0
    <2>1. m - 1 \in 0..N /\ ~(m <= m - 1) /\ m \in 1..N /\ m \in RowNumbers
      BY <1>3, <1>5 DEF RowNumbers
    <2>2. PlannedTo(f, R, m - 1)
      BY <1>2, <2>1
    <2>3. f[m] = AddRow(f[m - 1], R[m], m)
      BY <2>1 DEF PlansRows
    <2>4. PICK ch \in Seq(PlanChunks) : ch = f[m - 1]
      BY <2>2 DEF PlannedTo
    <2>5. StandFor(ch, R, m - 1) /\ R[m] \in RowNumbers
      BY <2>1, <2>2, <2>4 DEF PlannedTo
    <2>6. PICK new : new = AddRow(ch, R[m], m)
      OBVIOUS
    <2>7. new \in Seq(PlanChunks) /\ StandFor(new, R, m)
      BY <2>1, <2>4, <2>5, <2>6, RowIsAdded
    <2> QED BY <1>3, <2>3, <2>4, <2>6, <2>7 DEF PlannedTo
  <1> QED BY <1>4, <1>5

IsPlan(f, R, N) == f = [n \in 0..N |-> IF n = 0 THEN << >> ELSE AddRow(f[n - 1], R[n], n)]

(* The recursion is well defined. *)
LEMMA PlanExists ==
    ASSUME NEW R, NEW N \in Nat
    PROVE  \E f : IsPlan(f, R, N)
  <1> DEFINE Known(m) == \E f : DOMAIN f = 0..m /\ f = [i \in 0..m |-> f[i]] /\ PlansRows(f, R, m)
  <1>1. Known(N)
    <2> SUFFICES ASSUME ~Known(N) PROVE FALSE
      OBVIOUS
    <2> DEFINE Bad == {m \in 0..N : ~Known(m)}
    <2> HIDE DEF Known
    <2>1. Bad \in SUBSET Nat /\ Bad # {}
      OBVIOUS
    <2>2. PICK m \in Bad : \A k \in Bad : m <= k
      BY <2>1, LeastOf
    <2>3. m \in 0..N /\ m \in Nat /\ ~Known(m)
      BY <2>2
    <2>4. CASE m = 0
      <3> DEFINE f == [i \in 0..0 |-> << >>]
      <3>1. DOMAIN f = 0..m /\ f = [i \in 0..m |-> f[i]] /\ PlansRows(f, R, m)
        BY <2>4 DEF PlansRows
      <3> QED BY <2>3, <3>1 DEF Known
    <2>5. CASE m # 0
      <3>1. m - 1 \in 0..N /\ ~(m <= m - 1)
        BY <2>3, <2>5
      <3>2. Known(m - 1)
        BY <2>2, <3>1
      <3>3. PICK g : PlansRows(g, R, m - 1)
        BY <3>2 DEF Known
      <3>4. PICK last : last = AddRow(g[m - 1], R[m], m)
        OBVIOUS
      <3> DEFINE f == [i \in 0..m |-> IF i = m THEN last ELSE g[i]]
      <3>5. f[0] = << >>
        BY <2>3, <2>5, <3>3 DEF PlansRows
      <3>6. ASSUME NEW i \in 1..m PROVE f[i] = AddRow(f[i - 1], R[i], i)
        <4>1. i - 1 # m /\ i - 1 \in 0..m /\ i \in 0..m
          BY <2>3
        <4>2. f[i - 1] = g[i - 1]
          BY <4>1
        <4>3. CASE i = m
          BY <3>4, <4>1, <4>2, <4>3
        <4>4. CASE i # m
          <5>1. i \in 1..(m - 1) /\ f[i] = g[i]
            BY <2>3, <4>1, <4>4
          <5> QED BY <3>3, <4>2, <5>1 DEF PlansRows
        <4> QED BY <4>3, <4>4
      <3>7. DOMAIN f = 0..m /\ f = [i \in 0..m |-> f[i]]
        OBVIOUS
      <3>8. PlansRows(f, R, m)
        BY <3>5, <3>6 DEF PlansRows
      <3> QED BY <2>3, <3>7, <3>8 DEF Known
    <2> QED BY <2>4, <2>5
  <1>2. PICK f : f = [i \in 0..N |-> f[i]] /\ PlansRows(f, R, N)
    BY <1>1
  <1>3. ASSUME NEW n \in 0..N PROVE f[n] = IF n = 0 THEN << >> ELSE AddRow(f[n - 1], R[n], n)
    <2>1. n # 0 => n \in 1..N
      OBVIOUS
    <2> QED BY <1>2, <2>1 DEF PlansRows
  <1>4. IsPlan(f, R, N)
    BY <1>2, <1>3 DEF IsPlan
  <1> QED BY <1>4

(* The chunks of a lease stand for its rows. *)
LEMMA ChunksOfFacts ==
    ASSUME NEW l, LeaseOK(l), NEW R, R = RowsOf(l)
    PROVE  ChunksOf(l) \in Seq(PlanChunks) /\ StandFor(ChunksOf(l), R, Len(R))
  <1>1. PICK N \in Nat : N = Len(R)
    BY RowsOfFacts
  <1>2. \A i \in 1..N : R[i] \in RowNumbers
    BY <1>1, RowsOfFacts
  <1>3. PICK F : F = CHOOSE f : IsPlan(f, R, Len(R))
    OBVIOUS
  <1>4. IsPlan(F, R, Len(R)) /\ ChunksOf(l) = F[Len(R)]
    <2>1. \E f : IsPlan(f, R, N)
      BY PlanExists
    <2>2. IsPlan(F, R, Len(R))
      BY <1>1, <1>3, <2>1
    <2>3. ChunksOf(l) = F[Len(R)]
      BY <1>3 DEF ChunksOf, IsPlan
    <2> QED BY <2>2, <2>3
  <1>5. PlansRows(F, R, N)
    <2>1. 0 \in 0..Len(R)
      BY <1>1
    <2>2. F[0] = << >>
      BY <1>4, <2>1 DEF IsPlan
    <2>3. ASSUME NEW i \in 1..N PROVE F[i] = AddRow(F[i - 1], R[i], i)
      <3>1. i \in 0..Len(R) /\ i # 0
        BY <1>1
      <3>2. F[i] = IF i = 0 THEN << >> ELSE AddRow(F[i - 1], R[i], i)
        BY <1>4, <3>1, Zenon DEF IsPlan
      <3> QED BY <3>1, <3>2
    <2> QED BY <2>2, <2>3 DEF PlansRows
  <1>6. PlannedTo(F, R, N)
    <2>1. N \in 0..N
      OBVIOUS
    <2> QED BY <1>2, <1>5, <2>1, PlanGoesOn
  <1> QED BY <1>1, <1>4, <1>6 DEF PlannedTo

ChunkStates == {"todo", "sending", "answered", "Transient", "Rejected", "Fatal"}
TaskChunks ==
    [start : RowNumbers, rows : Seq(RowNumbers), state : ChunkStates, active : SUBSET Nat,
     refused : SUBSET Nat, attempt : Nat]

(* An item of a chunk is still to be sent, or was refused, or is in the index.      *)
ItemKnown(c, k) ==
    k \in c.refused \/ HasPart(c.rows[k], 0) \/ (c.state # "answered" /\ k \in c.active)

ItemsKnown(c) ==
    /\ c.active \subseteq 1..Len(c.rows) /\ c.refused \subseteq 1..Len(c.rows)
    /\ \A k \in 1..Len(c.rows) : ItemKnown(c, k)

TaskOK(t) ==
    /\ t = [lease |-> t.lease, chunks |-> t.chunks]
    /\ LeaseOK(t.lease) /\ t.chunks \in Seq(TaskChunks)
    /\ StandFor(t.chunks, RowsOf(t.lease), Len(RowsOf(t.lease)))
    /\ \A i \in 1..Len(t.chunks) : ItemsKnown(t.chunks[i])

ElasticsearchInv == FeedOK /\ ClaimsStored({0}) /\ \A t \in tasks : TaskOK(t)

(* The rows of a lease do not change. *)
LEMMA SameRows ==
    ASSUME workload' = workload
    PROVE  /\ \A l : RowsOf(l)' = RowsOf(l)
           /\ \A ch, R, n : StandFor(ch, R, n) => StandFor(ch, R, n)'
  <1>1. Empty' = Empty /\ Oversized' = Oversized
    BY DEF Empty, Oversized, OfKind
  <1> QED BY <1>1 DEF RowsOf, StandFor

(* What is in the index stays there, so a task that is left alone is as it was. *)
LEMMA ItemsStay ==
    ASSUME NEW c, ItemsKnown(c), Grows
    PROVE  ItemsKnown(c)'
  <1>1. \A s : HasPart(s, 0) => HasPart(s, 0)'
    BY DEF Grows
  <1> QED BY <1>1 DEF ItemsKnown, ItemKnown

LEMMA TaskStays ==
    ASSUME NEW t, TaskOK(t), Grows, workload' = workload
    PROVE  TaskOK(t)'
  <1>1. RowsOf(t.lease)' = RowsOf(t.lease)
    BY SameRows
  <1>2. PICK R : R = RowsOf(t.lease)
    OBVIOUS
  <1>3. StandFor(t.chunks, R, Len(R))'
    <2>1. StandFor(t.chunks, R, Len(R))
      BY <1>2 DEF TaskOK
    <2> QED BY <2>1, SameRows
  <1>4. \A i \in 1..Len(t.chunks) : ItemsKnown(t.chunks[i])'
    BY ItemsStay DEF TaskOK
  <1>5. StandFor(t.chunks, RowsOf(t.lease), Len(RowsOf(t.lease)))'
    BY <1>1, <1>2, <1>3
  <1> QED BY <1>4, <1>5 DEF TaskOK, LeaseOK

LEMMA ChunkIs ==
    ASSUME NEW t, TaskOK(t), NEW i \in 1..Len(t.chunks), NEW c, c = t.chunks[i]
    PROVE  /\ c \in TaskChunks /\ ItemsKnown(c)
           /\ c.start \in RowNumbers /\ c.rows \in Seq(RowNumbers) /\ Len(c.rows) \in Nat
           /\ c.active \subseteq 1..Len(c.rows) /\ c.refused \subseteq 1..Len(c.rows) /\ c.attempt \in Nat
  <1>1. c \in TaskChunks /\ ItemsKnown(c)
    BY DEF TaskOK
  <1>2. c.start \in RowNumbers /\ c.rows \in Seq(RowNumbers) /\ c.attempt \in Nat
    BY <1>1 DEF TaskChunks
  <1> QED BY <1>1, <1>2 DEF ItemsKnown

(* A chunk with the same rows in another state. *)
SameItems(c, d) == d \in TaskChunks /\ d.start = c.start /\ d.rows = c.rows

LEMMA ChunkChanges ==
    ASSUME NEW t, TaskOK(t), NEW i \in 1..Len(t.chunks), NEW c, c = t.chunks[i],
           NEW d, SameItems(c, d), ItemsKnown(d)', Grows, workload' = workload,
           NEW u, u = [t EXCEPT !.chunks[i] = d]
    PROVE  TaskOK(u)'
  <1>1. PICK l : l = t.lease
    OBVIOUS
  <1>2. PICK ch \in Seq(TaskChunks) : ch = t.chunks
    BY DEF TaskOK
  <1>3. PICK new : new = [ch EXCEPT ![i] = d]
    OBVIOUS
  <1>4. t = [lease |-> l, chunks |-> ch]
    BY <1>1, <1>2 DEF TaskOK
  <1>5. u = [lease |-> l, chunks |-> new]
    <2>1. [t.chunks EXCEPT ![i] = d] = new
      BY <1>2, <1>3
    <2>2. u = [t EXCEPT !.chunks = new]
      BY <2>1, Zenon
    <2> QED BY <1>4, <2>2
  <1>6. u.lease = l /\ u.chunks = new
    BY <1>5
  <1>7. PICK n \in Nat : n = Len(ch)
    OBVIOUS
  <1>8. i \in 1..n /\ ch[i] = c /\ d \in TaskChunks
    BY <1>2, <1>7 DEF SameItems
  <1>9. new \in Seq(TaskChunks) /\ Len(new) = n /\ new[i] = d /\ \A j \in 1..n : j # i => new[j] = ch[j]
    BY <1>3, <1>7, <1>8
  <1>10. PICK R : R = RowsOf(l)
    OBVIOUS
  <1>11. StandFor(ch, R, Len(R)) /\ LeaseOK(l) /\ \A j \in 1..n : ItemsKnown(ch[j])
    BY <1>1, <1>2, <1>7, <1>10 DEF TaskOK
  <1>12. StandFor(new, R, Len(R))
    <2>1. \A j \in 1..n : new[j].start = ch[j].start /\ new[j].rows = ch[j].rows
      BY <1>8, <1>9 DEF SameItems
    <2>2. \A j \in 1..n : Stands(new[j], R, Len(R))
      <3> SUFFICES ASSUME NEW j \in 1..n PROVE Stands(new[j], R, Len(R))
        OBVIOUS
      <3>1. Stands(ch[j], R, Len(R))
        BY <1>7, <1>11 DEF StandFor
      <3> QED BY <2>1, <3>1 DEF Stands
    <2>3. ASSUME NEW m, NEW j \in 1..n, HoldsPlace(ch[j], m) PROVE HoldsPlace(new[j], m)
      BY <2>1, <2>3 DEF HoldsPlace
    <2> QED BY <1>7, <1>9, <1>11, <2>2, <2>3 DEF StandFor
  <1>13. StandFor(new, R, Len(R))' /\ RowsOf(l)' = R
    BY <1>10, <1>12, SameRows
  <1>14. \A j \in 1..n : ItemsKnown(new[j])'
    BY <1>9, <1>11, ItemsStay
  <1> QED BY <1>5, <1>6, <1>9, <1>11, <1>13, <1>14 DEF TaskOK, LeaseOK

(* The rows of some items of a chunk become visible. *)
LEMMA IndexFacts ==
    ASSUME NEW c, c.rows \in Seq(RowNumbers), NEW S \in SUBSET (1..Len(c.rows)), stored \in Seq(Entries),
           Index(c, S)
    PROVE  /\ stored' \in Seq(Entries) /\ Grows
           /\ \A k \in S : HasPart(c.rows[k], 0)'
  <1>1. PICK rows \in Seq(RowNumbers) : rows = c.rows
    OBVIOUS
  <1>2. PICK v : v = AtPlaces(rows, S)
    OBVIOUS
  <1>3. PICK z \in Nat : z = Cardinality(S)
    BY <1>1, PlacesKept
  <1>4. v \in Seq(RowNumbers) /\ Len(v) = z /\ Keeps(v, rows, S)
    BY <1>1, <1>2, <1>3, PlacesKept
  <1>5. PICK e : e = [k \in 1..z |-> [first |-> v[k], last |-> v[k], part |-> 0]]
    OBVIOUS
  <1>6. ASSUME NEW k \in 1..z
        PROVE  e[k] \in Entries /\ e[k].first = v[k] /\ e[k].last = v[k] /\ e[k].part = 0 /\ v[k] \in Nat
    <2>1. v[k] \in RowNumbers
      BY <1>4
    <2>2. v[k] \in Nat \ {0} /\ e[k] = [first |-> v[k], last |-> v[k], part |-> 0]
      BY <1>5, <2>1 DEF RowNumbers
    <2> QED BY <2>2 DEF Entries
  <1>7. e \in Seq(Entries) /\ Len(e) = z
    BY <1>5, <1>6
  <1>8. PICK n \in Nat : n = Len(stored)
    OBVIOUS
  <1>9. stored' = stored \o e
    BY <1>1, <1>2, <1>3, <1>5 DEF Index
  <1>10. PICK w : w = stored'
    OBVIOUS
  <1>11. PICK st \in Seq(Entries) : st = stored
    OBVIOUS
  <1>12. w = st \o e /\ n = Len(st)
    BY <1>8, <1>9, <1>10, <1>11
  <1>13. w \in Seq(Entries) /\ Len(w) = n + z /\ \A i \in 1..(n + z) : w[i] = IF i <= n THEN st[i] ELSE e[i - n]
    BY ONLY <1>7, <1>12, ConcatProperties
  <1>14. \A i \in 1..n : i \in 1..(n + z) /\ w[i] = st[i]
    BY <1>13
  <1>15. ASSUME NEW k \in 1..z PROVE n + k \in 1..(n + z) /\ w[n + k] = e[k]
    <2>1. n + k \in 1..(n + z) /\ ~(n + k <= n) /\ (n + k) - n = k
      OBVIOUS
    <2> QED BY <1>13, <2>1
  <1>16. Grows
    <2> SUFFICES ASSUME NEW s, NEW q, HasPart(s, q) PROVE HasPart(s, q)'
      BY DEF Grows
    <2>1. PICK i \in 1..n : s \in Seqs(st[i]) /\ st[i].part = q
      BY <1>8, <1>11 DEF HasPart
    <2>2. i \in 1..Len(stored') /\ stored'[i] = st[i]
      BY <1>10, <1>13, <1>14
    <2> QED BY <2>1, <2>2 DEF HasPart
  <1>17. ASSUME NEW k \in S PROVE HasPart(c.rows[k], 0)'
    <2>1. \E a : /\ \A j \in 1..Cardinality(S) : v[j] = rows[a[j]]
                 /\ \A x \in S : \E j \in 1..Cardinality(S) : a[j] = x
      BY <1>4, Zenon DEF Keeps
    <2>2. PICK j \in 1..z : v[j] = rows[k]
      BY <1>3, <2>1
    <2>3. n + j \in 1..Len(stored') /\ stored'[n + j] = e[j]
      BY <1>10, <1>13, <1>15
    <2>4. PICK r \in Nat : r = rows[k]
      BY <1>6, <2>2
    <2>5. e[j].first = r /\ e[j].last = r /\ e[j].part = 0 /\ r \in r..r
      BY <1>6, <2>2, <2>4
    <2>6. rows[k] \in Seqs(e[j]) /\ e[j].part = 0
      BY <2>4, <2>5 DEF Seqs
    <2> QED BY <1>1, <2>3, <2>6 DEF HasPart
  <1> QED BY <1>10, <1>13, <1>16, <1>17

(* The task of a new lease: every item is still to be sent. *)
LEMMA NewTaskFacts ==
    ASSUME NEW l, LeaseOK(l)
    PROVE  TaskOK(NewTask(l))
  <1>1. PICK R : R = RowsOf(l)
    OBVIOUS
  <1>2. PICK ch \in Seq(PlanChunks) : ch = ChunksOf(l)
    BY <1>1, ChunksOfFacts
  <1>3. StandFor(ch, R, Len(R))
    BY <1>1, <1>2, ChunksOfFacts
  <1>4. PICK n \in Nat : n = Len(ch)
    OBVIOUS
  <1>5. PICK new : new = [i \in 1..n |->
            [start |-> ch[i].start, rows |-> ch[i].rows, state |-> "todo",
             active |-> 1..Len(ch[i].rows), refused |-> {}, attempt |-> 0]]
    OBVIOUS
  <1>6. NewTask(l) = [lease |-> l, chunks |-> new]
    BY <1>2, <1>4, <1>5 DEF NewTask
  <1>7. ASSUME NEW i \in 1..n
        PROVE  /\ new[i] \in TaskChunks /\ ItemsKnown(new[i])
               /\ new[i].start = ch[i].start /\ new[i].rows = ch[i].rows
    <2>1. ch[i] \in PlanChunks
      BY <1>4
    <2>2. PICK a \in RowNumbers : a = ch[i].start
      BY <2>1 DEF PlanChunks
    <2>3. PICK rows \in Seq(RowNumbers) : rows = ch[i].rows
      BY <2>1 DEF PlanChunks
    <2>4. PICK act \in SUBSET Nat : act = 1..Len(rows)
      OBVIOUS
    <2>5. PICK c : c = new[i]
      OBVIOUS
    <2>6. c = [start |-> a, rows |-> rows, state |-> "todo", active |-> act, refused |-> {}, attempt |-> 0]
      BY <1>5, <2>2, <2>3, <2>4, <2>5
    <2>7. c \in TaskChunks
      BY <2>6 DEF TaskChunks, ChunkStates
    <2>8. c.start = a /\ c.rows = rows /\ c.state = "todo" /\ c.active = act /\ c.refused = {}
      BY <2>6
    <2>9. ItemsKnown(c)
      BY <2>4, <2>8 DEF ItemsKnown, ItemKnown
    <2> QED BY <2>2, <2>3, <2>5, <2>7, <2>8, <2>9
  <1>8. new \in Seq(TaskChunks) /\ Len(new) = n
    <2>1. new = [i \in 1..n |-> new[i]]
      BY <1>5
    <2> QED BY <1>7, <2>1
  <1>9. StandFor(new, R, Len(R))
    <2>1. ASSUME NEW i \in 1..n PROVE Stands(new[i], R, Len(R))
      <3>1. Stands(ch[i], R, Len(R))
        BY <1>3, <1>4 DEF StandFor
      <3> QED BY <1>7, <3>1 DEF Stands
    <2>2. ASSUME NEW i \in 1..n, NEW m, HoldsPlace(ch[i], m) PROVE HoldsPlace(new[i], m)
      BY <1>7, <2>2 DEF HoldsPlace
    <2> QED BY <1>3, <1>4, <1>8, <2>1, <2>2 DEF StandFor
  <1>10. PICK t : t = NewTask(l)
    OBVIOUS
  <1>11. t = [lease |-> l, chunks |-> new]
    BY <1>6, <1>10
  <1>12. t.lease = l /\ t.chunks = new
    BY <1>11
  <1>13. TaskOK(t)
    BY <1>1, <1>7, <1>8, <1>9, <1>11, <1>12 DEF TaskOK
  <1> QED BY <1>10, <1>13

(* A step that adds nothing to what is claimed, and starts or continues tasks. *)
LEMMA TasksGoOn ==
    ASSUME ElasticsearchInv, FeedOK', Claims' \subseteq Claims, Grows, workload' = workload,
           \A u \in tasks' : u \in tasks \/ TaskOK(u)'
    PROVE  ElasticsearchInv'
  <1>1. ClaimsStored({0})'
    BY ClaimsKept DEF ElasticsearchInv, ClaimsStored
  <1>2. \A u \in tasks' : TaskOK(u)'
    BY TaskStays DEF ElasticsearchInv
  <1> QED BY <1>1, <1>2 DEF ElasticsearchInv

LEMMA TaskStarts ==
    ASSUME ElasticsearchInv, NEW l, StartTask(l)
    PROVE  ElasticsearchInv'
  <1>1. /\ Take(l) /\ tasks' = tasks \cup {NewTask(l)}
        /\ UNCHANGED <<workload, arrived, done, quarantined, restarts, stored>>
    BY DEF StartTask
  <1>2. FeedOK' /\ LeaseOK(l)
    BY <1>1, FeedTakes DEF ElasticsearchInv
  <1>3. Claims' = Claims /\ Grows
    BY <1>1, ClaimsSame, SameStored
  <1>4. PICK u : u = NewTask(l)
    OBVIOUS
  <1>5. TaskOK(u)
    BY <1>2, <1>4, NewTaskFacts
  <1>6. TaskOK(u)'
    BY <1>1, <1>3, <1>5, TaskStays
  <1> QED BY <1>1, <1>2, <1>3, <1>4, <1>6, TasksGoOn

LEMMA TaskNotStarted ==
    ASSUME ElasticsearchInv, NEW l, FailUnprepared(l) \/ SkipEmptyTask(l)
    PROVE  ElasticsearchInv'
  <1>1. /\ held' \subseteq held /\ Claims' \subseteq Claims
        /\ UNCHANGED <<workload, arrived, restarts, stored, tasks>>
    <2>1. CASE FailUnprepared(l)
      <3>1. FailBuffer(l) /\ UNCHANGED <<workload, arrived, restarts, stored, tasks>>
        BY <2>1 DEF FailUnprepared
      <3>2. UNCHANGED <<done, quarantined>> /\ held' \subseteq held
        BY <3>1 DEF FailBuffer
      <3> QED BY <3>1, <3>2, ClaimsSame
    <2>2. CASE SkipEmptyTask(l)
      <3>1. AckEmpty(l) /\ UNCHANGED tasks
        BY <2>2 DEF SkipEmptyTask
      <3> QED BY <3>1, AckEmptyFacts
    <2> QED BY <2>1, <2>2
  <1>2. FeedOK' /\ Grows
    BY <1>1, FeedStays, SameStored DEF ElasticsearchInv
  <1> QED BY <1>1, <1>2, TasksGoOn

(* A chunk of a task is replaced, with the index as it is or longer. *)
LEMMA ChunkMoves ==
    ASSUME ElasticsearchInv, NEW t \in tasks, NEW i \in 1..Len(t.chunks), NEW c, c = t.chunks[i],
           NEW d, SameItems(c, d), ItemsKnown(d)', SetChunk(t, i, d), SameHeld,
           stored' \in Seq(Entries), Grows
    PROVE  ElasticsearchInv'
  <1>1. UNCHANGED <<workload, arrived, done, quarantined, held, restarts>>
    BY DEF SameHeld
  <1>2. Claims' = Claims /\ FeedOK'
    BY <1>1, ClaimsSame, FeedKept DEF ElasticsearchInv, FeedOK
  <1>3. PICK u : u = [t EXCEPT !.chunks[i] = d]
    OBVIOUS
  <1>4. TaskOK(t)
    BY DEF ElasticsearchInv
  <1>5. TaskOK(u)'
    BY <1>1, <1>3, <1>4, ChunkChanges
  <1>6. \A x \in tasks' : x \in tasks \/ x = u
    BY <1>3 DEF SetChunk
  <1> QED BY <1>1, <1>2, <1>5, <1>6, TasksGoOn

(* A chunk after an answer. *)
With(c, st, act, ref, att) ==
    [start |-> c.start, rows |-> c.rows, state |-> st, active |-> act, refused |-> ref, attempt |-> att]

LEMMA ChunkFields ==
    ASSUME NEW c \in TaskChunks
    PROVE  c = With(c, c.state, c.active, c.refused, c.attempt)
  BY DEF TaskChunks, With

LEMMA WithFields ==
    ASSUME NEW c \in TaskChunks, NEW st \in ChunkStates, NEW act \in SUBSET Nat, NEW ref \in SUBSET Nat,
           NEW att \in Nat, NEW d, d = With(c, st, act, ref, att)
    PROVE  SameItems(c, d) /\ d.rows = c.rows /\ d.state = st /\ d.active = act /\ d.refused = ref
  <1>1. c.start \in RowNumbers /\ c.rows \in Seq(RowNumbers)
    BY DEF TaskChunks
  <1>2. PICK a \in RowNumbers : a = c.start
    BY <1>1
  <1>3. PICK rows \in Seq(RowNumbers) : rows = c.rows
    BY <1>1
  <1>4. d = [start |-> a, rows |-> rows, state |-> st, active |-> act, refused |-> ref, attempt |-> att]
    BY <1>2, <1>3 DEF With
  <1>5. d \in TaskChunks
    BY <1>4 DEF TaskChunks
  <1>6. d.start = a /\ d.rows = rows /\ d.state = st /\ d.active = act /\ d.refused = ref
    BY <1>4
  <1> QED BY <1>2, <1>3, <1>5, <1>6 DEF SameItems

Answered(c, X) == [c EXCEPT !.state = "answered", !.refused = @ \cup X]

LEMMA ChunkUpdates ==
    ASSUME NEW c \in TaskChunks
    PROVE  /\ \A st : [c EXCEPT !.state = st] = With(c, st, c.active, c.refused, c.attempt)
           /\ \A X : Answered(c, X) = With(c, "answered", c.active, c.refused \cup X, c.attempt)
           /\ \E st \in {c.state, "Transient"} :
                  /\ Retry(c) = With(c, st, c.active, c.refused, c.attempt + 1)
                  /\ \A busy : RetryItems(c, busy) = With(c, st, busy, c.refused \cup Refused(c), c.attempt + 1)
  <1>1. PICK a, rows, s, act, ref, att :
            /\ a = c.start /\ rows = c.rows /\ s = c.state /\ act = c.active /\ ref = c.refused /\ att = c.attempt
    OBVIOUS
  <1>2. c = [start |-> a, rows |-> rows, state |-> s, active |-> act, refused |-> ref, attempt |-> att]
    BY <1>1, ChunkFields DEF With
  <1>3. \A st, A, X, n : With(c, st, A, X, n)
            = [start |-> a, rows |-> rows, state |-> st, active |-> A, refused |-> X, attempt |-> n]
    BY <1>1 DEF With
  <1>4. ASSUME NEW st PROVE [c EXCEPT !.state = st] = With(c, st, act, ref, att)
    BY <1>2, <1>3
  <1>5. ASSUME NEW X PROVE Answered(c, X) = With(c, "answered", act, ref \cup X, att)
    <2>1. PICK Y : Y = ref \cup X
      OBVIOUS
    <2>2. [c EXCEPT !.state = "answered", !.refused = Y] = With(c, "answered", act, Y, att)
      <3>1. PICK e : e = [c EXCEPT !.state = "answered"]
        OBVIOUS
      <3>2. e = [start |-> a, rows |-> rows, state |-> "answered", active |-> act, refused |-> ref, attempt |-> att]
        BY <1>2, <3>1
      <3>3. [e EXCEPT !.refused = Y] = With(c, "answered", act, Y, att)
        BY <1>3, <3>2
      <3> QED BY <3>1, <3>3
    <2> QED BY <1>1, <2>1, <2>2 DEF Answered
  <1>6. PICK st \in {s, "Transient"} : Retry(c) = With(c, st, act, ref, att + 1)
    <2>1. PICK n : n = att + 1
      OBVIOUS
    <2>2. CASE c.attempt + 1 > MaxRetries
      <3>1. Retry(c) = [c EXCEPT !.attempt = n, !.state = "Transient"]
        BY <1>1, <2>1, <2>2 DEF Retry
      <3>2. PICK e : e = [c EXCEPT !.attempt = n]
        OBVIOUS
      <3>3. e = [start |-> a, rows |-> rows, state |-> s, active |-> act, refused |-> ref, attempt |-> n]
        BY <1>2, <3>2
      <3>4. [e EXCEPT !.state = "Transient"] = With(c, "Transient", act, ref, n)
        BY <1>3, <3>3
      <3>5. Retry(c) = With(c, "Transient", act, ref, n)
        BY <3>1, <3>2, <3>4
      <3> QED BY <2>1, <3>5
    <2>3. CASE ~(c.attempt + 1 > MaxRetries)
      <3>1. Retry(c) = [c EXCEPT !.attempt = n]
        BY <1>1, <2>1, <2>3 DEF Retry
      <3>2. Retry(c) = With(c, s, act, ref, n)
        BY <1>2, <1>3, <3>1
      <3> QED BY <2>1, <3>2
    <2> QED BY <2>2, <2>3
  <1>7. ASSUME NEW busy PROVE RetryItems(c, busy) = With(c, st, busy, ref \cup Refused(c), att + 1)
    <2>1. PICK Y, n, r : Y = ref \cup Refused(c) /\ n = att + 1 /\ r = Retry(c)
      OBVIOUS
    <2>2. r = [start |-> a, rows |-> rows, state |-> st, active |-> act, refused |-> ref, attempt |-> n]
      BY <1>3, <1>6, <2>1
    <2>3. r.refused = ref
      BY <2>2
    <2>4. RetryItems(c, busy) = [r EXCEPT !.active = busy, !.refused = Y]
      BY <2>1, <2>3 DEF RetryItems
    <2>5. [r EXCEPT !.active = busy, !.refused = Y] = With(c, st, busy, Y, n)
      <3>1. PICK e : e = [r EXCEPT !.active = busy]
        OBVIOUS
      <3>2. e = [start |-> a, rows |-> rows, state |-> st, active |-> busy, refused |-> ref, attempt |-> n]
        BY <2>2, <3>1
      <3>3. [e EXCEPT !.refused = Y] = With(c, st, busy, Y, n)
        BY <1>3, <3>2
      <3> QED BY <3>1, <3>3
    <2> QED BY <2>1, <2>4, <2>5
  <1> QED BY <1>1, <1>4, <1>5, <1>6, <1>7

(* What an answer says of the items that were sent. *)
ItemAnswered(c, d, k) ==
    k \in d.refused \/ HasPart(c.rows[k], 0)' \/ (d.state # "answered" /\ k \in d.active)

LEMMA ItemsAfter ==
    ASSUME NEW c, ItemsKnown(c), NEW d, d.rows = c.rows, c.refused \subseteq d.refused,
           d.refused \subseteq c.refused \cup c.active, d.active \subseteq c.active, Grows,
           \A k \in c.active : ItemAnswered(c, d, k)
    PROVE  ItemsKnown(d)'
  <1>1. \A k \in 1..Len(c.rows) : ItemKnown(c, k)
    BY DEF ItemsKnown
  <1>2. ASSUME NEW k \in 1..Len(c.rows) PROVE ItemKnown(d, k)'
    <2>1. CASE k \in c.active
      BY <2>1 DEF ItemAnswered, ItemKnown
    <2>2. CASE k \in c.refused
      BY <2>2 DEF ItemKnown
    <2>3. CASE HasPart(c.rows[k], 0)
      BY <2>3 DEF ItemKnown, Grows
    <2> QED BY <1>1, <2>1, <2>2, <2>3 DEF ItemKnown
  <1>3. d.active \subseteq 1..Len(d.rows) /\ d.refused \subseteq 1..Len(d.rows)
    BY DEF ItemsKnown
  <1> QED BY <1>2, <1>3 DEF ItemsKnown

LEMMA ChunkIsDispatched ==
    ASSUME ElasticsearchInv, NEW t \in tasks, Dispatch(t)
    PROVE  ElasticsearchInv'
  <1>1. /\ InState(t, "todo") # {} /\ SameHeld /\ UNCHANGED stored
        /\ SetChunk(t, Min(InState(t, "todo")), [t.chunks[Min(InState(t, "todo"))] EXCEPT !.state = "sending"])
    BY DEF Dispatch
  <1>2. InState(t, "todo") \in SUBSET Nat
    BY DEF InState
  <1>3. PICK i : i = Min(InState(t, "todo"))
    OBVIOUS
  <1>4. i \in InState(t, "todo")
    BY <1>1, <1>2, <1>3, LeastOf
  <1>5. i \in 1..Len(t.chunks) /\ t.chunks[i].state = "todo"
    BY <1>4 DEF InState
  <1>6. PICK c : c = t.chunks[i]
    OBVIOUS
  <1>7. PICK d : d = [c EXCEPT !.state = "sending"]
    OBVIOUS
  <1>8. TaskOK(t) /\ stored \in Seq(Entries)
    BY DEF ElasticsearchInv, FeedOK
  <1>9. /\ c \in TaskChunks /\ ItemsKnown(c) /\ c.active \subseteq 1..Len(c.rows)
        /\ c.refused \subseteq 1..Len(c.rows) /\ c.attempt \in Nat
    BY <1>5, <1>6, <1>8, ChunkIs
  <1>10. d = With(c, "sending", c.active, c.refused, c.attempt)
    BY <1>7, <1>9, ChunkUpdates
  <1>11. SameItems(c, d) /\ d.rows = c.rows /\ d.state = "sending" /\ d.active = c.active /\ d.refused = c.refused
    <2>1. "sending" \in ChunkStates /\ c.active \in SUBSET Nat /\ c.refused \in SUBSET Nat
      BY <1>9 DEF ChunkStates, TaskChunks
    <2> QED BY <1>9, <1>10, <2>1, WithFields
  <1>12. Grows /\ stored' \in Seq(Entries)
    BY <1>1, <1>8, SameStored
  <1>13. \A k \in c.active : ItemAnswered(c, d, k)
    BY <1>11 DEF ItemAnswered
  <1>14. ItemsKnown(d)'
    BY <1>9, <1>11, <1>12, <1>13, ItemsAfter
  <1>15. SetChunk(t, i, d)
    BY <1>1, <1>3, <1>6, <1>7
  <1> QED BY <1>1, <1>5, <1>6, <1>11, <1>12, <1>14, <1>15, ChunkMoves

(* A bulk request: whatever the answer, an item that was not indexed is refused or stays to be sent. *)
LEMMA BulkIsSent ==
    ASSUME ElasticsearchInv, NEW t \in tasks, NEW i \in 1..Len(t.chunks), SendBulk(t, i)
    PROVE  ElasticsearchInv'
  <1>1. PICK c : c = t.chunks[i]
    OBVIOUS
  <1>2. TaskOK(t) /\ stored \in Seq(Entries)
    BY DEF ElasticsearchInv, FeedOK
  <1>3. /\ c \in TaskChunks /\ ItemsKnown(c) /\ c.rows \in Seq(RowNumbers) /\ c.active \subseteq 1..Len(c.rows)
        /\ c.refused \subseteq 1..Len(c.rows) /\ c.attempt \in Nat
    BY <1>1, <1>2, ChunkIs
  <1>4. PICK F : F = Refused(c)
    OBVIOUS
  <1>5. F \subseteq c.active
    BY <1>4 DEF Refused
  <1>6. c.state = "sending" /\ SameHeld
    BY <1>1 DEF SendBulk
  <1>7. /\ c.active \in SUBSET Nat /\ c.refused \in SUBSET Nat /\ c.refused \cup F \in SUBSET Nat
        /\ c.attempt + 1 \in Nat /\ c.state \in ChunkStates /\ "Transient" \in ChunkStates
        /\ "answered" \in ChunkStates /\ "Rejected" \in ChunkStates /\ "Fatal" \in ChunkStates
    <2>1. c.active \in SUBSET Nat /\ c.refused \in SUBSET Nat /\ c.state \in ChunkStates
      BY <1>3 DEF TaskChunks
    <2>2. c.refused \cup F \in SUBSET Nat /\ c.attempt + 1 \in Nat
      BY <1>3, <1>5, <2>1
    <2> QED BY <2>1, <2>2 DEF ChunkStates
  <1>8. PICK st \in {"sending", "Transient"} :
            /\ Retry(c) = With(c, st, c.active, c.refused, c.attempt + 1)
            /\ \A busy : RetryItems(c, busy) = With(c, st, busy, c.refused \cup F, c.attempt + 1)
    BY <1>3, <1>4, <1>6, ChunkUpdates
  <1>9. st \in ChunkStates /\ st # "answered"
    BY <1>8 DEF ChunkStates
  <1>10. ASSUME NEW S \in SUBSET c.active, Index(c, S)
         PROVE  stored' \in Seq(Entries) /\ Grows /\ \A k \in S : HasPart(c.rows[k], 0)'
    <2>1. S \in SUBSET (1..Len(c.rows))
      BY <1>3
    <2> QED BY <1>2, <1>3, <1>10, <2>1, IndexFacts
  <1>11. ASSUME NEW d, SetChunk(t, i, d), SameItems(c, d), ItemsKnown(d)', stored' \in Seq(Entries), Grows
         PROVE  ElasticsearchInv'
    BY <1>1, <1>6, <1>11, ChunkMoves
  <1>12. CASE Index(c, c.active \ F) /\ SetChunk(t, i, Answered(c, F))
    <2>1. PICK d : d = Answered(c, F)
      OBVIOUS
    <2>2. d = With(c, "answered", c.active, c.refused \cup F, c.attempt)
      BY <1>3, <2>1, ChunkUpdates
    <2>3. /\ SameItems(c, d) /\ d.rows = c.rows /\ d.state = "answered" /\ d.active = c.active
          /\ d.refused = c.refused \cup F
      BY <1>3, <1>7, <2>2, WithFields
    <2>4. stored' \in Seq(Entries) /\ Grows /\ \A k \in c.active \ F : HasPart(c.rows[k], 0)'
      BY <1>10, <1>12
    <2>5. \A k \in c.active : ItemAnswered(c, d, k)
      BY <2>3, <2>4 DEF ItemAnswered
    <2>6. ItemsKnown(d)'
      BY <1>3, <1>5, <2>3, <2>4, <2>5, ItemsAfter
    <2> QED BY <1>11, <1>12, <2>1, <2>3, <2>4, <2>6
  <1>13. ASSUME NEW busy \in SUBSET (c.active \ F), Index(c, c.active \ (F \cup busy)),
                SetChunk(t, i, RetryItems(c, busy))
         PROVE  ElasticsearchInv'
    <2>1. PICK d : d = RetryItems(c, busy)
      OBVIOUS
    <2>2. d = With(c, st, busy, c.refused \cup F, c.attempt + 1) /\ busy \in SUBSET Nat
      BY <1>7, <1>8, <2>1
    <2>3. SameItems(c, d) /\ d.rows = c.rows /\ d.state = st /\ d.active = busy /\ d.refused = c.refused \cup F
      BY <1>3, <1>7, <1>9, <2>2, WithFields
    <2>4. stored' \in Seq(Entries) /\ Grows /\ \A k \in c.active \ (F \cup busy) : HasPart(c.rows[k], 0)'
      BY <1>10, <1>13
    <2>5. \A k \in c.active : ItemAnswered(c, d, k)
      BY <1>9, <2>3, <2>4 DEF ItemAnswered
    <2>6. ItemsKnown(d)'
      BY <1>3, <1>5, <2>3, <2>4, <2>5, ItemsAfter
    <2> QED BY <1>11, <1>13, <2>1, <2>3, <2>4, <2>6
  <1>14. ASSUME NEW S \in SUBSET c.active, Index(c, S), SetChunk(t, i, Retry(c))
         PROVE  ElasticsearchInv'
    <2>1. PICK d : d = Retry(c)
      OBVIOUS
    <2>2. d = With(c, st, c.active, c.refused, c.attempt + 1)
      BY <1>8, <2>1
    <2>3. SameItems(c, d) /\ d.rows = c.rows /\ d.state = st /\ d.active = c.active /\ d.refused = c.refused
      BY <1>3, <1>7, <1>9, <2>2, WithFields
    <2>4. stored' \in Seq(Entries) /\ Grows
      BY <1>10, <1>14
    <2>5. \A k \in c.active : ItemAnswered(c, d, k)
      BY <1>9, <2>3 DEF ItemAnswered
    <2>6. ItemsKnown(d)'
      BY <1>3, <2>3, <2>4, <2>5, ItemsAfter
    <2> QED BY <1>11, <1>14, <2>1, <2>3, <2>4, <2>6
  <1>15. ASSUME NEW class \in {"Transient", "Rejected", "Fatal"}, UNCHANGED stored,
                SetChunk(t, i, [c EXCEPT !.state = class])
         PROVE  ElasticsearchInv'
    <2>1. PICK d : d = [c EXCEPT !.state = class]
      OBVIOUS
    <2>2. d = With(c, class, c.active, c.refused, c.attempt) /\ class \in ChunkStates /\ class # "answered"
      BY <1>3, <1>7, <2>1, ChunkUpdates
    <2>3. SameItems(c, d) /\ d.rows = c.rows /\ d.state = class /\ d.active = c.active /\ d.refused = c.refused
      BY <1>3, <1>7, <2>2, WithFields
    <2>4. stored' \in Seq(Entries) /\ Grows
      BY <1>2, <1>15, SameStored
    <2>5. \A k \in c.active : ItemAnswered(c, d, k)
      BY <2>2, <2>3 DEF ItemAnswered
    <2>6. ItemsKnown(d)'
      BY <1>3, <2>3, <2>4, <2>5, ItemsAfter
    <2> QED BY <1>11, <1>15, <2>1, <2>3, <2>4, <2>6
  <1>16. \/ Index(c, c.active \ F) /\ SetChunk(t, i, Answered(c, F))
         \/ \E busy \in SUBSET (c.active \ F) :
                Index(c, c.active \ (F \cup busy)) /\ SetChunk(t, i, RetryItems(c, busy))
         \/ (\E S \in {{}, c.active \ F} : Index(c, S)) /\ SetChunk(t, i, Retry(c))
         \/ /\ \E class \in {"Transient", "Rejected", "Fatal"} : SetChunk(t, i, [c EXCEPT !.state = class])
            /\ UNCHANGED stored
    BY <1>1, <1>4, Zenon DEF SendBulk, Answered
  <1>17. \A S \in {{}, c.active \ F} : S \in SUBSET c.active
    OBVIOUS
  <1> HIDE DEF With
  <1> QED BY <1>12, <1>13, <1>14, <1>15, <1>16, <1>17

(* Every chunk was answered: a row of the lease is too large, refused, or in the index. *)
LEMMA TaskIsDone ==
    ASSUME NEW t, TaskOK(t), InState(t, "answered") = 1..Len(t.chunks),
           NEW s \in Seqs(t.lease) \ Empty, s \notin OversizedRows(t), s \notin RefusedRows(t)
    PROVE  HasPart(s, 0)
  <1>1. PICK R : R = RowsOf(t.lease)
    OBVIOUS
  <1>2. LeaseOK(t.lease) /\ StandFor(t.chunks, R, Len(R)) /\ \A i \in 1..Len(t.chunks) : ItemsKnown(t.chunks[i])
    BY <1>1 DEF TaskOK
  <1>3. PICK m \in 1..Len(R) : R[m] = s
    BY <1>1, <1>2, RowsOfFacts
  <1>4. s \notin Oversized
    BY DEF OversizedRows
  <1>5. PICK i \in 1..Len(t.chunks) : HoldsPlace(t.chunks[i], m)
    BY <1>2, <1>3, <1>4 DEF StandFor
  <1>6. PICK c : c = t.chunks[i]
    OBVIOUS
  <1>7. PICK k \in 1..Len(c.rows) : c.start + k - 1 = m
    BY <1>5, <1>6 DEF HoldsPlace
  <1>8. Stands(c, R, Len(R)) /\ ItemsKnown(c) /\ c.state = "answered"
    <2>1. i \in InState(t, "answered")
      BY <1>5
    <2> QED BY <1>2, <1>5, <1>6, <2>1 DEF StandFor, InState
  <1>9. c.rows[k] = s
    BY <1>3, <1>7, <1>8 DEF Stands
  <1>10. RowAt(t, c, k) = s
    BY <1>1, <1>3, <1>7 DEF RowAt
  <1>11. k \notin c.refused
    BY <1>5, <1>6, <1>10 DEF RefusedRows
  <1> QED BY <1>7, <1>8, <1>9, <1>11 DEF ItemsKnown, ItemKnown

LEMMA TaskFinishes ==
    ASSUME ElasticsearchInv, NEW t \in tasks, FinishTask(t)
    PROVE  ElasticsearchInv'
  <1>1. tasks' = tasks \ {t} /\ UNCHANGED <<workload, arrived, restarts, stored>>
    BY DEF FinishTask, EndTask
  <1>2. TaskOK(t)
    BY DEF ElasticsearchInv
  <1>3. Grows /\ Empty' = Empty
    BY <1>1, SameStored DEF Empty, OfKind
  <1>4. \A x \in tasks' : x \in tasks
    BY <1>1
  <1>5. ASSUME held' \subseteq held, Claims' \subseteq Claims PROVE ElasticsearchInv'
    <2>1. FeedOK'
      BY <1>1, <1>5, FeedStays DEF ElasticsearchInv
    <2> QED BY <1>1, <1>3, <1>4, <1>5, <2>1, TasksGoOn
  <1>6. CASE \E class : Nack(t.lease, class)
    <2>1. held' \subseteq held /\ Claims' \subseteq Claims
      BY <1>1, <1>6, NackFacts
    <2> QED BY <1>5, <2>1
  <1>7. CASE FailBuffer(t.lease)
    <2>1. UNCHANGED <<done, quarantined>> /\ held' \subseteq held
      BY <1>7 DEF FailBuffer
    <2> QED BY <1>1, <1>5, <2>1, ClaimsSame
  <1>8. CASE /\ InState(t, "answered") = 1..Len(t.chunks)
             /\ done' = done \cup Seqs(t.lease)
             /\ quarantined' = quarantined \cup OversizedRows(t) \cup RefusedRows(t)
             /\ held' = held \ {t.lease}
    <2>1. FeedOK'
      BY <1>1, <1>8, FeedStays DEF ElasticsearchInv
    <2>2. \A x \in tasks' : TaskOK(x)'
      BY <1>1, <1>3, TaskStays DEF ElasticsearchInv
    <2>3. ASSUME NEW s \in Claims' PROVE HasPart(s, 0)'
      <3>1. s \in done' /\ s \notin quarantined' /\ s \notin Empty
        BY <1>3 DEF Claims
      <3>2. HasPart(s, 0)
        <4>1. CASE s \in done
          <5>1. s \in Claims
            BY <1>8, <3>1, <4>1 DEF Claims
          <5> QED BY <5>1 DEF ElasticsearchInv, ClaimsStored
        <4>2. CASE s \notin done
          <5>1. s \in Seqs(t.lease) \ Empty /\ s \notin OversizedRows(t) /\ s \notin RefusedRows(t)
            BY <1>8, <3>1, <4>2
          <5> QED BY <1>2, <1>8, <5>1, TaskIsDone
        <4> QED BY <4>1, <4>2
      <3> QED BY <1>3, <3>2 DEF Grows
    <2> QED BY <2>1, <2>2, <2>3 DEF ElasticsearchInv, ClaimsStored
  <1> QED BY <1>6, <1>7, <1>8 DEF FinishTask

LEMMA ElasticsearchRestarts ==
    ASSUME ElasticsearchInv, RestartElasticsearch
    PROVE  ElasticsearchInv'
  <1>1. Restart /\ tasks' = {}
    BY DEF RestartElasticsearch
  <1>2. /\ held' = {} /\ Claims' \subseteq Claims /\ restarts' = restarts + 1
        /\ UNCHANGED <<workload, arrived, stored>>
    BY <1>1, RestartFacts DEF ElasticsearchInv
  <1>3. FeedOK'
    BY <1>2 DEF ElasticsearchInv, FeedOK
  <1> QED BY <1>1, <1>2, <1>3, SameStored, TasksGoOn

LEMMA ElasticsearchStep ==
    ASSUME ElasticsearchInv, ElasticsearchNext
    PROVE  ElasticsearchInv'
  <1>1. CASE Arrive /\ UNCHANGED tasks
    <2>1. FeedOK' /\ Claims' = Claims /\ Grows /\ workload' = workload /\ tasks' = tasks
      BY <1>1, FeedArrives DEF ElasticsearchInv, Arrive
    <2> QED BY <2>1, TasksGoOn
  <1> QED BY <1>1, TaskStarts, TaskNotStarted, ChunkIsDispatched, BulkIsSent, TaskFinishes,
             ElasticsearchRestarts
          DEF ElasticsearchNext, ElasticsearchSteps

-----------------------------------------------------------------------------
(* The composition                                                          *)

LEMMA FeedKeepsSink ==
    /\ Arrive => configured' = configured
    /\ Restart => configured' = configured
    /\ \A l : AckEmpty(l) \/ RejectUnprepared(l) => configured' = configured
  BY DEF Arrive, Restart, AckEmpty, RejectUnprepared

LEMMA KafkaKeepsSink == KafkaNext => configured' = configured
  BY FeedKeepsSink
  DEF KafkaNext, KafkaSteps, StartSlices, RejectSlices, SkipEmptySlices, EnqueueSlice, BeginAwait,
      AwaitDelivery, DeliveryCancelled, FinishSlices, RestartKafka, SameLease

LEMMA IcebergKeepsSink == IcebergNext => configured' = configured
  BY FeedKeepsSink
  DEF IcebergNext, IcebergSteps, StartCommit, SkipEmptyCommit, SimulateCommit, OpenTable, WriteFiles,
      CommitTransaction, RefreshTable, RestartIceberg, AckIceberg, NackIceberg, ContinueWith

LEMMA StarRocksKeepsSink == StarRocksNext => configured' = configured
  <1>1. /\ Succeed => configured' = configured
        /\ \A err : Fail(err) => configured' = configured
        /\ \A c : Goto(c) => configured' = configured
        /\ \A c : Probe(c) => configured' = configured
    BY SMTT(60) DEF Succeed, Fail, Goto, Probe, SameFeed
  <1> QED BY <1>1, FeedKeepsSink
          DEF StarRocksNext, StarRocksSteps, StartLoad, RejectLoad, SkipEmpty, SendV1, SendV1Exists,
              ConfirmV1, BeginV2, LoadV2, PrepareV2, Advance, CommitV2, ConfirmOrCompleteV2, RecheckV2,
              LateRequest, ServerEndsLoad, RestartStarRocks, SameFeed

LEMMA ElasticsearchKeepsSink == ElasticsearchNext => configured' = configured
  BY FeedKeepsSink
  DEF ElasticsearchNext, ElasticsearchSteps, StartTask, FailUnprepared, SkipEmptyTask, Dispatch,
      SendBulk, FinishTask, EndTask, RestartElasticsearch, SameHeld

LEMMA ParquetKeepsSink == ParquetNext => configured' = configured
  <1>1. \A p : CloseWriter(p) => configured' = configured
    BY DEF CloseWriter, SameInput
  <1> QED BY <1>1, FeedKeepsSink
          DEF ParquetNext, ParquetSteps, ReceiveBatch, PrepareFails, RejectTooLarge, MakeRoom, WriteSlice,
              CloseFull, Sweep, WaitOldest, FinishUpload, InputEnds, Drain, FileAges, SameInput

(* The inductive invariant: of each sink, when it is the one that runs. *)
DeliveryInv ==
    /\ configured = "kafka" => KafkaInv /\ OrderOK
    /\ configured = "iceberg" => IcebergInv /\ OrderOK
    /\ configured = "starrocks" /\ ~LongTable => StarRocksInv
    /\ configured = "elasticsearch" => ElasticsearchInv
    /\ configured = "parquet" => ParquetInv

LEMMA InitDeliveryInv == Init => DeliveryInv
  <1> SUFFICES ASSUME Init PROVE DeliveryInv
    OBVIOUS
  <1>1. /\ arrived = 0 /\ done = {} /\ held = {} /\ restarts = 0 /\ stored = << >>
        /\ StarRocksInit /\ IcebergInit /\ KafkaInit
    BY DEF Init, FeedInit
  <1>2. FeedOK /\ OrderOK /\ Len(stored) = 0
    BY <1>1 DEF FeedOK, OrderOK
  <1>3. \A P : ClaimsStored(P)
    BY <1>1 DEF ClaimsStored, Claims
  <1>4. \A s, p : ~HasPart(s, p)
    BY <1>2 DEF HasPart
  <1>5. KafkaInv
    BY <1>1, <1>2, <1>3 DEF KafkaInv, KafkaInit, KafkaShape, SlicesOnTheirWay
  <1>6. IcebergInv
    <2>1. IcebergShape /\ SomethingNew /\ tokens = {}
      BY <1>1 DEF IcebergInit, IcebergShape, SomethingNew, Steps
    <2>2. TokensMatch /\ SnapshotsBringNew
      BY <1>2, <1>4, <2>1 DEF TokensMatch, SnapshotsBringNew
    <2> QED BY <1>2, <1>3, <2>1, <2>2 DEF IcebergInv
  <1>7. ASSUME ~LongTable PROVE StarRocksInv
    <2>1. load = NoSend /\ tracked = << >> /\ labels = << >> /\ late = {}
      BY <1>1 DEF StarRocksInit
    <2>2. LoadOK /\ LateOK /\ TrackedOK
      BY <1>1, <2>1 DEF LoadOK, LateOK, TrackedOK, NoSend, Calls
    <2>3. ServerOK
      BY <1>2, <2>1 DEF ServerOK, FeedOK
    <2> QED BY <1>2, <1>3, <1>7, <2>2, <2>3 DEF StarRocksInv
  <1>8. ParquetInv
    BY <1>1, ParquetStarts DEF Init
  <1>9. ElasticsearchInv
    <2>1. tasks = {}
      BY DEF Init, ElasticsearchInit
    <2> QED BY <1>2, <1>3, <2>1 DEF ElasticsearchInv
  <1> QED BY <1>2, <1>5, <1>6, <1>7, <1>8, <1>9 DEF DeliveryInv

LEMMA StepDeliveryInv == DeliveryInv /\ [Next]_vars => DeliveryInv'
  <1> SUFFICES ASSUME DeliveryInv, [Next]_vars PROVE DeliveryInv'
    OBVIOUS
  <1>1. CASE RunStarRocks
    <2>1. configured = "starrocks" /\ StarRocksNext /\ configured' = configured
      BY <1>1, StarRocksKeepsSink DEF RunStarRocks
    <2>2. ~LongTable => StarRocksInv'
      BY <2>1, StarRocksStep DEF DeliveryInv
    <2> QED BY <2>1, <2>2 DEF DeliveryInv
  <1>2. CASE RunIceberg
    <2>1. configured = "iceberg" /\ IcebergNext /\ configured' = configured
      BY <1>2, IcebergKeepsSink DEF RunIceberg
    <2>2. IcebergInv' /\ OrderOK'
      BY <2>1, IcebergStep, IcebergOrder DEF DeliveryInv
    <2> QED BY <2>1, <2>2 DEF DeliveryInv
  <1>3. CASE RunKafka
    <2>1. configured = "kafka" /\ KafkaNext /\ configured' = configured
      BY <1>3, KafkaKeepsSink DEF RunKafka
    <2>2. KafkaInv' /\ OrderOK'
      BY <2>1, KafkaStep, KafkaOrder DEF DeliveryInv
    <2> QED BY <2>1, <2>2 DEF DeliveryInv
  <1>4. CASE RunElasticsearch
    <2>1. configured = "elasticsearch" /\ ElasticsearchNext /\ configured' = configured
      BY <1>4, ElasticsearchKeepsSink DEF RunElasticsearch
    <2>2. ElasticsearchInv'
      BY <2>1, ElasticsearchStep DEF DeliveryInv
    <2> QED BY <2>1, <2>2 DEF DeliveryInv
  <1>5. CASE RunParquet
    <2>1. configured = "parquet" /\ ParquetNext /\ configured' = configured
      BY <1>5, ParquetKeepsSink DEF RunParquet
    <2>2. ParquetInv'
      BY <2>1, ParquetStep DEF DeliveryInv
    <2> QED BY <2>1, <2>2 DEF DeliveryInv
  <1>6. CASE UNCHANGED vars
    <2>1. UNCHANGED <<configured, workload, arrived, done, quarantined, held, restarts, stored>>
      BY <1>6 DEF vars, feedVars
    <2>2. UNCHANGED <<load, tracked, labels, late, catalog, step, tokens, keyed, phase, queued, cursor, failure>>
      BY <1>6 DEF vars, starRocksVars, icebergVars, kafkaVars
    <2>3. Claims' = Claims /\ (FeedOK => FeedOK') /\ (OrderOK => OrderOK')
      BY <2>1, ClaimsSame DEF FeedOK, OrderOK, LeaseOK
    <2>4. \A s, p : HasPart(s, p)' <=> HasPart(s, p)
      BY <2>1 DEF HasPart
    <2>5. KafkaInv => KafkaInv'
      BY <2>1, <2>2, <2>3, <2>4
      DEF KafkaInv, KafkaShape, SlicesOnTheirWay, SliceThere, SliceCount, ClaimsStored
    <2>6. IcebergInv => IcebergInv'
      <3> SUFFICES ASSUME IcebergInv PROVE IcebergInv'
        OBVIOUS
      <3>1. IcebergShape' /\ SomethingNew' /\ FeedOK'
        BY <2>1, <2>2, <2>3, <2>4 DEF IcebergInv, IcebergShape, SomethingNew
      <3> QED BY <2>1, <2>2, <2>3, <3>1, IcebergQuiet
    <2>7. StarRocksInv => StarRocksInv'
      <3> SUFFICES ASSUME StarRocksInv PROVE StarRocksInv'
        OBVIOUS
      <3>1. FeedOK'
        BY <2>3 DEF StarRocksInv
      <3> QED BY <2>1, <2>2, <2>3, <3>1, StarRocksIdles
    <2>8. ParquetInv => ParquetInv'
      <3>1. UNCHANGED <<stage, result, route, writers, lru, memory, uploads>>
        BY <1>6 DEF vars, parquetVars
      <3> QED BY <2>1, <3>1, RowsStay DEF ParquetInv
    <2>9. ElasticsearchInv => ElasticsearchInv'
      <3> SUFFICES ASSUME ElasticsearchInv PROVE ElasticsearchInv'
        OBVIOUS
      <3>1. tasks' = tasks
        BY <1>6 DEF vars
      <3>2. FeedOK' /\ Grows
        BY <2>1, <2>3, SameStored DEF ElasticsearchInv
      <3> QED BY <2>1, <2>3, <3>1, <3>2, TasksGoOn
    <2> QED BY <2>1, <2>3, <2>5, <2>6, <2>7, <2>8, <2>9 DEF DeliveryInv
  <1> QED BY <1>1, <1>2, <1>3, <1>4, <1>5, <1>6 DEF Next

LEMMA DeliveryInvariant == Spec => []DeliveryInv
  BY InitDeliveryInv, StepDeliveryInv, PTL DEF Spec

(* The run loops of StarRocks, Iceberg, Kafka and Elasticsearch acknowledge a  *)
(* batch with rows only when all of it is at the destination or in the         *)
(* dead-letter store: through lost answers, labels in use, rollbacks, late     *)
(* requests, slices that fail one by one, bulk items that are refused or sent  *)
(* again, chunks of several leases at once, and restarts.  Of StarRocks it     *)
(* says so where the table's name leaves room for a label's suffix.            *)
THEOREM AcknowledgedIsStored ==
    Spec => []((configured = "starrocks" => ~LongTable) => AckedIsStored)
  <1>1. ASSUME DeliveryInv, configured = "starrocks" => ~LongTable
        PROVE  AckedIsStored
    <2>1. CASE configured = "kafka"
      <3>1. ClaimsStored(1..SliceCount)
        BY <1>1, <2>1 DEF DeliveryInv, KafkaInv
      <3> QED BY <2>1, <3>1 DEF AckedIsStored, PartsOf, ClaimsStored, Claims
    <2>2. CASE configured \in {"starrocks", "elasticsearch"} \/ (configured = "iceberg" /\ catalog)
      <3>1. ClaimsStored({0}) /\ configured # "kafka"
        BY <1>1, <2>2 DEF DeliveryInv, StarRocksInv, IcebergInv, ElasticsearchInv
      <3> QED BY <3>1 DEF AckedIsStored, PartsOf, ClaimsStored, Claims
    <2> QED BY <1>1, <2>1, <2>2 DEF AckedIsStored
  <1> QED BY <1>1, DeliveryInvariant, PTL

(* No retry makes rows visible again that the destination can recognise: a     *)
(* StarRocks lease range commits under one label only, since a label is tried  *)
(* when the ones before it are aborted for good, and an Iceberg snapshot       *)
(* always brings a batch that no earlier snapshot has.                         *)
THEOREM StoredOncePerLease ==
    Spec => []((configured = "starrocks" => ~LongTable) => OncePerLease)
  <1>1. ASSUME DeliveryInv, configured = "starrocks" => ~LongTable PROVE OncePerLease
    <2>1. ASSUME configured = "starrocks"
          PROVE  \A i, j \in 1..Len(stored) : stored[i] = stored[j] => i = j
      BY <1>1, <2>1 DEF DeliveryInv, StarRocksInv, ServerOK
    <2>2. ASSUME configured = "iceberg", NEW j \in 1..Len(stored)
          PROVE  ~(Seqs(stored[j]) \subseteq UNION {Seqs(stored[i]) : i \in 1..(j-1)})
      <3>1. PICK s \in Seqs(stored[j]) : \A i \in 1..(j-1) : s \notin Seqs(stored[i])
        BY <1>1, <2>2 DEF DeliveryInv, IcebergInv, SnapshotsBringNew
      <3> QED BY <3>1
    <2> QED BY <2>1, <2>2 DEF OncePerLease
  <1> QED BY <1>1, DeliveryInvariant, PTL

(* Until a restart Kafka's messages of one partition key and Iceberg's         *)
(* snapshots become visible in the order of their batches: everything before   *)
(* the lease in hand is resolved, so what is visible cannot be younger.        *)
THEOREM OrderIsKept == Spec => []StoredInOrder
  <1>1. ASSUME DeliveryInv PROVE StoredInOrder
    BY <1>1 DEF DeliveryInv, OrderOK, StoredInOrder
  <1> QED BY <1>1, DeliveryInvariant, PTL

(* The Parquet sink acknowledges a batch before it writes a row of it.  Each row is  *)
(* in one place at a time: the batch being routed, an open writer, an upload, or a   *)
(* stored file.  A step that drops rows leaves an error, and run stops only when     *)
(* nothing is left to write or to upload; so a run that ends with Ok has stored      *)
(* every row of every batch exactly once, whatever limits closed its files.          *)
THEOREM CleanStopIsComplete == Spec => []CleanStopStores
  <1>1. ASSUME DeliveryInv PROVE CleanStopStores
    <2> SUFFICES ASSUME configured = "parquet", stage = "ended", result = "Ok", NEW r \in AllRows
                 PROVE  Cardinality({i \in 1..Len(stored) : stored[i] = RowEntry(r)}) = 1
      BY DEF CleanStopStores, RowEntry
    <2>1. ParquetInv
      BY <1>1 DEF DeliveryInv
    <2>2. route = << >> /\ 1..MaxSeq \subseteq done /\ DOMAIN writers = {} /\ uploads = << >>
      BY <2>1 DEF ParquetInv, StagesOK
    <2>3. RoutedRows(route) = {} /\ OpenRows(writers) = {}
      BY <2>2, EmptyRoute, OpenMember
    <2>4. SentRows(uploads) = {}
      <3>1. Len(uploads) = 0 /\ 1..0 = {}
        BY <2>2
      <3> QED BY <3>1, SentMember
    <2>5. r \in Received(done)
      BY <2>2, RowFacts DEF Received
    <2>6. r \in StoredRows(stored)
      BY <2>1, <2>3, <2>4, <2>5 DEF ParquetInv, RowsOnce
    <2>7. PICK i \in 1..Len(stored) : stored[i] = RowEntry(r)
      BY <2>6, StoredMember
    <2>8. {k \in 1..Len(stored) : stored[k] = RowEntry(r)} = {i}
      BY <2>1, <2>7 DEF ParquetInv, StoredOK
    <2> QED BY <2>8, FS_Singleton
  <1> QED BY <1>1, DeliveryInvariant, PTL

(* The Parquet sink's writer pool: the list that evictions go by names exactly the  *)
(* open writers, there are never more of them than max_open_partitions, the memory   *)
(* counter is the number of rows they buffer and stays below the limit, and no file  *)
(* grows past max_records; however writes, evictions, ageing and failures interleave. *)
THEOREM WriterPoolIsBounded == Spec => []WriterPoolBounded
  <1>1. ASSUME DeliveryInv PROVE WriterPoolBounded
    <2> SUFFICES ASSUME configured = "parquet"
                 PROVE  /\ Range(lru) = DOMAIN writers /\ Len(lru) = Cardinality(DOMAIN writers)
                        /\ Len(lru) <= MaxOpen
                        /\ memory = Cardinality(OpenRows(writers))
                        /\ MemoryLimit > 0 => memory <= MemoryLimit
                        /\ \A p \in DOMAIN writers : MaxRecords > 0 => Cardinality(writers[p].rows) <= MaxRecords
      BY DEF WriterPoolBounded, OpenRows
    <2>1. /\ WritersOK(writers) /\ LruOK(lru, DOMAIN writers) /\ Len(lru) <= MaxOpen
          /\ MemoryOK(writers, memory, route)
      BY <1>1 DEF DeliveryInv, ParquetInv, PoolOK
    <2>2. Len(lru) = Cardinality(DOMAIN writers)
      BY <2>1, LruLength
    <2>3. Range(lru) = DOMAIN writers
      <3>1. lru \in Seq(DOMAIN writers) /\ DOMAIN lru = 1..Len(lru)
        BY <2>1 DEF LruOK
      <3>2. \A k \in 1..Len(lru) : lru[k] \in DOMAIN writers
        BY <3>1, ElementOfSeq
      <3>3. \A p \in DOMAIN writers : \E k \in 1..Len(lru) : lru[k] = p
        BY <2>1 DEF LruOK
      <3>4. \A x : x \in Range(lru) <=> \E k \in 1..Len(lru) : x = lru[k]
        BY <3>1 DEF Range
      <3> QED BY <3>2, <3>3, <3>4, ZenonT(60)
    <2> QED BY <2>1, <2>2, <2>3 DEF WritersOK, MemoryOK
  <1> QED BY <1>1, DeliveryInvariant, PTL

====
