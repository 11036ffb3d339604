-------------------------- MODULE LeaseLedgerProofs --------------------------
(***************************************************************************)
(* The ledger's invariants, for every MaxSeq and every MaxInflight.        *)
(***************************************************************************)
EXTENDS LeaseLedger, FiniteSetTheorems, TLAPS

(* What the ledger's operations preserve together. *)
IInv ==
    /\ TypeOK
    /\ AssignedBelowNext
    /\ WatermarkExact
    /\ LeasesOwnInFlight
    /\ IsFiniteSet(leases)
    /\ LeasesBounded

(* SetStatus replaces the status of S and of nothing else. *)
LEMMA SetStatusType ==
    ASSUME TypeOK, NEW S \in SUBSET Seqs, NEW v \in Status
    PROVE  /\ SetStatus(S, v) \in [Seqs -> Status]
           /\ \A s \in S : SetStatus(S, v)[s] = v
           /\ \A s \in Seqs \ S : SetStatus(S, v)[s] = status[s]
  BY DEF TypeOK, SetStatus

(* When slots are only released, the candidate cannot fall below a watermark that  *)
(* was exact: advance_watermark's fetch_max never keeps the old value over it.     *)
LEMMA CandidateGrows ==
    ASSUME NEW st1 \in [Seqs -> Status], NEW st2 \in [Seqs -> Status],
           NEW n \in 1..(MaxSeq + 1), NEW w \in 0..MaxSeq, NEW c \in 0..MaxSeq,
           \A s \in Seqs : st1[s] \in Held => s < n,
           HeldIn(st2) \subseteq HeldIn(st1),
           IsCandidate(st1, n, w),
           IsCandidate(st2, n, c)
    PROVE  w <= c
  BY MaxSeqAssumption DEF IsCandidate, HeldIn, Seqs

(* advance_watermark leaves the watermark exact when slots were only released. *)
LEMMA AdvanceIsExact ==
    ASSUME TypeOK, AssignedBelowNext, WatermarkExact,
           NEW st \in [Seqs -> Status],
           HeldIn(st) \subseteq HeldIn(status),
           AdvanceWatermark(st)
    PROVE  /\ committedSeq' \in 0..MaxSeq
           /\ IsCandidate(st, nextSeq, committedSeq')
  <1>1. PICK c \in 0..MaxSeq :
           /\ IsCandidate(st, nextSeq, c)
           /\ committedSeq' = IF c > committedSeq THEN c ELSE committedSeq
    BY DEF AdvanceWatermark
  <1>2. \A s \in Seqs : status[s] \in Held => s < nextSeq
    BY MaxSeqAssumption DEF TypeOK, AssignedBelowNext, Held, Seqs
  <1>3. committedSeq <= c
    BY <1>1, <1>2, CandidateGrows DEF TypeOK, WatermarkExact
  <1>4. committedSeq' = c
    BY <1>1, <1>3, MaxSeqAssumption DEF TypeOK
  <1> QED BY <1>1, <1>4

(* The watermark covers resolved sequence numbers only. *)
LEMMA ExactIsSafe == IInv => WatermarkSafe
  <1> SUFFICES ASSUME IInv, NEW s \in Seqs, s <= committedSeq
               PROVE  status[s] \in Fates
    BY DEF WatermarkSafe
  <1>1. s \notin HeldIn(status)
    BY MaxSeqAssumption DEF IInv, TypeOK, WatermarkExact, IsCandidate, HeldIn, Seqs, AssignedBelowNext
  <1>2. committedSeq < nextSeq
    <2>1. CASE HeldIn(status) = {}
      BY <2>1, MaxSeqAssumption DEF IInv, TypeOK, WatermarkExact, IsCandidate
    <2>2. CASE HeldIn(status) # {}
      <3>1. committedSeq + 1 \in Seqs /\ status[committedSeq + 1] \in Held
        BY <2>2 DEF IInv, WatermarkExact, IsCandidate, HeldIn
      <3>2. ~(committedSeq + 1 >= nextSeq)
        BY <3>1 DEF IInv, AssignedBelowNext, Held
      <3> QED BY <3>2, MaxSeqAssumption DEF IInv, TypeOK
    <2> QED BY <2>1, <2>2
  <1>3. status[s] # "Unassigned"
    BY <1>2, MaxSeqAssumption DEF IInv, TypeOK, AssignedBelowNext, Seqs
  <1> QED BY <1>1, <1>3 DEF IInv, TypeOK, HeldIn, Status

(* The ring SignalRing::new makes satisfies the invariant. *)
THEOREM LedgerInit == Init => IInv
  <1> SUFFICES ASSUME Init PROVE IInv
    OBVIOUS
  <1>1. TypeOK
    BY MaxSeqAssumption DEF Init, TypeOK, Status, Seqs
  <1>2. AssignedBelowNext
    BY DEF Init, AssignedBelowNext, Seqs
  <1>3. WatermarkExact
    BY DEF Init, WatermarkExact, IsCandidate, HeldIn, Held
  <1>4. LeasesOwnInFlight
    BY DEF Init, LeasesOwnInFlight
  <1>5. IsFiniteSet(leases) /\ LeasesBounded
    BY FS_EmptySet, MaxInflightAssumption DEF Init, LeasesBounded
  <1> QED BY <1>1, <1>2, <1>3, <1>4, <1>5 DEF IInv

(* A step that leaves nextSeq alone, takes sequence numbers out of `slots` and      *)
(* advances the watermark keeps the bookkeeping of statuses and watermark.         *)
LEMMA ReleaseStep ==
    ASSUME IInv, NEW S \in SUBSET Seqs, NEW v \in Fates,
           \A s \in S : status[s] \in Held,
           status' = SetStatus(S, v),
           AdvanceWatermark(status'),
           nextSeq' = nextSeq
    PROVE  /\ status' \in [Seqs -> Status]
           /\ committedSeq' \in 0..MaxSeq
           /\ AssignedBelowNext'
           /\ WatermarkExact'
  <1>1. v \in Status
    BY DEF Status
  <1>2. /\ status' \in [Seqs -> Status]
        /\ \A s \in S : status'[s] = v
        /\ \A s \in Seqs \ S : status'[s] = status[s]
    BY <1>1, SetStatusType DEF IInv
  <1>3. HeldIn(status') \subseteq HeldIn(status)
    BY <1>2 DEF HeldIn, Fates, Held
  <1>4. committedSeq' \in 0..MaxSeq /\ IsCandidate(status', nextSeq, committedSeq')
    BY <1>2, <1>3, AdvanceIsExact DEF IInv
  <1>5. AssignedBelowNext'
    BY <1>2 DEF IInv, AssignedBelowNext, Held, Fates
  <1> QED BY <1>2, <1>4, <1>5 DEF WatermarkExact

(* A step that moves held sequence numbers between held states keeps it too. *)
LEMMA MoveStep ==
    ASSUME IInv, NEW S \in SUBSET Seqs, NEW v \in Held,
           \A s \in S : status[s] \in Held,
           status' = SetStatus(S, v),
           nextSeq' = nextSeq,
           committedSeq' = committedSeq
    PROVE  /\ status' \in [Seqs -> Status]
           /\ committedSeq' \in 0..MaxSeq
           /\ AssignedBelowNext'
           /\ WatermarkExact'
  <1>1. v \in Status
    BY DEF Status
  <1>2. /\ status' \in [Seqs -> Status]
        /\ \A s \in S : status'[s] = v
        /\ \A s \in Seqs \ S : status'[s] = status[s]
    BY <1>1, SetStatusType DEF IInv
  <1>3. HeldIn(status') = HeldIn(status)
    BY <1>2 DEF HeldIn
  <1>4. AssignedBelowNext'
    BY <1>2 DEF IInv, AssignedBelowNext, Held
  <1> QED BY <1>2, <1>3, <1>4 DEF IInv, TypeOK, WatermarkExact, IsCandidate

(* The sequence numbers of a lease are InFlight, and SetStatus on them is typed. *)
LEMMA LeaseSeqs ==
    ASSUME IInv, NEW r \in leases
    PROVE  /\ SeqsOf(r) \in SUBSET Seqs
           /\ \A s \in SeqsOf(r) : status[s] = "InFlight"
  <1>1. r \in Ranges
    BY DEF IInv, TypeOK
  <1>2. SeqsOf(r) \in SUBSET Seqs
    BY <1>1, MaxSeqAssumption DEF Ranges, SeqsOf, Seqs
  <1> QED BY <1>2 DEF IInv, LeasesOwnInFlight

(* A lease that ends leaves the other leases with their own InFlight slots. *)
LEMMA EndLease ==
    ASSUME IInv, NEW r \in leases, NEW v \in Status, v # "InFlight",
           status' = SetStatus(SeqsOf(r), v),
           leases' = leases \ {r}
    PROVE  /\ LeasesOwnInFlight'
           /\ leases' \subseteq Ranges
           /\ IsFiniteSet(leases')
           /\ LeasesBounded'
  <1>1. /\ \A s \in SeqsOf(r) : status'[s] = v
        /\ \A s \in Seqs \ SeqsOf(r) : status'[s] = status[s]
    BY LeaseSeqs, SetStatusType DEF IInv
  <1>2. \A s \in Seqs : s \in SeqsOf(r) => \A q \in leases' : s \notin SeqsOf(q)
    BY DEF IInv, LeasesOwnInFlight
  <1>3. LeasesOwnInFlight'
    BY <1>1, <1>2 DEF IInv, LeasesOwnInFlight
  <1>4. IsFiniteSet(leases') /\ Cardinality(leases') = Cardinality(leases) - 1
    BY FS_RemoveElement DEF IInv
  <1>5. LeasesBounded'
    BY <1>4, FS_CardinalityType, MaxInflightAssumption DEF IInv, LeasesBounded
  <1> QED BY <1>3, <1>4, <1>5 DEF IInv, TypeOK

(* A step that neither starts nor ends a lease keeps the leases' bookkeeping. *)
LEMMA SameLeases ==
    ASSUME IInv, leases' = leases,
           \A s \in Seqs : status'[s] = "InFlight" <=> status[s] = "InFlight"
    PROVE  /\ LeasesOwnInFlight'
           /\ leases' \subseteq Ranges
           /\ IsFiniteSet(leases')
           /\ LeasesBounded'
  BY DEF IInv, TypeOK, LeasesOwnInFlight, LeasesBounded

(* record_evicted_batch keeps the invariant. *)
LEMMA EvictStep == ASSUME IInv, NEW E \in SUBSET Seqs, Evict(E) PROVE IInv'
  <1>1. \A s \in E : status[s] = "Queued"
    BY DEF Evict, IsQueueHead
  <1>2. /\ status' \in [Seqs -> Status] /\ committedSeq' \in 0..MaxSeq
        /\ AssignedBelowNext' /\ WatermarkExact'
    BY <1>1, ReleaseStep DEF Evict, Fates, Held
  <1>3. \A s \in Seqs : status'[s] = "InFlight" <=> status[s] = "InFlight"
    BY <1>1, SetStatusType DEF IInv, Evict, Status, Fates
  <1>4. LeasesOwnInFlight' /\ leases' \subseteq Ranges /\ IsFiniteSet(leases') /\ LeasesBounded'
    BY <1>3, SameLeases DEF Evict
  <1> QED BY <1>2, <1>4 DEF IInv, TypeOK, Evict

(* rollback_slot keeps the invariant. *)
LEMMA RollbackStep == ASSUME IInv, NEW s \in Seqs, Rollback(s) PROVE IInv'
  <1>1. status[s] = "Reserved"
    BY DEF Rollback
  <1>2. /\ status' \in [Seqs -> Status] /\ committedSeq' \in 0..MaxSeq
        /\ AssignedBelowNext' /\ WatermarkExact'
    BY <1>1, ReleaseStep DEF Rollback, Fates, Held
  <1>3. \A t \in Seqs : status'[t] = "InFlight" <=> status[t] = "InFlight"
    BY <1>1, SetStatusType DEF IInv, Rollback, Status, Fates
  <1>4. LeasesOwnInFlight' /\ leases' \subseteq Ranges /\ IsFiniteSet(leases') /\ LeasesBounded'
    BY <1>3, SameLeases DEF Rollback
  <1> QED BY <1>2, <1>4 DEF IInv, TypeOK, Rollback

(* A finished append keeps the invariant: its slot was held and still is. *)
LEMMA AppendStep == ASSUME IInv, NEW s \in Seqs, Append(s) PROVE IInv'
  <1>1. status[s] = "Reserved"
    BY DEF Append
  <1>2. /\ status' \in [Seqs -> Status] /\ committedSeq' \in 0..MaxSeq
        /\ AssignedBelowNext' /\ WatermarkExact'
    BY <1>1, MoveStep DEF Append, Held
  <1>3. \A t \in Seqs : status'[t] = "InFlight" <=> status[t] = "InFlight"
    BY <1>1, SetStatusType DEF IInv, Append, Status, Held
  <1>4. LeasesOwnInFlight' /\ leases' \subseteq Ranges /\ IsFiniteSet(leases') /\ LeasesBounded'
    BY <1>3, SameLeases DEF Append
  <1> QED BY <1>2, <1>4 DEF IInv, TypeOK, Append

(* The new sequence number is held, so the watermark that was exact before it still is. *)
LEMMA AdmitStep ==
    ASSUME IInv, NEW E \in SUBSET Seqs, NEW st \in {"Queued", "Reserved"}, Admit(E, st)
    PROVE  IInv'
  <1> DEFINE mid == SetStatus(E, "Evicted")
  <1>1. nextSeq \in Seqs /\ nextSeq' = nextSeq + 1 /\ leases' = leases
    BY DEF Admit
  <1>2. \A s \in E : status[s] = "Queued"
    BY DEF Admit, IsQueueHead
  <1>3. /\ mid \in [Seqs -> Status]
        /\ \A s \in E : mid[s] = "Evicted"
        /\ \A s \in Seqs \ E : mid[s] = status[s]
    BY SetStatusType DEF IInv, Status, Fates
  <1>4. /\ status' = [mid EXCEPT ![nextSeq] = st]
        /\ st \in Held /\ st # "InFlight" /\ st # "Unassigned"
    BY DEF Admit, Held
  <1>5. status' \in [Seqs -> Status]
    BY <1>1, <1>3, <1>4 DEF Status
  <1>6. status[nextSeq] = "Unassigned" /\ nextSeq \notin E
    BY <1>1, <1>2, MaxSeqAssumption DEF IInv, TypeOK, AssignedBelowNext
  <1>7. committedSeq' \in 0..MaxSeq /\ IsCandidate(mid, nextSeq, committedSeq')
    <2>1. CASE E = {}
      <3>1. mid = status
        BY <2>1, <1>3 DEF IInv, TypeOK
      <3> QED BY <2>1, <3>1 DEF Admit, IInv, TypeOK, WatermarkExact
    <2>2. CASE E # {}
      <3>1. AdvanceWatermark(mid)
        BY <2>2 DEF Admit
      <3>2. HeldIn(mid) \subseteq HeldIn(status)
        BY <1>3 DEF HeldIn, Held
      <3> QED BY <1>3, <3>1, <3>2, AdvanceIsExact DEF IInv
    <2> QED BY <2>1, <2>2
  <1>8. HeldIn(status') = HeldIn(mid) \union {nextSeq}
    BY <1>1, <1>3, <1>4 DEF HeldIn
  <1>9. \A s \in HeldIn(mid) : s < nextSeq
    BY <1>2, <1>3, <1>6, MaxSeqAssumption DEF IInv, TypeOK, AssignedBelowNext, HeldIn, Held, Seqs
  <1>10. WatermarkExact'
    <2> HIDE DEF mid
    <2>1. nextSeq \in Nat /\ committedSeq' \in Nat
      BY <1>1, <1>7, MaxSeqAssumption DEF Seqs
    <2>2. CASE HeldIn(mid) = {}
      <3>1. committedSeq' = nextSeq - 1
        BY <2>2, <1>7 DEF IsCandidate
      <3> QED BY <2>1, <2>2, <3>1, <1>8 DEF WatermarkExact, IsCandidate
    <2>3. CASE HeldIn(mid) # {}
      <3>1. committedSeq' + 1 \in HeldIn(mid) /\ \A s \in HeldIn(mid) : committedSeq' < s
        BY <2>3, <1>7 DEF IsCandidate
      <3>2. committedSeq' < nextSeq
        BY <3>1, <1>9, <2>1
      <3> QED BY <2>1, <3>1, <3>2, <1>8 DEF WatermarkExact, IsCandidate
    <2> QED BY <2>2, <2>3
  <1>11. AssignedBelowNext'
    BY <1>1, <1>2, <1>3, <1>4, <1>6, MaxSeqAssumption DEF IInv, TypeOK, AssignedBelowNext, Seqs
  <1>12. \A s \in Seqs : status'[s] = "InFlight" <=> status[s] = "InFlight"
    BY <1>1, <1>2, <1>3, <1>4, <1>6
  <1>13. LeasesOwnInFlight' /\ leases' \subseteq Ranges /\ IsFiniteSet(leases') /\ LeasesBounded'
    BY <1>1, <1>12, SameLeases
  <1>14. nextSeq' \in 1..(MaxSeq + 1)
    BY <1>1, MaxSeqAssumption DEF Seqs
  <1> QED BY <1>5, <1>7, <1>10, <1>11, <1>13, <1>14 DEF IInv, TypeOK

(* A new lease takes Queued slots, so it shares none with the leases there are. *)
LEMMA LeaseStep == ASSUME IInv, NEW r \in Ranges, Lease(r) PROVE IInv'
  <1>1. /\ SeqsOf(r) \in SUBSET Seqs
        /\ \A s \in SeqsOf(r) : status[s] = "Queued"
    BY MaxSeqAssumption DEF Lease, Ranges, SeqsOf, Seqs
  <1>2. /\ status' \in [Seqs -> Status] /\ committedSeq' \in 0..MaxSeq
        /\ AssignedBelowNext' /\ WatermarkExact'
    BY <1>1, MoveStep DEF Lease, Held
  <1>3. /\ \A s \in SeqsOf(r) : status'[s] = "InFlight"
        /\ \A s \in Seqs \ SeqsOf(r) : status'[s] = status[s]
    <2>1. "InFlight" \in Status
      BY DEF Status, Held
    <2>2. status' = SetStatus(SeqsOf(r), "InFlight")
      BY DEF Lease
    <2> QED BY <1>1, <2>1, <2>2, SetStatusType DEF IInv
  <1>4. \A q \in leases : SeqsOf(q) \intersect SeqsOf(r) = {}
    BY <1>1, LeaseSeqs
  <1>5. LeasesOwnInFlight'
    BY <1>1, <1>3, <1>4 DEF IInv, LeasesOwnInFlight, Lease
  <1>6. r \notin leases
    BY <1>4 DEF Ranges, SeqsOf, Seqs
  <1>7. IsFiniteSet(leases') /\ Cardinality(leases') = Cardinality(leases) + 1
    BY <1>6, FS_AddElement DEF IInv, Lease
  <1>8. LeasesBounded'
    BY <1>7, FS_CardinalityType, MaxInflightAssumption DEF IInv, LeasesBounded, Lease
  <1> QED BY <1>2, <1>5, <1>7, <1>8 DEF IInv, TypeOK, Lease

(* ack_entries keeps the invariant. *)
LEMMA ResolveStep ==
    ASSUME IInv, NEW r \in Ranges, NEW f \in {"Committed", "DeadLettered"}, Resolve(r, f)
    PROVE  IInv'
  <1>1. /\ r \in leases /\ SeqsOf(r) \in SUBSET Seqs
        /\ \A s \in SeqsOf(r) : status[s] = "InFlight"
    BY LeaseSeqs DEF Resolve
  <1>2. /\ status' \in [Seqs -> Status] /\ committedSeq' \in 0..MaxSeq
        /\ AssignedBelowNext' /\ WatermarkExact'
    BY <1>1, ReleaseStep DEF Resolve, Fates, Held
  <1>3. LeasesOwnInFlight' /\ leases' \subseteq Ranges /\ IsFiniteSet(leases') /\ LeasesBounded'
    BY <1>1, EndLease DEF Resolve, Status, Fates
  <1> QED BY <1>2, <1>3 DEF IInv, TypeOK, Resolve

(* requeue_at_head keeps the invariant. *)
LEMMA RequeueStep == ASSUME IInv, NEW r \in Ranges, Requeue(r) PROVE IInv'
  <1>1. /\ r \in leases /\ SeqsOf(r) \in SUBSET Seqs
        /\ \A s \in SeqsOf(r) : status[s] = "InFlight"
    BY LeaseSeqs DEF Requeue
  <1>2. /\ status' \in [Seqs -> Status] /\ committedSeq' \in 0..MaxSeq
        /\ AssignedBelowNext' /\ WatermarkExact'
    BY <1>1, MoveStep DEF Requeue, Held
  <1>3. LeasesOwnInFlight' /\ leases' \subseteq Ranges /\ IsFiniteSet(leases') /\ LeasesBounded'
    BY <1>1, EndLease DEF Requeue, Status, Held
  <1> QED BY <1>2, <1>3 DEF IInv, TypeOK, Requeue

(* discard_remaining_rings keeps the invariant: it ends every lease. *)
LEMMA DiscardStep == ASSUME IInv, Discard PROVE IInv'
  <1>1. HeldIn(status) \in SUBSET Seqs /\ \A s \in HeldIn(status) : status[s] \in Held
    BY DEF HeldIn
  <1>2. /\ status' \in [Seqs -> Status] /\ committedSeq' \in 0..MaxSeq
        /\ AssignedBelowNext' /\ WatermarkExact'
    BY <1>1, ReleaseStep DEF Discard, Fates
  <1>3. /\ \A s \in HeldIn(status) : status'[s] = "Discarded"
        /\ \A s \in Seqs \ HeldIn(status) : status'[s] = status[s]
    BY <1>1, SetStatusType DEF IInv, Discard, Status, Fates
  <1>4. \A s \in Seqs : status'[s] # "InFlight"
    BY <1>3 DEF HeldIn, Held
  <1>5. LeasesOwnInFlight'
    BY <1>4 DEF LeasesOwnInFlight, Discard
  <1>6. IsFiniteSet(leases') /\ LeasesBounded'
    BY FS_EmptySet, MaxInflightAssumption DEF Discard, LeasesBounded
  <1> QED BY <1>2, <1>5, <1>6 DEF IInv, TypeOK, Discard

(* Every operation of the ring keeps the ledger's invariant. *)
THEOREM LedgerStep == IInv /\ [Next]_vars => IInv'
  <1> SUFFICES ASSUME IInv, [Next]_vars PROVE IInv'
    OBVIOUS
  <1>1. CASE UNCHANGED vars
    BY <1>1 DEF vars, IInv, TypeOK, AssignedBelowNext, WatermarkExact, LeasesOwnInFlight,
                LeasesBounded
  <1>2. CASE \E E \in SUBSET Seqs : Evict(E)
    BY <1>2, EvictStep
  <1>3. CASE \E E \in SUBSET Seqs, st \in {"Queued", "Reserved"} : Admit(E, st)
    BY <1>3, AdmitStep
  <1>4. CASE \E s \in Seqs : Append(s) \/ Rollback(s)
    BY <1>4, AppendStep, RollbackStep
  <1>5. CASE \E r \in Ranges : Lease(r) \/ Requeue(r)
    BY <1>5, LeaseStep, RequeueStep
  <1>6. CASE \E r \in Ranges, fate \in {"Committed", "DeadLettered"} : Resolve(r, fate)
    BY <1>6, ResolveStep
  <1>7. CASE Discard
    BY <1>7, DiscardStep
  <1> QED BY <1>1, <1>2, <1>3, <1>4, <1>5, <1>6, <1>7 DEF Next

(* The ledger's invariant holds in every behaviour of the ring. *)
THEOREM LedgerInvariant == Spec => []IInv
  BY LedgerInit, LedgerStep, PTL DEF Spec

(* Type correctness. *)
THEOREM LedgerTypeOK == Spec => []TypeOK
  <1>1. IInv => TypeOK
    BY DEF IInv
  <1> QED BY <1>1, LedgerInvariant, PTL

(* committed_seq never passes a batch that is reserved, queued or in flight: what       *)
(* recovery skips and GC deletes has been delivered, quarantined or given up on.        *)
THEOREM WatermarkIsSafe == Spec => []WatermarkSafe
  BY ExactIsSafe, LedgerInvariant, PTL

(* committed_seq is the end of the longest resolved prefix after every operation. *)
THEOREM WatermarkIsExact == Spec => []WatermarkExact
  <1>1. IInv => WatermarkExact
    BY DEF IInv
  <1> QED BY <1>1, LedgerInvariant, PTL

(* Leases share no batch and strand none. *)
THEOREM LeasesPartition == Spec => []LeasesOwnInFlight
  <1>1. IInv => LeasesOwnInFlight
    BY DEF IInv
  <1> QED BY <1>1, LedgerInvariant, PTL

(* At most max_inflight_leases leases are out. *)
THEOREM LeasesAreBounded == Spec => []LeasesBounded
  <1>1. IInv => LeasesBounded
    BY DEF IInv
  <1> QED BY <1>1, LedgerInvariant, PTL

(* No step changes a fate, because a lease still owns every slot it resolves. *)
LEMMA FateStep ==
    ASSUME IInv, [Next]_vars, NEW s \in Seqs, status[s] \in Fates
    PROVE  status'[s] = status[s]
  <1>1. s \notin HeldIn(status) /\ status[s] \notin {"Unassigned", "Queued", "Reserved", "InFlight"}
    BY DEF HeldIn, Held, Fates
  <1>2. ASSUME NEW S \in SUBSET Seqs, NEW v, s \notin S
        PROVE  SetStatus(S, v)[s] = status[s]
    BY <1>2 DEF SetStatus
  <1>3. CASE UNCHANGED vars
    BY <1>3 DEF vars
  <1>4. CASE \E E \in SUBSET Seqs : Evict(E)
    BY <1>1, <1>2, <1>4 DEF Evict, IsQueueHead
  <1>5. ASSUME NEW E \in SUBSET Seqs, NEW st \in {"Queued", "Reserved"}, Admit(E, st)
        PROVE  status'[s] = status[s]
    <2>1. nextSeq # s
      BY <1>1, <1>5, MaxSeqAssumption DEF Admit, IInv, TypeOK, AssignedBelowNext
    <2>2. SetStatus(E, "Evicted")[s] = status[s]
      BY <1>1, <1>2, <1>5 DEF Admit, IsQueueHead
    <2>3. status' = [SetStatus(E, "Evicted") EXCEPT ![nextSeq] = st]
      BY <1>5 DEF Admit
    <2> QED BY <2>1, <2>2, <2>3 DEF SetStatus
  <1>6. CASE \E t \in Seqs : Append(t) \/ Rollback(t)
    BY <1>1, <1>2, <1>6 DEF Append, Rollback
  <1>7. ASSUME NEW r \in Ranges, Lease(r)
        PROVE  status'[s] = status[s]
    <2>1. SeqsOf(r) \in SUBSET Seqs
      BY MaxSeqAssumption DEF Ranges, SeqsOf, Seqs
    <2> QED BY <1>1, <1>2, <1>7, <2>1 DEF Lease
  <1>8. ASSUME NEW r \in leases
        PROVE  SeqsOf(r) \in SUBSET Seqs /\ s \notin SeqsOf(r)
    BY <1>1, LeaseSeqs
  <1>9. CASE \E r \in Ranges : Requeue(r)
    BY <1>2, <1>8, <1>9 DEF Requeue
  <1>10. CASE \E r \in Ranges, f \in {"Committed", "DeadLettered"} : Resolve(r, f)
    BY <1>2, <1>8, <1>10 DEF Resolve
  <1>11. CASE Discard
    BY <1>1, <1>2, <1>11 DEF Discard, HeldIn
  <1> QED BY <1>3, <1>4, <1>5, <1>6, <1>7, <1>9, <1>10, <1>11 DEF Next

(* A batch meets its fate once: nothing resolves or leases it again, whichever lease or *)
(* append outlives the discard of its slot.                                             *)
THEOREM FatesAreFinal == Spec => FateIsFinal
  <1>1. IInv /\ [Next]_vars =>
            [\A s \in Seqs : status[s] \in Fates => status'[s] = status[s]]_vars
    BY FateStep
  <1> QED BY <1>1, LedgerInvariant, PTL DEF Spec, FateIsFinal

=============================================================================
