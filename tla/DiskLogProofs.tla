---------------------------- MODULE DiskLogProofs ----------------------------
(***************************************************************************)
(* The disk backend, for any number of signals, batches, segments, crashes *)
(* and failing file calls: what was acknowledged is durable, what was      *)
(* accepted is found again, segments and rings match, and a sequence       *)
(* number names one batch.  The first holds always; the others where no    *)
(* write of a frame stops half-way: DiskLogPartial shows what happens      *)
(* where one does.                                                         *)
(***************************************************************************)
EXTENDS DiskLog, FiniteSetTheorems, SequenceTheorems, WellFoundedInduction, NaturalsInduction, TLAPS

-----------------------------------------------------------------------------
(* The invariant                                                            *)

Frames == [signal : Signals, seq : Nat \ {0}, msg : Nat]

Marks == [Signals -> Nat]

Slots == [state : {"Reserved", "Queued"}, msg : Nat, at : Nat \X Nat]

Rings == [next : Nat \ {0}, slots : UNION {[S -> Slots] : S \in SUBSET Nat}, committed : Nat]

Appends == [kind : {"append"}, signal : Signals, seq : Nat \ {0}, msg : Nat]

Updates == [kind : {"update", "flush"}, ack : BOOLEAN, wm : Marks]

Outcomes == [cmd : Appends, ok : BOOLEAN, at : Nat \X Nat]

Segments == [id : Nat \ {0}, maxSeq : Marks]

Writers ==
    [phase : {"idle", "write", "finish", "reply"}, todo : SUBSET Appends, done : SUBSET Outcomes,
     wms : SUBSET Updates, dirty : BOOLEAN, failed : BOOLEAN, active : Nat, sealed : SUBSET Segments,
     next : Nat \ {0}, persisted : Marks, staged : Marks]

Histories ==
    [sent : Nat, accepted : SUBSET Nat, resolved : SUBSET Nat, acked : Marks,
     delivered : SUBSET (Signals \X Nat \X Nat), finalized : Nat]

(* Segment files: sequences of frames, the last of which may be torn. *)
Files(F) ==
    /\ F = [id \in DOMAIN F |-> F[id]]
    /\ DOMAIN F \subseteq Nat \ {0} /\ IsFiniteSet(DOMAIN F)
    /\ \A id \in DOMAIN F :
        /\ F[id] \in Seq(Frames \union {Garbage})
        /\ \A i \in DOMAIN F[id] : F[id][i] = Garbage => i = Len(F[id])

(* No frame is torn. *)
Intact(F) == \A id \in DOMAIN F : F[id] \in Seq(Frames)

Synced(F, S) ==
    /\ S = [id \in DOMAIN F |-> S[id]]
    /\ \A id \in DOMAIN F : S[id] \in 0..Len(F[id])

Shapes ==
    /\ scenario \in Scenarios
    /\ mode \in {"running", "recovering", "down"} /\ fatal \in BOOLEAN /\ unsent \in Nat
    /\ Files(files) /\ Synced(files, synced)
    /\ wmFile \in Marks
    /\ ring \in [Signals -> Rings]
    /\ cmds \subseteq Appends \union Updates /\ IsFiniteSet(cmds)
    /\ writer \in Writers /\ IsFiniteSet(writer.wms)
    /\ hist \in Histories

(* A number is held only between the watermark and the next number. *)
RingsInOrder ==
    \A g \in Signals :
        /\ ring[g].committed < ring[g].next
        /\ \A s \in DOMAIN ring[g].slots : ring[g].committed < s /\ s < ring[g].next

(* Where writer_loop is says what it has in hand, *)
Phases ==
    /\ writer.phase # "write" => writer.todo = {}
    /\ writer.phase \notin {"write", "finish"} => writer.done = {}
    /\ writer.phase = "idle" => writer.wms = {} /\ ~writer.dirty
    /\ mode # "running" => writer.phase = "idle" /\ writer.active = 0 /\ cmds = {} /\ unsent = 0
    /\ mode = "down" => writer.sealed = {}

AtMost(v, w) == \A g \in Signals : v[g] <= w[g]

(* and how the watermark file, the writer's two watermarks, those of the commands and those of the
   rings are ordered. *)
MarksInOrder ==
    /\ writer.persisted = wmFile
    /\ AtMost(writer.persisted, writer.staged)
    /\ mode # "down" => \A g \in Signals : writer.staged[g] <= ring[g].committed
    /\ \A c \in cmds : c.kind # "append" => \A g \in Signals : c.wm[g] <= ring[g].committed
    /\ \A c \in writer.wms :
        /\ writer.phase \in {"write", "finish"} => AtMost(c.wm, writer.staged)
        /\ writer.phase = "reply" /\ ~writer.failed => AtMost(c.wm, writer.persisted)
    /\ ~writer.dirty \/ writer.phase \in {"idle", "reply"} => writer.staged = writer.persisted
    /\ AckDurable

(* The appends that are not written yet. *)
Pending == {c \in cmds : c.kind = "append"} \union writer.todo

(* The frames on disk. *)
OnDisk(F) == {f \in Frames : \E id \in DOMAIN F : \E i \in DOMAIN F[id] : F[id][i] = f}

SameSeq(x, y) == x.signal = y.signal /\ x.seq = y.seq

(* A number that was given out is on disk once at most. *)
FramesInOrder ==
    /\ \A f, h \in OnDisk(files) : SameSeq(f, h) => f = h
    /\ mode # "down" =>
        /\ Intact(files)
        /\ \A f \in OnDisk(files) : f.seq < ring[f.signal].next

(* An append has its slot, Reserved, until a discard resolves its batch. *)
HasSlot(c) ==
    /\ c.seq < ring[c.signal].next
    /\ IF c.seq \in DOMAIN ring[c.signal].slots
       THEN ring[c.signal].slots[c.seq].state = "Reserved" /\ ring[c.signal].slots[c.seq].msg = c.msg
       ELSE c.msg \in hist.resolved

(* The frame at a place. *)
Holds(F, at, f) == at[1] \in DOMAIN F /\ at[2] \in DOMAIN F[at[1]] /\ F[at[1]][at[2]] = f

Held(c) == c.seq \in DOMAIN ring[c.signal].slots

AppendsInOrder ==
    /\ cmds \intersect writer.todo = {}
    /\ \A c \in Pending :
        /\ HasSlot(c)
        /\ \A f \in OnDisk(files) : ~SameSeq(f, c)
        /\ \A o \in Pending : SameSeq(c, o) => c = o
        /\ \A d \in writer.done : ~SameSeq(c, d.cmd)
        /\ ~PowerLoss => \A d \in hist.delivered : ~(d[1] = c.signal /\ d[2] = c.seq)
    /\ \A d \in writer.done :
        /\ HasSlot(d.cmd)
        /\ d.ok /\ Held(d.cmd) => Holds(files, d.at, EncodedFrame(d.cmd))
        /\ \A e \in writer.done : SameSeq(d.cmd, e.cmd) => d = e

(* A batch that waits has its frame where its slot says. *)
SlotsOnDisk ==
    \A g \in Signals : \A s \in DOMAIN ring[g].slots :
        ring[g].slots[s].state = "Queued" =>
            Holds(files, ring[g].slots[s].at, [signal |-> g, seq |-> s, msg |-> ring[g].slots[s].msg])

SealedIds(W) == {seg.id : seg \in W}

Collecting == writer.phase = "reply" /\ writer.dirty /\ ~writer.failed

(* The sealed segments are what their files say and, unless they are being collected, not yet covered
   by the watermark. *)
SealedAgree ==
    /\ \A seg \in writer.sealed :
        /\ seg.id \in DOMAIN files
        /\ seg.maxSeq = MaxSeqs(files[seg.id])
        /\ ~Collecting => ~IsFullyAcked(seg, writer.persisted)
    /\ writer.active # 0 => writer.active \in DOMAIN files \ SealedIds(writer.sealed)
    /\ mode # "down" => \A id \in DOMAIN files : id < writer.next

(* A file that is neither active nor sealed was left by a failure, or recovery will delete it. *)
NoOrphans ==
    /\ mode = "running" /\ ~fatal /\ (\A d \in writer.done : d.ok) =>
        \A id \in DOMAIN files : id = writer.active \/ id \in SealedIds(writer.sealed)
    /\ mode = "recovering" =>
        \A id \in DOMAIN files \ SealedIds(writer.sealed) : \A i \in DOMAIN files[id] :
            files[id][i].seq <= wmFile[files[id][i].signal]

(* What a batch that was delivered leaves: its number is covered by the watermark or on disk, so that it
   is not given out again, and everything else with its number is the same batch. *)
DeliveredKept ==
    ~PowerLoss => \A d \in hist.delivered :
        /\ d[2] <= wmFile[d[1]] \/ \E f \in OnDisk(files) : f.signal = d[1] /\ f.seq = d[2]
        /\ \A f \in OnDisk(files) : f.signal = d[1] /\ f.seq = d[2] => f.msg = d[3]
        /\ mode # "down" => d[2] < ring[d[1]].next
        /\ d[2] \in DOMAIN ring[d[1]].slots => ring[d[1]].slots[d[2]].msg = d[3]
        /\ \A e \in hist.delivered : d[1] = e[1] /\ d[2] = e[2] => d[3] = e[3]

(* A place that no power loss can take, when S says how much is synced. *)
Safe(S, at) == PowerLoss => at[2] <= S[at[1]]

(* The frame f of batch m is at a safe place, above the watermark, and while the process runs its slot
   waits. *)
KeptAt(m, f, at) ==
    /\ Holds(files, at, f) /\ Safe(synced, at)
    /\ f.msg = m /\ f.seq > wmFile[f.signal]
    /\ mode # "down" =>
        /\ f.seq \in DOMAIN ring[f.signal].slots
        /\ ring[f.signal].slots[f.seq].state = "Queued" /\ ring[f.signal].slots[f.seq].msg = m

(* Every write is followed by its sync before it is answered. *)
Durable == PowerLoss => SyncOnWrite /\ "seal" \notin Faults

AcceptedKept ==
    Durable => \A m \in hist.accepted \ hist.resolved :
        \E f \in Frames : \E at \in Nat \X Nat : KeptAt(m, f, at)

(* What the group has written is in the active segment or synced, and all of it is synced when its
   appends are answered. *)
GroupSynced ==
    Durable /\ PowerLoss => \A d \in writer.done : d.ok /\ Held(d.cmd) =>
        /\ d.at[1] = writer.active \/ d.at[2] <= synced[d.at[1]]
        /\ writer.phase = "finish" /\ ~writer.failed => d.at[2] <= synced[d.at[1]]

(* No write of a frame stops half-way. *)
WholeWrites == "partial" \notin Faults

DiskInv ==
    /\ Shapes /\ RingsInOrder /\ Phases /\ MarksInOrder /\ FramesInOrder /\ AppendsInOrder
    /\ SlotsOnDisk /\ SealedAgree /\ NoOrphans /\ DeliveredKept /\ AcceptedKept /\ GroupSynced

-----------------------------------------------------------------------------
(* Numbers, sets and sequences                                              *)

(* A set of numbers has its least member. *)
LEMMA LeastMember ==
    ASSUME NEW S \in SUBSET Nat, S # {}
    PROVE  \E k \in S : \A j \in S : k <= j
  <1>1. PICK k \in S : \A j \in S : ~(<<j, k>> \in OpToRel(<, Nat))
    BY NatLessThanWellFounded, WFMin
  <1>2. \A j \in S : ~(j < k)
    BY <1>1 DEF OpToRel
  <1> QED BY <1>2

(* FiniteSetsExt's Min is that member. *)
LEMMA MinFacts ==
    ASSUME NEW S \in SUBSET Nat, S # {}
    PROVE  Min(S) \in S /\ \A x \in S : Min(S) <= x
  BY LeastMember DEF Min

(* A finite set of numbers has its greatest member: the one with fewest members above it. *)
LEMMA MaxFacts ==
    ASSUME NEW S \in SUBSET Nat, IsFiniteSet(S), S # {}
    PROVE  Max(S) \in S /\ \A x \in S : x <= Max(S)
  <1> DEFINE up(x) == {y \in S : y >= x}
             T == {Cardinality(up(x)) : x \in S}
  <1>1. ASSUME NEW x \in S PROVE IsFiniteSet(up(x)) /\ Cardinality(up(x)) \in Nat
    BY FS_Subset, FS_CardinalityType
  <1>2. T \in SUBSET Nat /\ T # {}
    BY <1>1
  <1>3. PICK k \in T : \A j \in T : k <= j
    <2> HIDE DEF T
    <2> QED BY <1>2, LeastMember
  <1>4. PICK x \in S : Cardinality(up(x)) = k
    BY <1>3
  <1>5. ASSUME NEW z \in S PROVE z <= x
    <2>1. SUFFICES ASSUME z > x PROVE FALSE
      OBVIOUS
    <2>0. x \in Nat /\ z \in Nat /\ \A y \in S : y \in Nat
      OBVIOUS
    <2>2. up(z) \in SUBSET up(x) /\ x \in up(x) /\ x \notin up(z)
      <3>1. \A y \in S : y >= z => y >= x
        BY <2>0, <2>1
      <3>2. ~(x >= z) /\ x >= x
        BY <2>0, <2>1
      <3> QED BY <3>1, <3>2
    <2>3. Cardinality(up(z)) < Cardinality(up(x))
      <3> DEFINE A == up(z)
                 B == up(x)
      <3>1. A # B /\ A \in SUBSET B /\ IsFiniteSet(B) /\ Cardinality(A) \in Nat /\ Cardinality(B) \in Nat
        BY <1>1, <2>2
      <3> HIDE DEF A, B
      <3>2. Cardinality(A) <= Cardinality(B) /\ Cardinality(A) # Cardinality(B)
        BY <3>1, FS_Subset
      <3>3. Cardinality(A) < Cardinality(B)
        BY <3>1, <3>2
      <3> QED BY <3>3 DEF A, B
    <2>4. Cardinality(up(z)) \in T
      OBVIOUS
    <2>5. k <= Cardinality(up(z)) /\ k \in Nat /\ Cardinality(up(z)) \in Nat
      BY <1>1, <1>2, <1>3, <2>4
    <2> HIDE DEF up, T
    <2> QED BY <1>4, <2>3, <2>5
  <1> QED BY <1>5 DEF Max

(* The greater of two numbers. *)
LEMMA MaxOfTwo ==
    ASSUME NEW a \in Nat, NEW b \in Nat
    PROVE  Max({a, b}) \in {a, b} /\ a <= Max({a, b}) /\ b <= Max({a, b})
  <1>1. IsFiniteSet({a, b})
    <2>1. IsFiniteSet({a} \union {b})
      BY FS_AddElement, FS_Singleton
    <2>2. {a} \union {b} = {a, b}
      OBVIOUS
    <2> QED BY <2>1, <2>2
  <1> QED BY <1>1, MaxFacts

(* The values of a function on a finite set are finitely many. *)
LEMMA FiniteImage ==
    ASSUME NEW f, IsFiniteSet(DOMAIN f)
    PROVE  IsFiniteSet({f[x] : x \in DOMAIN f})
  <1> DEFINE T == {f[x] : x \in DOMAIN f}
             h == [x \in DOMAIN f |-> f[x]]
  <1>1. h \in Surjection(DOMAIN f, T)
    BY DEF Surjection
  <1> HIDE DEF h, T
  <1>2. IsFiniteSet(T)
    BY <1>1, FS_Surjection
  <1> QED BY <1>2 DEF T

(* The members of a sequence are a finite set. *)
LEMMA SeqFacts ==
    ASSUME NEW S, NEW s \in Seq(S)
    PROVE  /\ Len(s) \in Nat /\ DOMAIN s = 1..Len(s) /\ \A i \in 1..Len(s) : s[i] \in S
           /\ s = [i \in 1..Len(s) |-> s[i]]
           /\ ToSet(s) = {s[i] : i \in 1..Len(s)} /\ IsFiniteSet(ToSet(s))
  <1>1. Len(s) \in Nat /\ DOMAIN s = 1..Len(s) /\ \A i \in 1..Len(s) : s[i] \in S
    BY ElementOfSeq, LenProperties
  <1>2. ToSet(s) = {s[i] : i \in 1..Len(s)}
    BY <1>1 DEF ToSet
  <1>3. IsFiniteSet(1..Len(s))
    BY <1>1, FS_Interval
  <1>4. IsFiniteSet({s[i] : i \in 1..Len(s)})
    <2>1. {s[i] : i \in 1..Len(s)} = {s[i] : i \in DOMAIN s}
      BY <1>1
    <2>2. IsFiniteSet({s[i] : i \in DOMAIN s})
      BY <1>1, <1>3, FiniteImage
    <2> QED BY <2>1, <2>2
  <1>5. s = [i \in 1..Len(s) |-> s[i]]
    BY <1>1
  <1> QED BY <1>1, <1>2, <1>4, <1>5

(* A prefix of a sequence. *)
LEMMA PrefixFacts ==
    ASSUME NEW S, NEW s \in Seq(S), NEW k \in Nat, k <= Len(s)
    PROVE  /\ SubSeq(s, 1, k) \in Seq(S) /\ Len(SubSeq(s, 1, k)) = k /\ DOMAIN SubSeq(s, 1, k) = 1..k
           /\ \A i \in 1..k : SubSeq(s, 1, k)[i] = s[i]
  <1>1. Len(s) \in Nat /\ \A i \in 1..Len(s) : s[i] \in S
    BY SeqFacts
  <1> DEFINE u == [i \in 1..k |-> s[i]]
  <1>2. SubSeq(s, 1, k) = u
    <2>1. SubSeq(s, 1, k) = [i \in 1..(1 + k - 1) |-> s[i + 1 - 1]]
      BY <1>1
    <2>2. 1 + k - 1 = k /\ \A i \in 1..k : i + 1 - 1 = i
      OBVIOUS
    <2> QED BY <2>1, <2>2
  <1>3. u \in [1..k -> S] /\ DOMAIN u = 1..k /\ \A i \in 1..k : u[i] = s[i]
    BY <1>1
  <1> HIDE DEF u
  <1>4. u \in Seq(S)
    BY <1>3, SeqDef
  <1>5. Len(u) = k
    BY <1>3, <1>4, LenProperties
  <1> QED BY <1>2, <1>3, <1>4, <1>5

-----------------------------------------------------------------------------
(* The model's operators                                                    *)

(* What the constants are. *)
LEMMA Constants ==
    /\ \A g \in Signals : FrameSize[g] \in Nat \ {0}
    /\ SegmentSize \in Nat \ {0}
  BY DiskAssumption

RingOK(r) ==
    /\ r \in Rings
    /\ r.committed < r.next
    /\ \A s \in DOMAIN r.slots : r.committed < s /\ s < r.next

(* advance_watermark moves the watermark up, at most to just below the least number that is held. *)
LEMMA AdvanceFacts ==
    ASSUME NEW r \in Rings, r.committed < r.next,
           \A s \in DOMAIN r.slots : r.committed < s /\ s < r.next
    PROVE  /\ RingOK(Advance(r))
           /\ Advance(r).slots = r.slots /\ Advance(r).next = r.next
           /\ r.committed <= Advance(r).committed
  <1> DEFINE low == IF DOMAIN r.slots = {} THEN r.next - 1 ELSE Min(DOMAIN r.slots) - 1
             c == Max({r.committed, low})
  <1>1. r.committed \in Nat /\ r.next \in Nat \ {0} /\ DOMAIN r.slots \in SUBSET Nat
    BY DEF Rings
  <1>2. low \in Nat /\ low < r.next /\ \A s \in DOMAIN r.slots : low < s
    <2>1. CASE DOMAIN r.slots = {}
      BY <1>1, <2>1
    <2>2. CASE DOMAIN r.slots # {}
      <3>1. Min(DOMAIN r.slots) \in DOMAIN r.slots /\ \A s \in DOMAIN r.slots : Min(DOMAIN r.slots) <= s
        BY <1>1, <2>2, MinFacts
      <3>2. Min(DOMAIN r.slots) \in Nat /\ Min(DOMAIN r.slots) < r.next /\ r.committed < Min(DOMAIN r.slots)
        BY <1>1, <3>1
      <3> QED BY <1>1, <2>2, <3>1, <3>2
    <2> QED BY <2>1, <2>2
  <1> HIDE DEF low
  <1>3. c \in {r.committed, low} /\ r.committed <= c
    BY <1>1, <1>2, MaxOfTwo
  <1>4. c \in Nat /\ c < r.next /\ \A s \in DOMAIN r.slots : c < s
    BY <1>1, <1>2, <1>3
  <1>5. Advance(r) = [r EXCEPT !.committed = c]
    BY DEF Advance, low
  <1> HIDE DEF c
  <1>6. Advance(r) \in Rings
    BY <1>4, <1>5 DEF Rings
  <1>7. Advance(r).slots = r.slots /\ Advance(r).next = r.next /\ Advance(r).committed = c
    BY <1>5 DEF Rings
  <1> QED BY <1>3, <1>4, <1>6, <1>7 DEF RingOK

(* Slots that are taken away. *)
LEMMA DropFacts ==
    ASSUME NEW r, RingOK(r), NEW S
    PROVE  /\ RingOK(DropSlots(r, S))
           /\ DropSlots(r, S).next = r.next
           /\ DOMAIN DropSlots(r, S).slots = DOMAIN r.slots \ S
           /\ \A s \in DOMAIN r.slots \ S : DropSlots(r, S).slots[s] = r.slots[s]
           /\ r.committed <= DropSlots(r, S).committed
  <1> DEFINE z == [s \in DOMAIN r.slots \ S |-> r.slots[s]]
             q == [r EXCEPT !.slots = z]
  <1>1. r \in Rings /\ DOMAIN r.slots \in SUBSET Nat /\ \A s \in DOMAIN r.slots : r.slots[s] \in Slots
    BY DEF RingOK, Rings
  <1>2. z \in UNION {[T -> Slots] : T \in SUBSET Nat}
    <2>1. z \in [DOMAIN r.slots \ S -> Slots] /\ DOMAIN r.slots \ S \in SUBSET Nat
      BY <1>1
    <2> QED BY <2>1
  <1>3. DropSlots(r, S) = Advance(q)
    BY DEF DropSlots
  <1>4. DOMAIN z = DOMAIN r.slots \ S /\ \A s \in DOMAIN z : z[s] = r.slots[s]
    OBVIOUS
  <1> HIDE DEF z
  <1>5. q \in Rings /\ q.slots = z /\ q.next = r.next /\ q.committed = r.committed
    BY <1>1, <1>2 DEF Rings
  <1> HIDE DEF q
  <1>6. q.committed < q.next /\ \A s \in DOMAIN q.slots : q.committed < s /\ s < q.next
    BY <1>4, <1>5 DEF RingOK
  <1>7. RingOK(Advance(q)) /\ Advance(q).slots = z /\ Advance(q).next = r.next /\ r.committed <= Advance(q).committed
    BY <1>5, <1>6, AdvanceFacts
  <1> QED BY <1>3, <1>4, <1>7

(* A slot for the next number. *)
LEMMA PutFacts ==
    ASSUME NEW r, RingOK(r), NEW slot \in Slots, NEW q,
           q = PutSlot([r EXCEPT !.next = r.next + 1], r.next, slot)
    PROVE  /\ RingOK(q)
           /\ q.next = r.next + 1 /\ q.committed = r.committed
           /\ DOMAIN q.slots = DOMAIN r.slots \union {r.next}
           /\ q.slots[r.next] = slot
           /\ \A s \in DOMAIN r.slots : s # r.next /\ q.slots[s] = r.slots[s]
  <1> DEFINE z == [s \in DOMAIN r.slots \union {r.next} |-> IF s = r.next THEN slot ELSE r.slots[s]]
  <1>1. /\ r \in Rings /\ DOMAIN r.slots \in SUBSET Nat /\ r.next \in Nat \ {0} /\ r.committed \in Nat
        /\ \A s \in DOMAIN r.slots : r.slots[s] \in Slots
    BY DEF RingOK, Rings
  <1>2. z \in UNION {[T -> Slots] : T \in SUBSET Nat}
    <2>1. z \in [DOMAIN r.slots \union {r.next} -> Slots] /\ DOMAIN r.slots \union {r.next} \in SUBSET Nat
      BY <1>1
    <2> QED BY <2>1
  <1>3. q = [r EXCEPT !.next = r.next + 1, !.slots = z]
    BY <1>1 DEF PutSlot, Rings
  <1>4. /\ DOMAIN z = DOMAIN r.slots \union {r.next} /\ z[r.next] = slot
        /\ \A s \in DOMAIN r.slots : s # r.next => z[s] = r.slots[s]
    OBVIOUS
  <1> HIDE DEF z
  <1>5. q \in Rings /\ q.slots = z /\ q.next = r.next + 1 /\ q.committed = r.committed
    <2> DEFINE n == r.next + 1
    <2>1. n \in Nat \ {0} /\ q = [r EXCEPT !.next = n, !.slots = z]
      BY <1>1, <1>3
    <2> HIDE DEF n
    <2>2. q = [next |-> n, slots |-> z, committed |-> r.committed]
      BY <1>1, <2>1 DEF Rings
    <2>3. q \in Rings
      BY <1>1, <1>2, <2>1, <2>2 DEF Rings
    <2> QED BY <2>2, <2>3 DEF n
  <1>6. \A s \in DOMAIN r.slots : s \in Nat /\ s < r.next /\ r.committed < s
    BY <1>1 DEF RingOK
  <1>7. r.committed < r.next
    BY DEF RingOK
  <1>8. RingOK(q)
    BY <1>1, <1>4, <1>5, <1>6, <1>7 DEF RingOK
  <1> QED BY <1>4, <1>5, <1>6, <1>8

(* merge_monotonic: the least watermark that is at least all of them. *)
LEMMA MergeFacts ==
    ASSUME NEW w \in Marks, NEW cs \in SUBSET Updates, IsFiniteSet(cs)
    PROVE  /\ Merge(w, cs) \in Marks
           /\ AtMost(w, Merge(w, cs))
           /\ \A c \in cs : AtMost(c.wm, Merge(w, cs))
           /\ \A g \in Signals : Merge(w, cs)[g] = w[g] \/ \E c \in cs : Merge(w, cs)[g] = c.wm[g]
  <1> DEFINE S(g) == {w[g]} \union {c.wm[g] : c \in cs}
  <1>0. w \in [Signals -> Nat] /\ \A c \in cs : c.wm \in [Signals -> Nat]
    BY DEF Marks, Updates
  <1>1. ASSUME NEW g \in Signals
        PROVE  Max(S(g)) \in S(g) /\ (\A x \in S(g) : x <= Max(S(g))) /\ S(g) \in SUBSET Nat
    <2> DEFINE f == [c \in cs |-> c.wm[g]]
    <2>1. IsFiniteSet({f[c] : c \in DOMAIN f})
      <3>1. IsFiniteSet(DOMAIN f)
        OBVIOUS
      <3> HIDE DEF f
      <3> QED BY <3>1, FiniteImage
    <2>2. {f[c] : c \in DOMAIN f} = {c.wm[g] : c \in cs}
      OBVIOUS
    <2>3. IsFiniteSet(S(g))
      <3>1. IsFiniteSet({w[g]})
        BY FS_Singleton
      <3> QED BY <2>1, <2>2, <3>1, FS_Union
    <2>4. S(g) \in SUBSET Nat /\ S(g) # {}
      BY <1>0
    <2> HIDE DEF S
    <2> QED BY <2>3, <2>4, MaxFacts
  <1>2. Merge(w, cs) = [g \in Signals |-> Max(S(g))]
    BY DEF Merge
  <1>3. \A g \in Signals : w[g] \in S(g) /\ \A c \in cs : c.wm[g] \in S(g)
    OBVIOUS
  <1>4. \A g \in Signals : \A x \in S(g) : x = w[g] \/ \E c \in cs : x = c.wm[g]
    OBVIOUS
  <1> HIDE DEF S
  <1>5. Merge(w, cs) \in Marks
    BY <1>1, <1>2 DEF Marks
  <1> QED BY <1>1, <1>2, <1>3, <1>4, <1>5 DEF AtMost

(* max_seq of a segment's frames. *)
LEMMA MaxSeqsFacts ==
    ASSUME NEW s \in Seq(Frames)
    PROVE  /\ MaxSeqs(s) \in Marks
           /\ \A i \in DOMAIN s : s[i].signal \in Signals /\ s[i].seq <= MaxSeqs(s)[s[i].signal]
           /\ \A w \in Marks : ~AtMost(MaxSeqs(s), w) => \E i \in DOMAIN s : s[i].seq > w[s[i].signal]
  <1> DEFINE T(g) == {f.seq : f \in {f \in ToSet(s) : f.signal = g}}
  <1>0. /\ DOMAIN s = 1..Len(s) /\ IsFiniteSet(ToSet(s)) /\ ToSet(s) = {s[i] : i \in 1..Len(s)}
        /\ \A i \in 1..Len(s) : s[i] \in Frames
    BY SeqFacts
  <1>1. ASSUME NEW g \in Signals
        PROVE  /\ MaxOf(T(g)) \in T(g) \union {0}
               /\ \A x \in T(g) : x <= MaxOf(T(g))
               /\ T(g) \in SUBSET Nat
    <2> DEFINE F == {f \in ToSet(s) : f.signal = g}
               h == [f \in F |-> f.seq]
    <2>1. IsFiniteSet(F)
      BY <1>0, FS_Subset
    <2>2. IsFiniteSet({h[f] : f \in DOMAIN h})
      <3>1. IsFiniteSet(DOMAIN h)
        BY <2>1
      <3> HIDE DEF h
      <3> QED BY <3>1, FiniteImage
    <2>3. {h[f] : f \in DOMAIN h} = T(g)
      OBVIOUS
    <2>4. T(g) \in SUBSET Nat
      BY <1>0 DEF Frames
    <2> HIDE DEF T
    <2>5. IsFiniteSet(T(g) \union {0}) /\ T(g) \union {0} \in SUBSET Nat /\ T(g) \union {0} # {}
      <3>1. IsFiniteSet(T(g))
        BY <2>2, <2>3
      <3>2. IsFiniteSet(T(g) \union {0})
        BY <3>1, FS_AddElement
      <3> QED BY <2>4, <3>2
    <2>6. MaxOf(T(g)) = Max(T(g) \union {0})
      BY DEF MaxOf
    <2> QED BY <2>4, <2>5, <2>6, MaxFacts
  <1>2. MaxSeqs(s) = [g \in Signals |-> MaxOf(T(g))]
    BY DEF MaxSeqs
  <1>3. \A i \in DOMAIN s : s[i].signal \in Signals /\ s[i].seq \in T(s[i].signal)
    BY <1>0 DEF Frames
  <1>4. \A g \in Signals : \A x \in T(g) : \E i \in DOMAIN s : s[i].signal = g /\ s[i].seq = x
    BY <1>0
  <1> HIDE DEF T
  <1>5. \A g \in Signals : MaxSeqs(s)[g] = MaxOf(T(g)) /\ MaxOf(T(g)) \in Nat
    BY <1>1, <1>2
  <1>6. MaxSeqs(s) \in Marks
    BY <1>2, <1>5 DEF Marks
  <1>7. ASSUME NEW w \in Marks, ~AtMost(MaxSeqs(s), w) PROVE \E i \in DOMAIN s : s[i].seq > w[s[i].signal]
    <2>1. PICK g \in Signals : ~(MaxOf(T(g)) <= w[g])
      BY <1>5, <1>7 DEF AtMost
    <2>2. MaxOf(T(g)) \in T(g)
      BY <1>1, <2>1 DEF Marks
    <2>3. PICK i \in DOMAIN s : s[i].signal = g /\ s[i].seq = MaxOf(T(g))
      BY <1>4, <2>2
    <2>4. w[g] \in Nat /\ MaxOf(T(g)) \in Nat
      BY <1>5 DEF Marks
    <2> QED BY <2>1, <2>3, <2>4
  <1> QED BY <1>1, <1>3, <1>5, <1>6, <1>7

(* bytes_written of an intact segment points behind its last frame. *)
LEMMA OffsetFacts ==
    ASSUME NEW s \in Seq(Frames)
    PROVE  OffsetIn(s) = Len(s) + 1
  <1>1. Len(s) \in Nat /\ DOMAIN s = 1..Len(s) /\ \A i \in 1..Len(s) : s[i] \in Frames
    BY SeqFacts
  <1>2. \A f \in Frames : f # Garbage
    BY DEF Frames, Garbage
  <1>3. {i \in DOMAIN s : s[i] # Garbage} = 1..Len(s)
    BY <1>1, <1>2
  <1>4. Cardinality(1..Len(s)) = Len(s)
    <2>1. Cardinality(1..Len(s)) = IF 1 > Len(s) THEN 0 ELSE Len(s) - 1 + 1
      BY <1>1, FS_Interval, SMTT(60)
    <2> QED BY <1>1, <2>1
  <1> QED BY <1>3, <1>4 DEF OffsetIn

(* A torn frame is no frame. *)
LEMMA GarbageIsNone == Garbage \notin Frames
  BY DEF Frames, Garbage

(* Of a segment whose last frame may be torn, recovery reads the others. *)
LEMMA DecodableFacts ==
    ASSUME NEW s \in Seq(Frames \union {Garbage}),
           \A i \in DOMAIN s : s[i] = Garbage => i = Len(s)
    PROVE  /\ Decodable(s) \in Seq(Frames)
           /\ DOMAIN Decodable(s) = {i \in DOMAIN s : s[i] # Garbage}
           /\ \A i \in DOMAIN Decodable(s) : Decodable(s)[i] = s[i]
           /\ s \in Seq(Frames) => Decodable(s) = s
  <1> DEFINE bad == {i \in DOMAIN s : s[i] = Garbage}
             n == Len(s)
  <1>1. n \in Nat /\ DOMAIN s = 1..n /\ \A i \in 1..n : s[i] \in Frames \union {Garbage}
    BY SeqFacts
  <1>2. CASE bad = {}
    <2>1. Decodable(s) = s
      BY <1>2 DEF Decodable
    <2>2. \A i \in 1..n : s[i] \in Frames /\ s[i] # Garbage
      BY <1>1, <1>2
    <2>3. s \in Seq(Frames)
      <3>1. s = [i \in 1..n |-> s[i]]
        BY SeqFacts
      <3> QED BY <1>1, <2>2, <3>1, SeqDef
    <2> QED BY <1>1, <2>1, <2>2, <2>3
  <1>3. CASE bad # {}
    <2>1. bad = {n} /\ n \in 1..n
      BY <1>1, <1>3
    <2>2. Min(bad) = n
      <3>1. bad \in SUBSET Nat
        BY <1>1
      <3> HIDE DEF bad
      <3> QED BY <1>3, <2>1, <3>1, MinFacts
    <2>3. Decodable(s) = SubSeq(s, 1, n - 1)
      BY <1>3, <2>2 DEF Decodable
    <2>4. \A i \in 1..(n - 1) : s[i] \in Frames /\ s[i] # Garbage
      BY <1>1, <2>1
    <2>5. /\ SubSeq(s, 1, n - 1) \in Seq(Frames)
          /\ Len(SubSeq(s, 1, n - 1)) = n - 1
          /\ \A i \in 1..(n - 1) : SubSeq(s, 1, n - 1)[i] = s[i]
      <3>1. n - 1 \in Nat
        BY <1>1, <2>1
      <3>2. SubSeq(s, 1, n - 1) = [i \in 1..(n - 1) |-> s[i]]
        <4>1. SubSeq(s, 1, n - 1) = [i \in 1..(1 + (n - 1) - 1) |-> s[i + 1 - 1]]
          BY <1>1, <3>1
        <4>2. 1 + (n - 1) - 1 = n - 1 /\ \A i \in 1..(n - 1) : i + 1 - 1 = i
          BY <1>1
        <4> QED BY <4>1, <4>2
      <3> DEFINE u == [i \in 1..(n - 1) |-> s[i]]
                 k == n - 1
      <3>3. u \in [1..k -> Frames] /\ k \in Nat
        BY <2>4, <3>1
      <3>4. u \in Seq(Frames)
        BY <3>3, SeqDef
      <3>5. Len(u) = k
        <4> HIDE DEF k
        <4>1. DOMAIN u = 1..k
          BY <3>3
        <4> HIDE DEF u
        <4> QED BY <3>3, <3>4, <4>1, LenProperties
      <3> QED BY <3>2, <3>4, <3>5
    <2>6. DOMAIN SubSeq(s, 1, n - 1) = 1..(n - 1)
      BY <2>5, SeqFacts
    <2>7. {i \in DOMAIN s : s[i] # Garbage} = 1..(n - 1)
      <3>1. \A i \in 1..n : s[i] # Garbage <=> i # n
        BY <1>1, <2>1, ZenonT(60)
      <3>2. {i \in DOMAIN s : s[i] # Garbage} = {i \in 1..n : i # n}
        BY <1>1, <3>1
      <3> HIDE DEF n
      <3>3. {i \in 1..n : i # n} = 1..(n - 1)
        BY <1>1
      <3> QED BY <3>2, <3>3, SMTT(60)
    <2>8. s \notin Seq(Frames)
      <3>1. s[n] = Garbage
        BY <2>1
      <3> QED BY <1>1, <2>1, <3>1, GarbageIsNone, ElementOfSeq
    <2> QED BY <2>3, <2>5, <2>6, <2>7, <2>8
  <1> QED BY <1>2, <1>3

(* Files without torn frames. *)
LEMMA IntactFiles ==
    ASSUME NEW F, F = [id \in DOMAIN F |-> F[id]], DOMAIN F \subseteq Nat \ {0}, IsFiniteSet(DOMAIN F),
           Intact(F)
    PROVE  Files(F)
  <1>1. ASSUME NEW id \in DOMAIN F
        PROVE  /\ F[id] \in Seq(Frames \union {Garbage})
               /\ \A i \in DOMAIN F[id] : F[id][i] # Garbage
    <2>1. F[id] \in Seq(Frames)
      BY DEF Intact
    <2>2. /\ Len(F[id]) \in Nat /\ DOMAIN F[id] = 1..Len(F[id]) /\ \A i \in 1..Len(F[id]) : F[id][i] \in Frames
          /\ F[id] = [i \in 1..Len(F[id]) |-> F[id][i]]
      BY <2>1, SeqFacts
    <2>3. F[id] \in [1..Len(F[id]) -> Frames \union {Garbage}]
      BY <2>2
    <2>4. F[id] \in Seq(Frames \union {Garbage})
      BY <2>2, <2>3, SeqDef
    <2> QED BY <2>2, <2>4, GarbageIsNone
  <1> QED BY <1>1 DEF Files

-----------------------------------------------------------------------------
(* Disks: [files, synced, sealed]                                           *)

(* What the writer knows of a disk d when the watermark w is persisted. *)
DiskOK(d, w) ==
    /\ d.files = [id \in DOMAIN d.files |-> d.files[id]]
    /\ DOMAIN d.files \subseteq Nat \ {0} /\ IsFiniteSet(DOMAIN d.files)
    /\ Intact(d.files) /\ Synced(d.files, d.synced)
    /\ d.sealed \subseteq Segments
    /\ \A seg \in d.sealed :
        /\ seg.id \in DOMAIN d.files
        /\ seg.maxSeq = MaxSeqs(d.files[seg.id])
        /\ ~IsFullyAcked(seg, w)

Places == Nat \X Nat

(* A frame above the watermark is at this place. *)
Needed(F, at, f) == Holds(F, at, f) /\ f.seq > writer.persisted[f.signal]

(* Disk e came about from the present one: it has the frames that are needed, where they are and as
   safe as they are, and at most the frames X besides. *)
Follows(e, X) ==
    /\ DiskOK(e, writer.persisted)
    /\ \A at \in Places : \A f \in Frames : Needed(files, at, f) =>
        Holds(e.files, at, f) /\ (at[2] <= synced[at[1]] => at[2] <= e.synced[at[1]])
    /\ OnDisk(e.files) \subseteq OnDisk(files) \union X

(* Segment a of e, or none, is active and n is the next id. *)
Active(e, a, n) ==
    /\ a \in Nat /\ (a # 0 => a \in DOMAIN e.files \ SealedIds(e.sealed))
    /\ n \in Nat \ {0} /\ \A id \in DOMAIN e.files : id < n

(* What was in the active segment or synced still is. *)
StaysSynced(e, a) ==
    \A at \in Places : \A f \in Frames :
        Needed(files, at, f) /\ (at[1] = writer.active \/ at[2] <= synced[at[1]]) =>
            at[1] = a \/ at[2] <= e.synced[at[1]]

(* Every file is active or sealed. *)
Owned(F, a, W) == \A id \in DOMAIN F : id = a \/ id \in SealedIds(W)

StaysOwned(e, a) == Owned(files, writer.active, writer.sealed) => Owned(e.files, a, e.sealed)

(* Sealing segment a of a disk: it is synced, and either kept or, when the watermark covers it, deleted. *)
LEMMA SealFacts ==
    ASSUME NEW e, NEW a, writer.persisted \in Marks, DiskOK(e, writer.persisted),
           a \in DOMAIN e.files \ SealedIds(e.sealed),
           NEW z, z = Seal(e, a)
    PROVE  /\ DiskOK(z, writer.persisted)
           /\ DOMAIN z.files \subseteq DOMAIN e.files
           /\ OnDisk(z.files) \subseteq OnDisk(e.files)
           /\ \A at \in Places : \A f \in Frames : Needed(e.files, at, f) =>
                 /\ Holds(z.files, at, f)
                 /\ at[1] = a \/ at[2] <= e.synced[at[1]] => at[2] <= z.synced[at[1]]
           /\ Owned(e.files, a, e.sealed) => Owned(z.files, 0, z.sealed)
  <1> DEFINE s == e.files[a]
             n == [id |-> a, maxSeq |-> MaxSeqs(s)]
             all == e.sealed \union {n}
             gone == Reclaimable(all, writer.persisted)
             w == writer.persisted
  <1>1. /\ a \in Nat \ {0} /\ a \in DOMAIN e.files /\ s \in Seq(Frames)
        /\ \A seg \in e.sealed : seg.id # a /\ ~IsFullyAcked(seg, w)
    BY DEF DiskOK, Intact, SealedIds
  <1>2. MaxSeqs(s) \in Marks
    BY <1>1, MaxSeqsFacts
  <1>3. n \in Segments /\ n.id = a /\ n.maxSeq = MaxSeqs(s)
    BY <1>1, <1>2 DEF Segments
  <1>4. IsFullyAcked(n, w) <=> AtMost(MaxSeqs(s), w)
    BY <1>3 DEF IsFullyAcked, AtMost
  <1>5. /\ gone = IF AtMost(MaxSeqs(s), w) THEN {a} ELSE {}
        /\ z.files = [id \in DOMAIN e.files \ gone |-> e.files[id]]
        /\ z.synced = [id \in (DOMAIN e.synced \union {a}) \ gone |-> IF id = a THEN Len(s) ELSE e.synced[id]]
        /\ z.sealed = {seg \in all : seg.id \notin gone}
    <2>1. gone = IF AtMost(MaxSeqs(s), w) THEN {a} ELSE {}
      <3>1. \A seg \in all : IsFullyAcked(seg, w) <=> seg = n /\ AtMost(MaxSeqs(s), w)
        BY <1>1, <1>4
      <3> HIDE DEF n
      <3> QED BY <1>3, <3>1 DEF Reclaimable
    <2>2. z = [files  |-> Without(e.files, gone),
               synced |-> Without(With(e.synced, a, Len(s)), gone),
               sealed |-> {seg \in all : seg.id \notin gone}]
      BY DEF Seal
    <2> HIDE DEF gone, s
    <2>3. /\ Without(e.files, gone) = [id \in DOMAIN e.files \ gone |-> e.files[id]]
          /\ Without(With(e.synced, a, Len(s)), gone)
               = [id \in (DOMAIN e.synced \union {a}) \ gone |-> IF id = a THEN Len(s) ELSE e.synced[id]]
      BY DEF Without, With
    <2> DEFINE A == Without(e.files, gone)
               B == Without(With(e.synced, a, Len(s)), gone)
               C == {seg \in all : seg.id \notin gone}
    <2>4. z.files = A /\ z.synced = B /\ z.sealed = C
      <3>1. z = [files |-> A, synced |-> B, sealed |-> C]
        BY <2>2
      <3> HIDE DEF A, B, C
      <3> QED BY <3>1
    <2> HIDE DEF all, w, n
    <2> QED BY <2>1, <2>3, <2>4
  <1>6. DOMAIN e.synced = DOMAIN e.files /\ \A id \in DOMAIN e.files : e.synced[id] \in 0..Len(e.files[id])
    BY DEF DiskOK, Synced
  <1> HIDE DEF n, gone, w
  <1>7. /\ DOMAIN z.files = DOMAIN e.files \ gone /\ DOMAIN z.synced = DOMAIN z.files
        /\ \A id \in DOMAIN z.files : z.files[id] = e.files[id]
        /\ \A id \in DOMAIN z.files : z.synced[id] = IF id = a THEN Len(s) ELSE e.synced[id]
    BY <1>1, <1>5, <1>6
  <1>8. gone \subseteq {a} /\ (a \in gone <=> AtMost(MaxSeqs(s), w))
    BY <1>5
  <1>9. Len(s) \in Nat
    BY <1>1, SeqFacts
  <1>10. DiskOK(z, w)
    <2>1. Intact(z.files) /\ Synced(z.files, z.synced)
      <3>1. \A id \in DOMAIN z.files : z.files[id] \in Seq(Frames)
        BY <1>7 DEF DiskOK, Intact
      <3>2. \A id \in DOMAIN z.files : z.synced[id] \in 0..Len(z.files[id])
        <4>1. ASSUME NEW id \in DOMAIN z.files PROVE z.synced[id] \in 0..Len(z.files[id])
          <5>1. CASE id = a
            BY <1>7, <1>9, <5>1
          <5>2. CASE id # a
            BY <1>6, <1>7, <5>2
          <5> QED BY <5>1, <5>2
        <4> QED BY <4>1
      <3>3. z.synced = [id \in DOMAIN z.files |-> z.synced[id]]
        BY <1>1, <1>5, <1>6, <1>7
      <3> QED BY <3>1, <3>2, <3>3 DEF Intact, Synced
    <2>2. IsFiniteSet(DOMAIN z.files) /\ DOMAIN z.files \subseteq Nat \ {0}
      BY <1>7, FS_Subset DEF DiskOK
    <2>3. z.files = [id \in DOMAIN z.files |-> z.files[id]]
      BY <1>5
    <2>4. z.sealed \subseteq Segments
      BY <1>3, <1>5 DEF DiskOK
    <2>5. ASSUME NEW seg \in z.sealed
          PROVE  /\ seg.id \in DOMAIN z.files
                 /\ seg.maxSeq = MaxSeqs(z.files[seg.id])
                 /\ ~IsFullyAcked(seg, w)
      <3>1. CASE seg = n
        <4>1. a \notin gone
          BY <1>3, <1>5, <3>1
        <4>2. a \in DOMAIN z.files /\ z.files[a] = s /\ ~IsFullyAcked(n, w)
          BY <1>1, <1>4, <1>7, <1>8, <4>1
        <4> QED BY <1>3, <3>1, <4>2
      <3>2. CASE seg \in e.sealed
        <4>1. seg.id \in DOMAIN e.files /\ seg.maxSeq = MaxSeqs(e.files[seg.id]) /\ seg.id # a
          BY <1>1, <3>2 DEF DiskOK
        <4>2. seg.id \in DOMAIN z.files /\ z.files[seg.id] = e.files[seg.id]
          BY <1>7, <1>8, <4>1
        <4> QED BY <1>1, <3>2, <4>1, <4>2
      <3> QED BY <1>5, <3>1, <3>2
    <2> QED BY <2>1, <2>2, <2>3, <2>4, <2>5 DEF DiskOK
  <1>11. OnDisk(z.files) \subseteq OnDisk(e.files)
    BY <1>7 DEF OnDisk
  <1>12. ASSUME NEW at \in Places, NEW f \in Frames, Needed(e.files, at, f)
         PROVE  /\ Holds(z.files, at, f)
                /\ at[1] = a \/ at[2] <= e.synced[at[1]] => at[2] <= z.synced[at[1]]
    <2>1. at[1] \in DOMAIN e.files /\ at[2] \in DOMAIN e.files[at[1]] /\ e.files[at[1]][at[2]] = f
      BY <1>12 DEF Needed, Holds
    <2>2. at[1] \notin gone
      <3>1. SUFFICES ASSUME at[1] \in gone PROVE FALSE
        OBVIOUS
      <3>2. at[1] = a /\ AtMost(MaxSeqs(s), w)
        BY <1>8, <3>1
      <3>3. s[at[2]].signal \in Signals /\ s[at[2]].seq <= MaxSeqs(s)[s[at[2]].signal]
        BY <1>1, <2>1, <3>2, MaxSeqsFacts
      <3>4. f.signal \in Signals /\ f.seq <= MaxSeqs(s)[f.signal]
        BY <2>1, <3>2, <3>3
      <3>5. MaxSeqs(s)[f.signal] <= w[f.signal] /\ f.seq > w[f.signal]
        BY <1>12, <3>2, <3>4 DEF AtMost, Needed, w
      <3>6. f.seq \in Nat /\ MaxSeqs(s)[f.signal] \in Nat /\ w[f.signal] \in Nat
        BY <1>2, <3>4 DEF Frames, Marks, w
      <3> QED BY <3>4, <3>5, <3>6
    <2>3. Holds(z.files, at, f)
      BY <1>7, <2>1, <2>2 DEF Holds
    <2>4. at[1] \in DOMAIN z.files
      BY <1>7, <2>1, <2>2
    <2>5. CASE at[1] = a
      <3>1. at[2] \in DOMAIN s
        BY <2>1, <2>5
      <3>2. at[2] \in 1..Len(s)
        BY <1>1, <3>1, SeqFacts
      <3> QED BY <1>7, <1>9, <2>3, <2>4, <2>5, <3>2
    <2>6. CASE at[1] # a
      BY <1>7, <2>3, <2>4, <2>6
    <2> QED BY <2>5, <2>6
  <1>13. ASSUME Owned(e.files, a, e.sealed) PROVE Owned(z.files, 0, z.sealed)
    <2>1. ASSUME NEW id \in DOMAIN z.files PROVE id \in SealedIds(z.sealed)
      <3>1. id \in DOMAIN e.files /\ id \notin gone
        BY <1>7
      <3>2. CASE id = a
        <4>1. n \in z.sealed
          BY <1>3, <1>5, <3>1, <3>2
        <4> QED BY <1>3, <3>2, <4>1 DEF SealedIds
      <3>3. CASE id \in SealedIds(e.sealed)
        BY <1>5, <3>1, <3>3 DEF SealedIds
      <3> QED BY <1>13, <3>1, <3>2, <3>3 DEF Owned
    <2> QED BY <2>1 DEF Owned
  <1> QED BY <1>7, <1>10, <1>11, <1>12, <1>13 DEF w

(* The present disk. *)
Now == [files |-> files, synced |-> synced, sealed |-> writer.sealed]

(* What a write may do to the disk: e follows from the present one with active segment a and next id n. *)
Outcome(e, a, n, X) ==
    Follows(e, X) /\ Active(e, a, n) /\ StaysSynced(e, a) /\ StaysOwned(e, a)

(* Sealing its active segment is such an outcome again, *)
LEMMA SealOutcome ==
    ASSUME writer.persisted \in Marks,
           NEW e, NEW a, NEW n, NEW X, Outcome(e, a, n, X), a # 0, NEW z, z = Seal(e, a)
    PROVE  Outcome(z, 0, n, X)
  <1>1. /\ DiskOK(e, writer.persisted) /\ a \in DOMAIN e.files \ SealedIds(e.sealed)
        /\ n \in Nat \ {0} /\ \A id \in DOMAIN e.files : id < n
    BY DEF Outcome, Follows, Active
  <1>2. /\ DiskOK(z, writer.persisted)
        /\ DOMAIN z.files \subseteq DOMAIN e.files
        /\ OnDisk(z.files) \subseteq OnDisk(e.files)
        /\ \A at \in Places : \A f \in Frames : Needed(e.files, at, f) =>
              /\ Holds(z.files, at, f)
              /\ at[1] = a \/ at[2] <= e.synced[at[1]] => at[2] <= z.synced[at[1]]
        /\ Owned(e.files, a, e.sealed) => Owned(z.files, 0, z.sealed)
    BY <1>1, SealFacts
  <1>3. ASSUME NEW at \in Places, NEW f \in Frames, Needed(files, at, f)
        PROVE  /\ Holds(z.files, at, f) /\ (at[2] <= synced[at[1]] => at[2] <= z.synced[at[1]])
               /\ at[1] = writer.active \/ at[2] <= synced[at[1]] => at[2] <= z.synced[at[1]]
    <2>1. Needed(e.files, at, f)
      BY <1>3 DEF Outcome, Follows, Needed
    <2>2. /\ at[2] <= synced[at[1]] => at[2] <= e.synced[at[1]]
          /\ at[1] = writer.active \/ at[2] <= synced[at[1]] => at[1] = a \/ at[2] <= e.synced[at[1]]
      BY <1>3 DEF Outcome, Follows, StaysSynced
    <2> QED BY <1>2, <2>1, <2>2
  <1>4. Follows(z, X)
    <2>1. OnDisk(z.files) \subseteq OnDisk(files) \union X
      BY <1>2 DEF Outcome, Follows
    <2> QED BY <1>2, <1>3, <2>1 DEF Follows
  <1>5. Active(z, 0, n)
    BY <1>1, <1>2 DEF Active
  <1>6. StaysSynced(z, 0) /\ StaysOwned(z, 0)
    BY <1>2, <1>3 DEF StaysSynced, StaysOwned, Outcome
  <1> QED BY <1>4, <1>5, <1>6 DEF Outcome

(* and so are a new segment, *)
LEMMA OpenOutcome ==
    ASSUME NEW e, NEW n, NEW X, Outcome(e, 0, n, X), NEW z,
           z.files = With(e.files, n, <<>>), z.synced = With(e.synced, n, 0), z.sealed = e.sealed
    PROVE  Outcome(z, n, n + 1, X)
  <1>1. /\ DiskOK(e, writer.persisted) /\ n \in Nat \ {0} /\ \A id \in DOMAIN e.files : id < n
    BY DEF Outcome, Follows, Active
  <1>2. DOMAIN e.files \subseteq Nat \ {0} /\ n \notin DOMAIN e.files
    BY <1>1 DEF DiskOK
  <1>3. /\ DOMAIN z.files = DOMAIN e.files \union {n} /\ DOMAIN z.synced = DOMAIN z.files
        /\ z.files[n] = <<>> /\ z.synced[n] = 0
        /\ \A id \in DOMAIN e.files : z.files[id] = e.files[id] /\ z.synced[id] = e.synced[id]
        /\ z.files = [id \in DOMAIN z.files |-> z.files[id]]
        /\ z.synced = [id \in DOMAIN z.files |-> z.synced[id]]
    <2>1. DOMAIN e.synced = DOMAIN e.files
      BY <1>1 DEF DiskOK, Synced
    <2> QED BY <1>2, <2>1 DEF With
  <1>4. <<>> \in Seq(Frames) /\ Len(<<>>) = 0 /\ DOMAIN <<>> = {}
    BY EmptySeq
  <1>5. DiskOK(z, writer.persisted)
    <2>1. Intact(z.files) /\ Synced(z.files, z.synced)
      <3>1. \A id \in DOMAIN e.files : e.files[id] \in Seq(Frames) /\ e.synced[id] \in 0..Len(e.files[id])
        BY <1>1 DEF DiskOK, Intact, Synced
      <3>2. \A id \in DOMAIN z.files : z.files[id] \in Seq(Frames) /\ z.synced[id] \in 0..Len(z.files[id])
        <4>1. z.files[n] \in Seq(Frames) /\ z.synced[n] \in 0..Len(z.files[n])
          <5>1. z.files[n] = <<>> /\ z.synced[n] = 0
            BY <1>3
          <5>2. Len(z.files[n]) = 0 /\ z.files[n] \in Seq(Frames)
            BY <1>4, <5>1, Zenon
          <5>3. 0 \in 0..0
            OBVIOUS
          <5> QED BY <5>1, <5>2, <5>3
        <4> QED BY <1>3, <3>1, <4>1
      <3> QED BY <1>3, <3>2 DEF Intact, Synced
    <2>2. IsFiniteSet(DOMAIN z.files) /\ DOMAIN z.files \subseteq Nat \ {0}
      <3>1. IsFiniteSet(DOMAIN e.files)
        BY <1>1 DEF DiskOK
      <3>2. IsFiniteSet(DOMAIN e.files \union {n})
        BY <3>1, FS_AddElement
      <3> QED BY <1>1, <1>2, <1>3, <3>2
    <2>3. \A seg \in z.sealed : /\ seg.id \in DOMAIN z.files
                                /\ seg.maxSeq = MaxSeqs(z.files[seg.id])
                                /\ ~IsFullyAcked(seg, writer.persisted)
      BY <1>1, <1>3 DEF DiskOK
    <2>4. z.sealed \subseteq Segments
      BY <1>1 DEF DiskOK
    <2> QED BY <1>3, <2>1, <2>2, <2>3, <2>4 DEF DiskOK
  <1>6. OnDisk(z.files) \subseteq OnDisk(e.files)
    BY <1>3, <1>4 DEF OnDisk
  <1>7. \A at \in Places : \A f \in Frames : Holds(e.files, at, f) =>
            Holds(z.files, at, f) /\ z.synced[at[1]] = e.synced[at[1]]
    BY <1>3 DEF Holds
  <1>8. Follows(z, X)
    <2>1. OnDisk(z.files) \subseteq OnDisk(files) \union X
      BY <1>6 DEF Outcome, Follows
    <2>2. \A at \in Places : \A f \in Frames : Needed(files, at, f) =>
              Holds(e.files, at, f) /\ (at[2] <= synced[at[1]] => at[2] <= e.synced[at[1]])
      BY DEF Outcome, Follows
    <2> QED BY <1>5, <1>7, <2>1, <2>2 DEF Follows
  <1>9. Active(z, n, n + 1)
    <2>1. n \notin SealedIds(z.sealed)
      BY <1>1, <1>2 DEF DiskOK, SealedIds
    <2>2. n + 1 \in Nat \ {0} /\ n \in Nat /\ n < n + 1
      BY <1>1
    <2>3. \A id \in DOMAIN e.files : id < n + 1
      BY <1>1, <1>2
    <2> QED BY <1>3, <2>1, <2>2, <2>3 DEF Active
  <1>10. StaysSynced(z, n)
    <2>1. ASSUME NEW at \in Places, NEW f \in Frames, Needed(files, at, f),
                 at[1] = writer.active \/ at[2] <= synced[at[1]]
          PROVE  at[2] <= z.synced[at[1]]
      <3>1. Holds(e.files, at, f) /\ (at[1] = 0 \/ at[2] <= e.synced[at[1]])
        BY <2>1 DEF Outcome, Follows, StaysSynced
      <3>2. at[1] # 0
        BY <1>2, <3>1 DEF Holds
      <3> QED BY <1>7, <3>1, <3>2
    <2> QED BY <2>1 DEF StaysSynced
  <1>11. StaysOwned(z, n)
    <2>1. SUFFICES ASSUME Owned(files, writer.active, writer.sealed) PROVE Owned(z.files, n, z.sealed)
      BY DEF StaysOwned
    <2>2. \A id \in DOMAIN e.files : id = 0 \/ id \in SealedIds(e.sealed)
      BY <2>1 DEF Outcome, StaysOwned, Owned
    <2>3. \A id \in DOMAIN e.files : id \in SealedIds(z.sealed)
      BY <1>2, <2>2
    <2> QED BY <1>3, <2>3 DEF Owned
  <1> QED BY <1>8, <1>9, <1>10, <1>11 DEF Outcome

(* and one more frame at the end of the active segment. *)
LEMMA AppendOutcome ==
    ASSUME NEW e, NEW a, NEW n, Outcome(e, a, n, {}), a # 0, NEW f \in Frames, NEW z,
           z.files = With(e.files, a, Append(e.files[a], f)), z.synced = e.synced, z.sealed = e.sealed
    PROVE  /\ Outcome(z, a, n, {f})
           /\ Holds(z.files, <<a, Len(e.files[a]) + 1>>, f)
           /\ Len(e.files[a]) \in Nat
  <1> DEFINE s == e.files[a]
             t == Append(s, f)
  <1>1. /\ DiskOK(e, writer.persisted) /\ a \in DOMAIN e.files /\ a \notin SealedIds(e.sealed)
        /\ s \in Seq(Frames)
    BY DEF Outcome, Follows, Active, DiskOK, Intact
  <1>2. /\ t \in Seq(Frames) /\ Len(s) \in Nat /\ Len(t) = Len(s) + 1
        /\ DOMAIN s = 1..Len(s) /\ DOMAIN t = 1..(Len(s) + 1)
        /\ t[Len(s) + 1] = f /\ \A i \in 1..Len(s) : t[i] = s[i]
    <2>1. Len(s) \in Nat /\ DOMAIN s = 1..Len(s)
      BY <1>1, SeqFacts
    <2>2. /\ t \in Seq(Frames) /\ Len(t) = Len(s) + 1
          /\ \A i \in 1..Len(s) : t[i] = s[i]
          /\ t[Len(s) + 1] = f
      BY <1>1, AppendProperties
    <2>3. DOMAIN t = 1..Len(t)
      BY <2>2, LenProperties
    <2> QED BY <2>1, <2>2, <2>3
  <1> HIDE DEF t
  <1>3. /\ DOMAIN z.files = DOMAIN e.files
        /\ z.files[a] = t
        /\ \A id \in DOMAIN e.files : id # a => z.files[id] = e.files[id]
        /\ z.files = [id \in DOMAIN z.files |-> z.files[id]]
    BY <1>1 DEF With, t
  <1>4. DiskOK(z, writer.persisted)
    <2>1. Intact(z.files) /\ Synced(z.files, z.synced)
      <3>1. \A id \in DOMAIN e.files : e.files[id] \in Seq(Frames) /\ e.synced[id] \in 0..Len(e.files[id])
        BY <1>1 DEF DiskOK, Intact, Synced
      <3>2. e.synced[a] \in 0..Len(t)
        BY <1>1, <1>2, <3>1
      <3>3. \A id \in DOMAIN z.files : z.files[id] \in Seq(Frames) /\ z.synced[id] \in 0..Len(z.files[id])
        BY <1>2, <1>3, <3>1, <3>2
      <3>4. z.synced = [id \in DOMAIN z.files |-> z.synced[id]]
        BY <1>1, <1>3 DEF DiskOK, Synced
      <3> QED BY <3>3, <3>4 DEF Intact, Synced
    <2>2. IsFiniteSet(DOMAIN z.files) /\ DOMAIN z.files \subseteq Nat \ {0}
      BY <1>1, <1>3 DEF DiskOK
    <2>3. \A seg \in z.sealed : /\ seg.id \in DOMAIN z.files
                                /\ seg.maxSeq = MaxSeqs(z.files[seg.id])
                                /\ ~IsFullyAcked(seg, writer.persisted)
      <3>1. \A seg \in e.sealed : seg.id # a
        BY <1>1 DEF SealedIds
      <3> QED BY <1>1, <1>3, <3>1 DEF DiskOK
    <2>4. z.sealed \subseteq Segments
      BY <1>1 DEF DiskOK
    <2> QED BY <1>3, <2>1, <2>2, <2>3, <2>4 DEF DiskOK
  <1>5. ASSUME NEW at \in Places, NEW h \in Frames, Holds(e.files, at, h) PROVE Holds(z.files, at, h)
    <2>1. at[1] \in DOMAIN e.files /\ at[2] \in DOMAIN e.files[at[1]] /\ e.files[at[1]][at[2]] = h
      BY <1>5 DEF Holds
    <2>2. CASE at[1] = a
      <3>1. at[2] \in 1..Len(s) /\ s[at[2]] = h
        BY <1>2, <2>1, <2>2
      <3>2. at[2] \in DOMAIN t /\ t[at[2]] = h
        BY <1>2, <3>1
      <3> QED BY <1>3, <2>1, <2>2, <3>2 DEF Holds
    <2>3. CASE at[1] # a
      BY <1>3, <2>1, <2>3 DEF Holds
    <2> QED BY <2>2, <2>3
  <1>6. OnDisk(z.files) \subseteq OnDisk(files) \union {f}
    <2>1. ASSUME NEW h \in OnDisk(z.files) PROVE h = f \/ h \in OnDisk(e.files)
      <3>1. PICK id \in DOMAIN z.files : \E i \in DOMAIN z.files[id] : z.files[id][i] = h
        BY DEF OnDisk
      <3>2. PICK i \in DOMAIN z.files[id] : z.files[id][i] = h
        BY <3>1
      <3>3. h \in Frames
        BY DEF OnDisk
      <3>4. CASE id # a
        BY <1>3, <3>2, <3>3, <3>4 DEF OnDisk
      <3>5. CASE id = a
        <4>1. i \in 1..(Len(s) + 1) /\ t[i] = h
          BY <1>2, <1>3, <3>2, <3>5
        <4>2. CASE i = Len(s) + 1
          BY <1>2, <4>1, <4>2
        <4>3. CASE i # Len(s) + 1
          <5>1. i \in DOMAIN s /\ s[i] = h
            BY <1>2, <4>1, <4>3
          <5> QED BY <1>1, <3>3, <5>1 DEF OnDisk
        <4> QED BY <4>2, <4>3
      <3> QED BY <3>4, <3>5
    <2>2. OnDisk(e.files) \subseteq OnDisk(files)
      BY DEF Outcome, Follows
    <2> QED BY <2>1, <2>2
  <1>7. Follows(z, {f})
    <2>1. \A at \in Places : \A h \in Frames : Needed(files, at, h) =>
              Holds(e.files, at, h) /\ (at[2] <= synced[at[1]] => at[2] <= e.synced[at[1]])
      BY DEF Outcome, Follows
    <2> QED BY <1>4, <1>5, <1>6, <2>1 DEF Follows
  <1>8. Active(z, a, n) /\ StaysSynced(z, a) /\ StaysOwned(z, a)
    BY <1>3 DEF Outcome, Active, StaysSynced, StaysOwned, Owned
  <1>9. Holds(z.files, <<a, Len(s) + 1>>, f)
    <2>1. Len(s) + 1 \in DOMAIN t
      BY <1>2
    <2> QED BY <1>1, <1>2, <1>3, <2>1 DEF Holds
  <1> QED BY <1>2, <1>7, <1>8, <1>9 DEF Outcome

-----------------------------------------------------------------------------
(* Steps on the disk                                                        *)

(* What the invariant says of the variables one by one. *)
LEMMA Types ==
    ASSUME DiskInv
    PROVE  /\ writer.persisted \in Marks /\ writer.staged \in Marks /\ wmFile = writer.persisted
           /\ \A g \in Signals : RingOK(ring[g])
           /\ \A c \in Pending : c \in Appends
           /\ \A d \in writer.done : d \in Outcomes /\ d.cmd \in Appends
           /\ writer.active \in Nat /\ writer.next \in Nat \ {0}
           /\ writer.todo \subseteq Appends /\ writer.sealed \subseteq Segments
  <1>1. writer \in Writers /\ ring \in [Signals -> Rings] /\ cmds \subseteq Appends \union Updates
    BY DEF DiskInv, Shapes
  <1>2. /\ writer.persisted \in Marks /\ writer.staged \in Marks
        /\ writer.active \in Nat /\ writer.next \in Nat \ {0}
        /\ writer.todo \subseteq Appends /\ writer.sealed \subseteq Segments
        /\ writer.done \subseteq Outcomes
    BY <1>1 DEF Writers
  <1>3. wmFile = writer.persisted
    BY DEF DiskInv, MarksInOrder
  <1>4. \A g \in Signals : RingOK(ring[g])
    BY <1>1 DEF DiskInv, RingsInOrder, RingOK
  <1>5. \A c \in cmds : c.kind = "append" => c \in Appends
    <2>1. \A c \in Updates : c.kind # "append"
      BY DEF Updates
    <2> QED BY <1>1, <2>1
  <1>6. \A d \in writer.done : d \in Outcomes /\ d.cmd \in Appends
    BY <1>2 DEF Outcomes
  <1> QED BY <1>2, <1>3, <1>4, <1>5, <1>6 DEF Pending

(* A number that is held is above every watermark. *)
LEMMA HeldIsAbove ==
    ASSUME DiskInv, mode # "down", NEW g \in Signals, NEW s \in DOMAIN ring[g].slots
    PROVE  s \in Nat /\ s > writer.persisted[g] /\ s > writer.staged[g] /\ s < ring[g].next
  <1>1. RingOK(ring[g]) /\ writer.persisted \in Marks /\ writer.staged \in Marks
    BY Types
  <1>2. /\ ring[g].committed < s /\ s < ring[g].next
        /\ ring[g].committed \in Nat /\ s \in Nat
    BY <1>1 DEF RingOK, Rings
  <1>3. writer.persisted[g] <= writer.staged[g] /\ writer.staged[g] <= ring[g].committed
    BY DEF DiskInv, MarksInOrder, AtMost
  <1>4. writer.persisted[g] \in Nat /\ writer.staged[g] \in Nat
    BY <1>1 DEF Marks
  <1> QED BY <1>2, <1>3, <1>4

(* The frame of an append. *)
LEMMA FrameTypes ==
    ASSUME NEW c \in Appends
    PROVE  /\ EncodedFrame(c) \in Frames
           /\ EncodedFrame(c).signal = c.signal /\ EncodedFrame(c).seq = c.seq /\ EncodedFrame(c).msg = c.msg
           /\ c.signal \in Signals /\ c.seq \in Nat
  BY DEF EncodedFrame, Frames, Appends

(* What is found at a place is on disk. *)
LEMMA HeldOnDisk ==
    ASSUME NEW F, NEW at, NEW f \in Frames, Holds(F, at, f)
    PROVE  f \in OnDisk(F)
  BY DEF Holds, OnDisk

(* and what is on disk is at a place. *)
LEMMA OnDiskPlace ==
    ASSUME NEW F, Files(F), NEW f \in OnDisk(F)
    PROVE  f \in Frames /\ \E at \in Places : Holds(F, at, f)
  <1>1. PICK id \in DOMAIN F : \E i \in DOMAIN F[id] : F[id][i] = f
    BY DEF OnDisk
  <1>2. PICK i \in DOMAIN F[id] : F[id][i] = f
    BY <1>1
  <1>3. id \in Nat /\ F[id] \in Seq(Frames \union {Garbage})
    BY DEF Files
  <1>4. i \in Nat
    <2>1. Len(F[id]) \in Nat /\ DOMAIN F[id] = 1..Len(F[id])
      BY <1>3, SeqFacts
    <2> QED BY <1>2, <2>1
  <1>5. <<id, i>> \in Places /\ Holds(F, <<id, i>>, f)
    BY <1>2, <1>3, <1>4 DEF Places, Holds
  <1> QED BY <1>5 DEF OnDisk

(* The frames at the end of a step that writes X and loses nothing that is needed. *)
Carried(X) ==
    /\ Files(files') /\ Intact(files')
    /\ \A at \in Places : \A f \in Frames : Needed(files, at, f) =>
        Holds(files', at, f) /\ (at[2] <= synced[at[1]] => at[2] <= synced'[at[1]])
    /\ OnDisk(files') \subseteq OnDisk(files) \union X

(* Such a step leaves the rings' view of the disk right. *)
LEMMA DiskMoves ==
    ASSUME DiskInv, mode # "down", mode' # "down", UNCHANGED <<wmFile, ring, scenario>>,
           UNCHANGED <<hist.accepted, hist.resolved, hist.delivered>>,
           NEW X, Carried(X),
           \A x \in X : \E c \in Pending : x = EncodedFrame(c),
           \A x, y \in X : x = y
    PROVE  FramesInOrder' /\ SlotsOnDisk' /\ DeliveredKept' /\ AcceptedKept'
  <1>1. /\ writer.persisted \in Marks /\ wmFile = writer.persisted /\ wmFile' = wmFile
        /\ \A g \in Signals : RingOK(ring[g])
        /\ ring' = ring /\ mode # "down" /\ mode' # "down" /\ scenario' = scenario
        /\ hist'.accepted = hist.accepted /\ hist'.resolved = hist.resolved /\ hist'.delivered = hist.delivered
    BY Types
  <1>2. PowerLoss' = PowerLoss /\ SyncOnWrite' = SyncOnWrite /\ Faults' = Faults
    BY <1>1 DEF PowerLoss, SyncOnWrite, Faults
  <1>3. ASSUME NEW x \in X
        PROVE  /\ x \in Frames /\ x.seq < ring[x.signal].next
               /\ \A f \in OnDisk(files) : ~SameSeq(f, x)
               /\ ~PowerLoss => \A d \in hist.delivered : ~(d[1] = x.signal /\ d[2] = x.seq)
    <2>1. PICK c \in Pending : x = EncodedFrame(c)
      OBVIOUS
    <2>2. c \in Appends
      BY Types
    <2>3. x \in Frames /\ x.signal = c.signal /\ x.seq = c.seq
      BY <2>1, <2>2, FrameTypes
    <2>4. /\ HasSlot(c) /\ \A f \in OnDisk(files) : ~SameSeq(f, c)
          /\ ~PowerLoss => \A d \in hist.delivered : ~(d[1] = c.signal /\ d[2] = c.seq)
      BY DEF DiskInv, AppendsInOrder
    <2> QED BY <2>3, <2>4 DEF SameSeq, HasSlot
  <1>4. FramesInOrder'
    <2>1. ASSUME NEW f \in OnDisk(files'), NEW h \in OnDisk(files'), SameSeq(f, h) PROVE f = h
      <3>1. (f \in OnDisk(files) \/ f \in X) /\ (h \in OnDisk(files) \/ h \in X)
        BY DEF Carried
      <3>2. SameSeq(h, f)
        BY <2>1 DEF SameSeq
      <3>3. \A a, b \in OnDisk(files) : SameSeq(a, b) => a = b
        BY DEF DiskInv, FramesInOrder
      <3> QED BY <1>3, <2>1, <3>1, <3>2, <3>3
    <2>2. ASSUME NEW f \in OnDisk(files') PROVE f.seq < ring[f.signal].next
      <3>1. \A h \in OnDisk(files) : h.seq < ring[h.signal].next
        BY DEF DiskInv, FramesInOrder
      <3> QED BY <1>3, <3>1 DEF Carried
    <2>3. Intact(files')
      BY DEF Carried
    <2> QED BY <1>1, <2>1, <2>2, <2>3 DEF FramesInOrder
  <1>5. SlotsOnDisk'
    <2>1. ASSUME NEW g \in Signals, NEW s \in DOMAIN ring[g].slots, ring[g].slots[s].state = "Queued"
          PROVE  Holds(files', ring[g].slots[s].at, [signal |-> g, seq |-> s, msg |-> ring[g].slots[s].msg])
      <3> DEFINE slot == ring[g].slots[s]
                 f == [signal |-> g, seq |-> s, msg |-> slot.msg]
      <3>1. Holds(files, slot.at, f)
        BY <2>1 DEF DiskInv, SlotsOnDisk
      <3>2. slot \in Slots /\ s \in Nat \ {0}
        <4>1. RingOK(ring[g])
          BY <1>1
        <4>2. ring[g].slots \in UNION {[S -> Slots] : S \in SUBSET Nat} /\ ring[g].committed \in Nat /\ ring[g].committed < s
          BY <4>1 DEF RingOK, Rings
        <4>3. slot \in Slots /\ s \in Nat
          BY <4>2
        <4> QED BY <4>2, <4>3
      <3>3. slot.at \in Places /\ slot.msg \in Nat
        BY <3>2 DEF Slots, Places
      <3>4. f \in Frames /\ f.seq = s /\ f.signal = g
        BY <3>2, <3>3 DEF Frames
      <3>5. s > writer.persisted[g]
        BY HeldIsAbove
      <3> HIDE DEF f, slot
      <3>6. Needed(files, slot.at, f)
        BY <3>1, <3>4, <3>5 DEF Needed
      <3>7. Holds(files', slot.at, f)
        BY <3>3, <3>4, <3>6 DEF Carried
      <3> QED BY <3>7 DEF f, slot
    <2> QED BY <1>1, <2>1 DEF SlotsOnDisk
  <1>6. DeliveredKept'
    <2>1. SUFFICES ASSUME ~PowerLoss, NEW d \in hist.delivered
                   PROVE  /\ d[2] <= wmFile[d[1]] \/ \E f \in OnDisk(files') : f.signal = d[1] /\ f.seq = d[2]
                          /\ \A f \in OnDisk(files') : f.signal = d[1] /\ f.seq = d[2] => f.msg = d[3]
      BY <1>1, <1>2 DEF DeliveredKept, DiskInv
    <2>2. /\ d[2] <= wmFile[d[1]] \/ \E f \in OnDisk(files) : f.signal = d[1] /\ f.seq = d[2]
          /\ \A f \in OnDisk(files) : f.signal = d[1] /\ f.seq = d[2] => f.msg = d[3]
      BY <2>1 DEF DiskInv, DeliveredKept
    <2>3. ASSUME NEW f \in OnDisk(files), f.signal = d[1], f.seq = d[2], ~(d[2] <= wmFile[d[1]])
          PROVE  f \in OnDisk(files')
      <3>1. Files(files)
        BY DEF DiskInv, Shapes
      <3>2. f \in Frames
        BY DEF OnDisk
      <3>3. PICK at \in Places : Holds(files, at, f)
        BY <3>1, OnDiskPlace
      <3>4. f.seq > writer.persisted[f.signal]
        BY <1>1, <2>3, <3>2 DEF Frames, Marks
      <3>5. Holds(files', at, f)
        BY <3>2, <3>3, <3>4 DEF Carried, Needed
      <3> QED BY <3>2, <3>5, HeldOnDisk
    <2>4. \A f \in OnDisk(files') : f.signal = d[1] /\ f.seq = d[2] => f.msg = d[3]
      BY <1>3, <2>1, <2>2 DEF Carried
    <2> QED BY <2>2, <2>3, <2>4
  <1>7. AcceptedKept'
    <2>1. SUFFICES ASSUME Durable, NEW m \in hist.accepted \ hist.resolved
                   PROVE  \E f \in Frames : \E at \in Nat \X Nat : KeptAt(m, f, at)'
      BY <1>1, <1>2 DEF AcceptedKept, Durable
    <2>2. PICK f \in Frames : \E at \in Nat \X Nat : KeptAt(m, f, at)
      BY <2>1 DEF DiskInv, AcceptedKept
    <2>3. PICK at \in Nat \X Nat : KeptAt(m, f, at)
      BY <2>2
    <2>4. Needed(files, at, f) /\ at \in Places
      BY <1>1, <2>3 DEF KeptAt, Needed, Places
    <2>5. Holds(files', at, f) /\ (at[2] <= synced[at[1]] => at[2] <= synced'[at[1]])
      BY <2>4 DEF Carried
    <2>6. KeptAt(m, f, at)'
      BY <1>1, <1>2, <2>3, <2>5 DEF KeptAt, Safe
    <2> QED BY <2>6
  <1> QED BY <1>4, <1>5, <1>6, <1>7

-----------------------------------------------------------------------------
(* write_encoded_frame                                                      *)

(* The present disk is one that a write may leave. *)
LEMMA NowOutcome ==
    ASSUME DiskInv, mode # "down", ~Collecting
    PROVE  Outcome(Now, writer.active, writer.next, {})
  <1>1. Now.files = files /\ Now.synced = synced /\ Now.sealed = writer.sealed
    BY DEF Now
  <1>2. /\ Files(files) /\ Intact(files) /\ Synced(files, synced)
    BY DEF DiskInv, Shapes, FramesInOrder
  <1>3. /\ writer.sealed \subseteq Segments /\ writer.active \in Nat /\ writer.next \in Nat \ {0}
    BY Types
  <1>4. /\ \A seg \in writer.sealed : /\ seg.id \in DOMAIN files
                                      /\ seg.maxSeq = MaxSeqs(files[seg.id])
                                      /\ ~IsFullyAcked(seg, writer.persisted)
        /\ writer.active # 0 => writer.active \in DOMAIN files \ SealedIds(writer.sealed)
        /\ \A id \in DOMAIN files : id < writer.next
    BY DEF DiskInv, SealedAgree
  <1> HIDE DEF Now
  <1>5. DiskOK(Now, writer.persisted)
    BY <1>1, <1>2, <1>3, <1>4 DEF DiskOK, Files
  <1>6. Follows(Now, {})
    BY <1>1, <1>5 DEF Follows, Needed
  <1>7. Active(Now, writer.active, writer.next)
    BY <1>1, <1>3, <1>4 DEF Active
  <1>8. StaysSynced(Now, writer.active) /\ StaysOwned(Now, writer.active)
    BY <1>1 DEF StaysSynced, StaysOwned
  <1> QED BY <1>6, <1>7, <1>8 DEF Outcome

(* Up to the frame's write, nothing that is needed is lost, and the frame goes where the writer
   believes. *)
LEMMA WriteOutcomes ==
    ASSUME DiskInv, mode # "down", ~Collecting, NEW c \in Appends
    PROVE  /\ Opens(c) => Outcome(Rolled(c), 0, writer.next, {})
           /\ Outcome(Opened(c), Target(c), NextId(c), {}) /\ Target(c) # 0
           /\ Outcome(Wrote(c, EncodedFrame(c)), Target(c), NextId(c), {EncodedFrame(c)})
           /\ \A ok \in BOOLEAN : Written(c, ok).at \in Places /\ Written(c, ok).at[1] = Target(c)
           /\ \A ok \in BOOLEAN : Holds(Wrote(c, EncodedFrame(c)).files, Written(c, ok).at, EncodedFrame(c))
  <1>1. Outcome(Now, writer.active, writer.next, {})
    BY NowOutcome
  <1>2. /\ writer.persisted \in Marks /\ writer.next \in Nat \ {0} /\ writer.active \in Nat
    BY Types
  <1>3. Rolled(c) = IF Rolls(c) THEN Seal(Now, writer.active) ELSE Now
    BY DEF Rolled, Now
  <1>4. ASSUME Opens(c) PROVE Outcome(Rolled(c), 0, writer.next, {})
    <2>1. CASE Rolls(c)
      <3>1. writer.active # 0
        BY <2>1 DEF Rolls
      <3> QED BY <1>1, <1>2, <1>3, <2>1, <3>1, SealOutcome
    <2>2. CASE ~Rolls(c)
      BY <1>1, <1>3, <1>4, <2>2 DEF Opens
    <2> QED BY <2>1, <2>2
  <1>5. Outcome(Opened(c), Target(c), NextId(c), {}) /\ Target(c) # 0
    <2>1. CASE Opens(c)
      <3>1. Target(c) = writer.next /\ NextId(c) = writer.next + 1
        BY <2>1 DEF Target, NextId
      <3>2. Opened(c) = [Rolled(c) EXCEPT !.files = With(@, Target(c), <<>>), !.synced = With(@, Target(c), 0)]
        BY <2>1 DEF Opened
      <3>3. \E F, S, W : Rolled(c) = [files |-> F, synced |-> S, sealed |-> W]
        BY <1>3 DEF Now, Seal
      <3>4. /\ Opened(c).files = With(Rolled(c).files, writer.next, <<>>)
            /\ Opened(c).synced = With(Rolled(c).synced, writer.next, 0)
            /\ Opened(c).sealed = Rolled(c).sealed
        <4> DEFINE A == With(Rolled(c).files, writer.next, <<>>)
                   B == With(Rolled(c).synced, writer.next, 0)
        <4>1. Opened(c) = [Rolled(c) EXCEPT !.files = A, !.synced = B]
          BY <3>1, <3>2
        <4> HIDE DEF A, B
        <4>2. Opened(c).files = A /\ Opened(c).synced = B /\ Opened(c).sealed = Rolled(c).sealed
          BY <3>3, <4>1
        <4> QED BY <4>2 DEF A, B
      <3> HIDE DEF Rolled, Opened
      <3>5. Outcome(Rolled(c), 0, writer.next, {})
        BY <1>4, <2>1
      <3>6. Outcome(Opened(c), writer.next, writer.next + 1, {})
        BY <3>4, <3>5, OpenOutcome
      <3> QED BY <1>2, <3>1, <3>6
    <2>2. CASE ~Opens(c)
      <3>1. ~Rolls(c) /\ writer.active # 0
        BY <2>2 DEF Opens
      <3>2. Opened(c) = Now /\ Target(c) = writer.active /\ NextId(c) = writer.next
        BY <1>3, <2>2, <3>1 DEF Opened, Target, NextId
      <3> QED BY <1>1, <3>1, <3>2
    <2> QED BY <2>1, <2>2
  <1> DEFINE f == EncodedFrame(c)
             e == Opened(c)
             a == Target(c)
             z == Wrote(c, f)
  <1>6. f \in Frames
    BY FrameTypes
  <1>7. z.files = With(e.files, a, Append(e.files[a], f)) /\ z.synced = e.synced /\ z.sealed = e.sealed
    <2>1. \E F, S, W : e = [files |-> F, synced |-> S, sealed |-> W]
      <3>1. \E F, S, W : Rolled(c) = [files |-> F, synced |-> S, sealed |-> W]
        BY <1>3 DEF Now, Seal
      <3>2. CASE ~Opens(c)
        BY <3>1, <3>2 DEF Opened
      <3>3. CASE Opens(c)
        <4>1. Opened(c) = [Rolled(c) EXCEPT !.files = With(@, Target(c), <<>>), !.synced = With(@, Target(c), 0)]
          BY <3>3 DEF Opened
        <4> DEFINE A == With(Rolled(c).files, Target(c), <<>>)
                   B == With(Rolled(c).synced, Target(c), 0)
        <4>2. Opened(c) = [Rolled(c) EXCEPT !.files = A, !.synced = B]
          BY <4>1
        <4> HIDE DEF A, B
        <4>3. Opened(c) = [files |-> A, synced |-> B, sealed |-> Rolled(c).sealed]
          BY <3>1, <4>2
        <4> QED BY <4>3
      <3> QED BY <3>2, <3>3
    <2> DEFINE A == With(e.files, a, Append(e.files[a], f))
    <2>2. z = [e EXCEPT !.files = A]
      BY DEF Wrote
    <2> HIDE DEF A, e, z
    <2>3. z.files = A /\ z.synced = e.synced /\ z.sealed = e.sealed
      BY <2>1, <2>2
    <2> QED BY <2>3 DEF A
  <1> HIDE DEF e, z, a, f
  <1>8. /\ Outcome(z, a, NextId(c), {f}) /\ Holds(z.files, <<a, Len(e.files[a]) + 1>>, f)
        /\ Len(e.files[a]) \in Nat
    <2>1. Outcome(e, a, NextId(c), {}) /\ a # 0
      BY <1>5 DEF e, a
    <2> QED BY <1>6, <1>7, <2>1, AppendOutcome
  <1>9. a \in Nat /\ e.files[a] \in Seq(Frames)
    <2>1. Outcome(e, a, NextId(c), {}) /\ a # 0
      BY <1>5 DEF e, a
    <2> QED BY <2>1 DEF Outcome, Follows, Active, DiskOK, Intact
  <1>10. ASSUME NEW ok \in BOOLEAN PROVE Written(c, ok).at = <<a, Len(e.files[a]) + 1>>
    <2>1. OffsetIn(e.files[a]) = Len(e.files[a]) + 1
      BY <1>9, OffsetFacts
    <2>2. Written(c, ok).at = <<a, OffsetIn(e.files[a])>>
      BY DEF Written, a, e
    <2> QED BY <2>1, <2>2
  <1>11. <<a, Len(e.files[a]) + 1>> \in Places
    BY <1>8, <1>9 DEF Places
  <1> QED BY <1>4, <1>5, <1>8, <1>10, <1>11 DEF a, e, z, f

(* What a write leaves is right again, whether it succeeded or not. *)
LEMMA WriteStep ==
    ASSUME DiskInv, writer.phase = "write", NEW c \in writer.todo,
           NEW e, NEW a, NEW n, NEW X \in SUBSET {EncodedFrame(c)}, NEW ok \in BOOLEAN,
           Follows(e, X), Active(e, a, n), ok => StaysOwned(e, a),
           Durable /\ PowerLoss => StaysSynced(e, a),
           ok /\ Held(c) => /\ Holds(e.files, Written(c, ok).at, EncodedFrame(c))
                            /\ Written(c, ok).at[1] = a \/ Written(c, ok).at[2] <= e.synced[Written(c, ok).at[1]],
           WriteEnds(c, e, a, n, ok),
           UNCHANGED <<wmFile, ring, fatal, unsent, cmds, mode, hist, crashes, scenario>>
    PROVE  DiskInv'
  <1> DEFINE o == Written(c, ok)
             at == o.at
  <1>1. mode = "running" /\ ~Collecting
    BY DEF DiskInv, Phases, Collecting
  <1>2. c \in Appends /\ c \in Pending /\ writer \in Writers
    BY Types DEF Pending, DiskInv, Shapes
  <1>3. at \in Places
    BY <1>1, <1>2, WriteOutcomes
  <1>4. o \in Outcomes /\ o.cmd = c /\ o.ok = ok
    <2>1. \E p : o = [cmd |-> c, ok |-> ok, at |-> p]
      BY DEF Written
    <2>2. o = [cmd |-> c, ok |-> ok, at |-> at]
      BY <2>1
    <2> HIDE DEF o
    <2> QED BY <1>2, <1>3, <2>2 DEF Outcomes, Places
  <1> HIDE DEF o, at
  <1>5. /\ writer'.phase = "write" /\ writer'.wms = writer.wms /\ writer'.dirty = writer.dirty
        /\ writer'.failed = writer.failed /\ writer'.persisted = writer.persisted
        /\ writer'.staged = writer.staged
        /\ writer'.todo = writer.todo \ {c} /\ writer'.done = writer.done \union {o}
        /\ writer'.sealed = e.sealed /\ writer'.active = a /\ writer'.next = n
        /\ writer' \in Writers
    <2>1. a \in Nat /\ n \in Nat \ {0} /\ e.sealed \subseteq Segments
      BY DEF Active, Follows, DiskOK
    <2>2. writer' = [writer EXCEPT !.todo = @ \ {c}, !.done = @ \union {o},
                                   !.sealed = e.sealed, !.active = a, !.next = n]
      BY DEF WriteEnds, o
    <2>3. writer.todo \ {c} \subseteq Appends /\ writer.done \union {o} \subseteq Outcomes
      BY <1>2, <1>4 DEF Writers
    <2> DEFINE T == writer.todo \ {c}
               D == writer.done \union {o}
    <2>4. writer' = [writer EXCEPT !.todo = T, !.done = D, !.sealed = e.sealed, !.active = a, !.next = n]
      BY <1>2, <2>2 DEF Writers
    <2>5. T \subseteq Appends /\ D \subseteq Outcomes
      BY <2>3
    <2> HIDE DEF T, D
    <2>6. writer' \in Writers
      BY <1>2, <2>1, <2>4, <2>5 DEF Writers
    <2>7. /\ writer'.phase = "write" /\ writer'.wms = writer.wms /\ writer'.dirty = writer.dirty
          /\ writer'.failed = writer.failed /\ writer'.persisted = writer.persisted
          /\ writer'.staged = writer.staged /\ writer'.todo = T /\ writer'.done = D
          /\ writer'.sealed = e.sealed /\ writer'.active = a /\ writer'.next = n
      BY <1>2, <2>4 DEF Writers
    <2> QED BY <2>6, <2>7 DEF T, D
  <1>6. /\ files' = e.files /\ synced' = e.synced
        /\ wmFile' = wmFile /\ ring' = ring /\ fatal' = fatal /\ unsent' = unsent /\ cmds' = cmds
        /\ mode' = mode /\ hist' = hist /\ scenario' = scenario
    BY DEF WriteEnds
  <1>7. DiskOK(e, writer.persisted)
    BY DEF Follows
  <1>8. Files(files') /\ Intact(files') /\ Synced(files', synced')
    <2>1. Files(e.files)
      BY <1>7, IntactFiles DEF DiskOK
    <2> QED BY <1>6, <1>7, <2>1 DEF DiskOK
  <1>9. Carried(X)
    BY <1>6, <1>8 DEF Carried, Follows
  <1>10. FramesInOrder' /\ SlotsOnDisk' /\ DeliveredKept' /\ AcceptedKept'
    <2>1. \A x \in X : \E b \in Pending : x = EncodedFrame(b)
      BY <1>2
    <2>2. \A x, y \in X : x = y
      OBVIOUS
    <2>3. mode' # "down" /\ UNCHANGED <<wmFile, ring, scenario>> /\ UNCHANGED <<hist.accepted, hist.resolved, hist.delivered>>
      BY <1>1, <1>6
    <2> QED BY <1>1, <1>9, <2>1, <2>2, <2>3, DiskMoves
  <1>11. Shapes'
    BY <1>5, <1>6, <1>8 DEF DiskInv, Shapes
  <1>12. RingsInOrder'
    BY <1>6 DEF DiskInv, RingsInOrder
  <1>13. Phases'
    BY <1>1, <1>5, <1>6 DEF DiskInv, Phases
  <1>14. MarksInOrder'
    BY <1>5, <1>6 DEF DiskInv, MarksInOrder, AckDurable
  <1>15. PowerLoss' = PowerLoss /\ Durable' = Durable /\ SyncOnWrite' = SyncOnWrite
    BY <1>6 DEF PowerLoss, Durable, SyncOnWrite, Faults
  <1>16. Pending' = Pending \ {c}
    <2>1. c \notin cmds
      BY DEF DiskInv, AppendsInOrder
    <2> QED BY <1>5, <1>6, <2>1 DEF Pending
  <1>17. \A b : HasSlot(b)' <=> HasSlot(b)
    BY <1>6 DEF HasSlot
  <1>18. \A b : Held(b)' <=> Held(b)
    BY <1>6 DEF Held
  <1>19. AppendsInOrder'
    <2>1. (cmds \intersect writer.todo = {})'
      BY <1>5, <1>6 DEF DiskInv, AppendsInOrder
    <2>2. ASSUME NEW b \in Pending'
          PROVE  /\ HasSlot(b)'
                 /\ \A f \in OnDisk(files') : ~SameSeq(f, b)
                 /\ \A p \in Pending' : SameSeq(b, p) => b = p
                 /\ \A d \in writer'.done : ~SameSeq(b, d.cmd)
                 /\ ~PowerLoss' => \A d \in hist'.delivered : ~(d[1] = b.signal /\ d[2] = b.seq)
      <3>1. b \in Pending /\ b # c
        BY <1>16
      <3>2. /\ HasSlot(b)
            /\ \A f \in OnDisk(files) : ~SameSeq(f, b)
            /\ \A p \in Pending : SameSeq(b, p) => b = p
            /\ \A d \in writer.done : ~SameSeq(b, d.cmd)
            /\ ~PowerLoss => \A d \in hist.delivered : ~(d[1] = b.signal /\ d[2] = b.seq)
        BY <3>1 DEF DiskInv, AppendsInOrder
      <3>3. ~SameSeq(b, c)
        BY <1>2, <3>1, <3>2
      <3>4. \A f \in OnDisk(files') : ~SameSeq(f, b)
        <4>1. ~SameSeq(EncodedFrame(c), b)
          BY <1>2, <3>3, FrameTypes DEF SameSeq
        <4> QED BY <1>9, <3>2, <4>1 DEF Carried
      <3>5. \A d \in writer'.done : ~SameSeq(b, d.cmd)
        BY <1>4, <1>5, <3>2, <3>3
      <3> QED BY <1>6, <1>15, <1>16, <1>17, <3>2, <3>4, <3>5
    <2>3. ASSUME NEW d \in writer'.done
          PROVE  /\ HasSlot(d.cmd)'
                 /\ d.ok /\ Held(d.cmd)' => Holds(files', d.at, EncodedFrame(d.cmd))
                 /\ \A p \in writer'.done : SameSeq(d.cmd, p.cmd) => d = p
      <3>1. /\ HasSlot(c) /\ \A p \in writer.done : ~SameSeq(c, p.cmd)
        BY <1>2 DEF DiskInv, AppendsInOrder
      <3>2. \A p \in writer.done : ~SameSeq(p.cmd, c)
        BY <3>1 DEF SameSeq
      <3>3. \A p, q \in writer.done : SameSeq(p.cmd, q.cmd) => p = q
        BY DEF DiskInv, AppendsInOrder
      <3>4. \A p \in writer'.done : SameSeq(d.cmd, p.cmd) => d = p
        BY <1>4, <1>5, <3>1, <3>2, <3>3
      <3>5. CASE d = o
        <4>1. ok /\ Held(c) => Holds(e.files, at, EncodedFrame(c))
          BY DEF at, o
        <4> QED BY <1>4, <1>6, <1>17, <1>18, <3>1, <3>4, <3>5, <4>1 DEF at
      <3>6. CASE d # o
        <4>1. d \in writer.done
          BY <1>5, <3>6
        <4>2. HasSlot(d.cmd) /\ (d.ok /\ Held(d.cmd) => Holds(files, d.at, EncodedFrame(d.cmd)))
          BY <4>1 DEF DiskInv, AppendsInOrder
        <4>3. ASSUME d.ok, Held(d.cmd) PROVE Holds(files', d.at, EncodedFrame(d.cmd))
          <5>1. d \in Outcomes /\ d.cmd \in Appends
            BY <4>1, Types
          <5>2. d.at \in Places
            BY <5>1 DEF Outcomes, Places
          <5>3. /\ EncodedFrame(d.cmd) \in Frames /\ EncodedFrame(d.cmd).seq = d.cmd.seq
                /\ EncodedFrame(d.cmd).signal = d.cmd.signal /\ d.cmd.signal \in Signals
            BY <5>1, FrameTypes
          <5>4. d.cmd.seq > writer.persisted[d.cmd.signal]
            BY <1>1, <4>3, <5>3, HeldIsAbove DEF Held
          <5>5. Needed(files, d.at, EncodedFrame(d.cmd))
            BY <4>2, <4>3, <5>3, <5>4 DEF Needed
          <5> QED BY <1>9, <5>2, <5>3, <5>5 DEF Carried
        <4> QED BY <1>17, <1>18, <3>4, <4>2, <4>3
      <3> QED BY <3>5, <3>6
    <2> QED BY <2>1, <2>2, <2>3 DEF AppendsInOrder
  <1>20. SealedAgree'
    <2>1. \A seg \in e.sealed : /\ seg.id \in DOMAIN e.files
                                /\ seg.maxSeq = MaxSeqs(e.files[seg.id])
                                /\ ~IsFullyAcked(seg, writer.persisted)
      BY <1>7 DEF DiskOK
    <2>2. (a # 0 => a \in DOMAIN e.files \ SealedIds(e.sealed)) /\ \A id \in DOMAIN e.files : id < n
      BY DEF Active
    <2> QED BY <1>5, <1>6, <2>1, <2>2 DEF SealedAgree
  <1>21. NoOrphans'
    <2>1. SUFFICES ASSUME ~fatal, \A d \in writer'.done : d.ok PROVE Owned(e.files, a, e.sealed)
      BY <1>1, <1>5, <1>6 DEF NoOrphans, Owned
    <2>2. o.ok /\ \A d \in writer.done : d.ok
      BY <1>5, <2>1
    <2>3. Owned(files, writer.active, writer.sealed)
      BY <1>1, <2>1, <2>2 DEF DiskInv, NoOrphans, Owned
    <2> QED BY <1>4, <2>2, <2>3 DEF StaysOwned
  <1>22. GroupSynced'
    <2>1. SUFFICES ASSUME Durable, PowerLoss, NEW d \in writer'.done, d.ok, Held(d.cmd)
                   PROVE  d.at[1] = a \/ d.at[2] <= e.synced[d.at[1]]
      BY <1>5, <1>6, <1>15, <1>18 DEF GroupSynced
    <2>2. CASE d = o
      BY <1>4, <2>1, <2>2 DEF at, o
    <2>3. CASE d # o
      <3>1. d \in writer.done
        BY <1>5, <2>3
      <3>2. /\ Holds(files, d.at, EncodedFrame(d.cmd))
            /\ d.at[1] = writer.active \/ d.at[2] <= synced[d.at[1]]
        BY <2>1, <3>1 DEF DiskInv, AppendsInOrder, GroupSynced
      <3>3. d \in Outcomes /\ d.cmd \in Appends
        BY <3>1, Types
      <3>4. d.at \in Places
        BY <3>3 DEF Outcomes, Places
      <3>5. /\ EncodedFrame(d.cmd) \in Frames /\ EncodedFrame(d.cmd).seq = d.cmd.seq
            /\ EncodedFrame(d.cmd).signal = d.cmd.signal /\ d.cmd.signal \in Signals
        BY <3>3, FrameTypes
      <3>6. d.cmd.seq > writer.persisted[d.cmd.signal]
        BY <1>1, <2>1, <3>5, HeldIsAbove DEF Held
      <3>7. Needed(files, d.at, EncodedFrame(d.cmd))
        BY <3>2, <3>5, <3>6 DEF Needed
      <3> QED BY <2>1, <3>2, <3>4, <3>5, <3>7 DEF StaysSynced
    <2> QED BY <2>2, <2>3
  <1> QED BY <1>10, <1>11, <1>12, <1>13, <1>14, <1>19, <1>20, <1>21, <1>22 DEF DiskInv

(* write_encoded_frame, on its seven ways out. *)
LEMMA WriteFrameKeeps ==
    ASSUME DiskInv, WholeWrites, NEW c \in writer.todo, WriteFrame(c)
    PROVE  DiskInv'
  <1> DEFINE f == EncodedFrame(c)
             e == Opened(c)
             a == Target(c)
             n == NextId(c)
             z == Wrote(c, f)
             frame == UNCHANGED <<wmFile, ring, fatal, unsent, cmds, mode, hist, crashes, scenario>>
  <1>1. writer.phase = "write" /\ frame
    BY DEF WriteFrame
  <1>2. mode = "running" /\ ~Collecting /\ c \in Appends
    <2>1. c \in Appends
      BY Types
    <2> QED BY <1>1, <2>1 DEF DiskInv, Phases, Collecting
  <1>3. /\ Opens(c) => Outcome(Rolled(c), 0, writer.next, {})
        /\ Outcome(e, a, n, {}) /\ a # 0
        /\ Outcome(z, a, n, {f})
        /\ \A ok \in BOOLEAN : Written(c, ok).at \in Places /\ Written(c, ok).at[1] = a
        /\ \A ok \in BOOLEAN : Holds(z.files, Written(c, ok).at, f)
    BY <1>2, WriteOutcomes
  <1>4. writer.persisted \in Marks /\ writer.active \in Nat /\ writer.next \in Nat \ {0}
    BY Types
  <1>5. f \in Frames /\ f.signal = c.signal /\ f.seq = c.seq /\ c.signal \in Signals
    BY <1>2, FrameTypes
  <1> HIDE DEF f, e, a, n, z
  <1>6. CASE ~Fills(c) /\ WriteEnds(c, z, a, n, TRUE)
    <2>1. Follows(z, {f}) /\ Active(z, a, n) /\ StaysOwned(z, a) /\ StaysSynced(z, a)
      BY <1>3 DEF Outcome
    <2>2. Holds(z.files, Written(c, TRUE).at, EncodedFrame(c)) /\ Written(c, TRUE).at[1] = a
      BY <1>3 DEF f
    <2>3. {f} \in SUBSET {EncodedFrame(c)}
      BY DEF f
    <2> HIDE DEF frame
    <2> QED BY <1>1, <1>6, <2>1, <2>2, <2>3, WriteStep DEF frame
  <1>7. CASE Fills(c) /\ WriteEnds(c, Seal(z, a), 0, n, TRUE)
    <2> DEFINE y == Seal(z, a)
    <2>1. Outcome(y, 0, n, {f})
      BY <1>3, <1>4, SealOutcome
    <2>2. Follows(y, {f}) /\ Active(y, 0, n) /\ StaysOwned(y, 0) /\ StaysSynced(y, 0)
      BY <2>1 DEF Outcome
    <2>3. ASSUME Held(c)
          PROVE  /\ Holds(y.files, Written(c, TRUE).at, EncodedFrame(c))
                 /\ Written(c, TRUE).at[2] <= y.synced[Written(c, TRUE).at[1]]
      <3>1. c.seq > writer.persisted[c.signal]
        BY <1>2, <1>5, <2>3, HeldIsAbove DEF Held
      <3>2. Needed(z.files, Written(c, TRUE).at, f) /\ Written(c, TRUE).at \in Places /\ Written(c, TRUE).at[1] = a
        BY <1>3, <1>5, <3>1 DEF Needed
      <3>3. DiskOK(z, writer.persisted) /\ a \in DOMAIN z.files \ SealedIds(z.sealed)
        BY <1>3 DEF Outcome, Follows, Active
      <3>4. \A p \in Places : \A h \in Frames : Needed(z.files, p, h) =>
                /\ Holds(y.files, p, h)
                /\ p[1] = a \/ p[2] <= z.synced[p[1]] => p[2] <= y.synced[p[1]]
        BY <1>4, <3>3, SealFacts
      <3> HIDE DEF y
      <3> QED BY <1>5, <3>2, <3>4 DEF f
    <2>4. {f} \in SUBSET {EncodedFrame(c)}
      BY DEF f
    <2> HIDE DEF frame, y
    <2>5. WriteEnds(c, y, 0, n, TRUE)
      BY <1>7 DEF y
    <2> QED BY <1>1, <2>2, <2>3, <2>4, <2>5, WriteStep DEF frame
  <1>8. CASE Rolls(c) /\ Fault("seal") /\ WriteEnds(c, Now, 0, writer.next, FALSE)
    <2>1. Outcome(Now, writer.active, writer.next, {})
      BY <1>2, NowOutcome
    <2>2. Follows(Now, {}) /\ Active(Now, 0, writer.next)
      BY <2>1 DEF Outcome, Active
    <2>3. ~(Durable /\ PowerLoss)
      BY <1>8 DEF Fault, Durable
    <2>4. {} \in SUBSET {EncodedFrame(c)}
      OBVIOUS
    <2> HIDE DEF frame, Now
    <2> QED BY <1>1, <1>8, <2>2, <2>3, <2>4, WriteStep DEF frame
  <1>9. CASE Opens(c) /\ Fault("write") /\ WriteEnds(c, Rolled(c), 0, n, FALSE)
    <2>1. Outcome(Rolled(c), 0, writer.next, {})
      BY <1>3, <1>9
    <2>2. Follows(Rolled(c), {}) /\ Active(Rolled(c), 0, writer.next) /\ StaysSynced(Rolled(c), 0)
      BY <2>1 DEF Outcome
    <2>3. n = writer.next + 1
      BY <1>9 DEF n, NextId, Target
    <2>4. Active(Rolled(c), 0, n)
      <3>1. DOMAIN Rolled(c).files \subseteq Nat
        BY <2>2 DEF Follows, DiskOK
      <3>2. \A id \in DOMAIN Rolled(c).files : id < writer.next
        BY <2>2 DEF Active
      <3>3. \A id \in DOMAIN Rolled(c).files : id < n
        BY <1>4, <2>3, <3>1, <3>2
      <3>4. n \in Nat \ {0}
        BY <1>4, <2>3
      <3> QED BY <3>3, <3>4 DEF Active
    <2>5. {} \in SUBSET {EncodedFrame(c)}
      OBVIOUS
    <2> HIDE DEF frame
    <2> QED BY <1>1, <1>9, <2>2, <2>4, <2>5, WriteStep DEF frame
  <1>10. CASE Fault("write") /\ WriteEnds(c, e, a, n, FALSE)
    <2>1. Follows(e, {}) /\ Active(e, a, n) /\ StaysSynced(e, a)
      BY <1>3 DEF Outcome
    <2>2. {} \in SUBSET {EncodedFrame(c)}
      OBVIOUS
    <2> HIDE DEF frame
    <2> QED BY <1>1, <1>10, <2>1, <2>2, WriteStep DEF frame
  <1>11. CASE Fills(c) /\ Fault("seal") /\ WriteEnds(c, z, 0, n, FALSE)
    <2>1. Follows(z, {f}) /\ Active(z, 0, n)
      BY <1>3 DEF Outcome, Active
    <2>2. ~(Durable /\ PowerLoss)
      BY <1>11 DEF Fault, Durable
    <2>3. {f} \in SUBSET {EncodedFrame(c)}
      BY DEF f
    <2> HIDE DEF frame
    <2> QED BY <1>1, <1>11, <2>1, <2>2, <2>3, WriteStep DEF frame
  <1>12. ~Fault("partial")
    BY DEF Fault, WholeWrites
  <1>13. \/ ~Fills(c) /\ WriteEnds(c, z, a, n, TRUE)
         \/ Fills(c) /\ WriteEnds(c, Seal(z, a), 0, n, TRUE)
         \/ Rolls(c) /\ Fault("seal") /\ WriteEnds(c, Now, 0, writer.next, FALSE)
         \/ Opens(c) /\ Fault("write") /\ WriteEnds(c, Rolled(c), 0, n, FALSE)
         \/ Fault("write") /\ WriteEnds(c, e, a, n, FALSE)
         \/ Fills(c) /\ Fault("seal") /\ WriteEnds(c, z, 0, n, FALSE)
    BY <1>12, Zenon DEF WriteFrame, Now, z, a, n, e, f
  <1> QED BY <1>6, <1>7, <1>8, <1>9, <1>10, <1>11, <1>13

-----------------------------------------------------------------------------
(* The rest of writer_loop                                                  *)

(* A step of the writer thread that writes no frame and collects no segment. *)
LEMMA QuietWriter ==
    ASSUME DiskInv, mode = "running", UNCHANGED <<files, ring, fatal, cmds, mode, hist, scenario>>,
           writer'.todo = writer.todo, writer'.done = writer.done,
           writer'.sealed = writer.sealed, writer'.active = writer.active
    PROVE  RingsInOrder' /\ FramesInOrder' /\ AppendsInOrder' /\ SlotsOnDisk' /\ NoOrphans'
  <1>1. RingsInOrder' /\ FramesInOrder' /\ SlotsOnDisk'
    BY DEF DiskInv, RingsInOrder, FramesInOrder, SlotsOnDisk
  <1>2. Pending' = Pending /\ PowerLoss' = PowerLoss
    BY DEF Pending, PowerLoss
  <1>3. AppendsInOrder'
    <2>1. (\A c : HasSlot(c)' <=> HasSlot(c)) /\ (\A c : Held(c)' <=> Held(c))
      BY DEF HasSlot, Held
    <2> QED BY <1>2, <2>1 DEF DiskInv, AppendsInOrder
  <1>4. NoOrphans'
    BY DEF DiskInv, NoOrphans
  <1> QED BY <1>1, <1>3, <1>4

(* The group's sync. *)
LEMMA SyncGroupKeeps ==
    ASSUME DiskInv, SyncGroup
    PROVE  DiskInv'
  <1> DEFINE due == SyncIsDue /\ writer.active # 0
  <1>1. /\ writer.phase = "write" /\ writer.todo = {} /\ writer \in Writers
        /\ UNCHANGED <<files, wmFile, ring, fatal, unsent, cmds, mode, hist, crashes, scenario>>
    BY DEF SyncGroup, DiskInv, Shapes
  <1>2. mode = "running"
    BY <1>1 DEF DiskInv, Phases
  <1>3. /\ writer' \in Writers /\ writer'.phase = "finish" /\ writer'.todo = {} /\ writer'.done = writer.done
        /\ writer'.wms = writer.wms /\ writer'.dirty = writer.dirty /\ writer'.active = writer.active
        /\ writer'.sealed = writer.sealed /\ writer'.next = writer.next
        /\ writer'.persisted = writer.persisted /\ writer'.staged = writer.staged
    <2>1. \/ writer' = [writer EXCEPT !.phase = "finish"]
          \/ writer' = [writer EXCEPT !.phase = "finish", !.failed = TRUE]
      BY DEF SyncGroup
    <2>2. CASE writer' = [writer EXCEPT !.phase = "finish"]
      BY <1>1, <2>2 DEF Writers
    <2>3. CASE writer' = [writer EXCEPT !.phase = "finish", !.failed = TRUE]
      BY <1>1, <2>3 DEF Writers
    <2> QED BY <2>1, <2>2, <2>3
  <1>4. /\ Files(files) /\ Synced(files, synced) /\ Intact(files)
        /\ writer.active # 0 => writer.active \in DOMAIN files
    BY <1>2 DEF DiskInv, Shapes, FramesInOrder, SealedAgree
  <1>5. \/ ~due /\ synced' = synced
        \/ due /\ synced' = With(synced, writer.active, Len(files[writer.active]))
        \/ due /\ synced' = synced /\ writer'.failed
    <2>1. writer' = [writer EXCEPT !.phase = "finish", !.failed = TRUE] => writer'.failed
      BY <1>1 DEF Writers
    <2> QED BY <2>1 DEF SyncGroup
  <1> HIDE DEF due
  <1>6. \A id \in DOMAIN files : /\ Len(files[id]) \in Nat /\ DOMAIN files[id] = 1..Len(files[id])
                                 /\ synced[id] \in 0..Len(files[id])
    <2>1. ASSUME NEW id \in DOMAIN files PROVE Len(files[id]) \in Nat /\ DOMAIN files[id] = 1..Len(files[id])
      <3>1. files[id] \in Seq(Frames)
        BY <1>4 DEF Intact
      <3> QED BY <3>1, SeqFacts
    <2> QED BY <1>4, <2>1 DEF Synced
  <1>7. /\ synced' = [id \in DOMAIN files |-> synced'[id]]
        /\ \A id \in DOMAIN files : /\ synced'[id] \in 0..Len(files[id])
                                    /\ synced'[id] = synced[id] \/ synced'[id] = Len(files[id])
    <2>1. CASE synced' = synced
      BY <1>4, <1>6, <2>1 DEF Synced
    <2>2. CASE due /\ synced' = With(synced, writer.active, Len(files[writer.active]))
      <3>1. writer.active \in DOMAIN files /\ DOMAIN synced = DOMAIN files
        BY <1>4, <2>2 DEF due, Synced
      <3>2. synced' = [y \in DOMAIN files |-> IF y = writer.active THEN Len(files[writer.active]) ELSE synced[y]]
        BY <2>2, <3>1 DEF With
      <3> QED BY <1>6, <3>2
    <2> QED BY <1>5, <2>1, <2>2
  <1>8. Carried({})
    <2>1. ASSUME NEW at \in Places, NEW f \in Frames, Needed(files, at, f), at[2] <= synced[at[1]]
          PROVE  at[2] <= synced'[at[1]]
      <3>1. at[1] \in DOMAIN files /\ at[2] \in DOMAIN files[at[1]]
        BY <2>1 DEF Needed, Holds
      <3>2. at[2] \in 1..Len(files[at[1]])
        BY <1>6, <3>1
      <3> QED BY <1>6, <1>7, <2>1, <3>1, <3>2
    <2> QED BY <1>1, <1>4, <2>1 DEF Carried, Needed
  <1>9. DeliveredKept' /\ AcceptedKept'
    <2>1. \A x \in {} : \E c \in Pending : x = EncodedFrame(c)
      OBVIOUS
    <2>2. \A x, y \in {} : x = y
      OBVIOUS
    <2> QED BY <1>1, <1>2, <1>8, <2>1, <2>2, DiskMoves
  <1>10. RingsInOrder' /\ FramesInOrder' /\ AppendsInOrder' /\ SlotsOnDisk' /\ NoOrphans'
    BY <1>1, <1>2, <1>3, QuietWriter
  <1>11. Shapes'
    <2>1. Synced(files', synced')
      BY <1>1, <1>7 DEF Synced
    <2> QED BY <1>1, <1>3, <2>1 DEF DiskInv, Shapes
  <1>12. Phases'
    BY <1>1, <1>2, <1>3 DEF DiskInv, Phases
  <1>13. MarksInOrder'
    BY <1>1, <1>3 DEF DiskInv, MarksInOrder, AckDurable
  <1>14. SealedAgree'
    BY <1>1, <1>3 DEF DiskInv, SealedAgree, Collecting
  <1>15. GroupSynced'
    <2>1. PowerLoss' = PowerLoss /\ Durable' = Durable /\ SyncOnWrite' = SyncOnWrite /\ \A c : Held(c)' <=> Held(c)
      BY <1>1 DEF PowerLoss, Durable, SyncOnWrite, Faults, Held
    <2>2. SUFFICES ASSUME Durable, PowerLoss, NEW d \in writer.done, d.ok, Held(d.cmd)
                   PROVE  /\ d.at[1] = writer.active \/ d.at[2] <= synced'[d.at[1]]
                          /\ ~writer'.failed => d.at[2] <= synced'[d.at[1]]
      BY <1>3, <2>1 DEF GroupSynced
    <2>3. /\ Holds(files, d.at, EncodedFrame(d.cmd))
          /\ d.at[1] = writer.active \/ d.at[2] <= synced[d.at[1]]
      BY <2>2 DEF DiskInv, AppendsInOrder, GroupSynced
    <2>4. d.at[1] \in DOMAIN files /\ d.at[2] \in 1..Len(files[d.at[1]])
      BY <1>6, <2>3 DEF Holds
    <2>5. CASE d.at[2] <= synced[d.at[1]]
      BY <1>6, <1>7, <2>4, <2>5
    <2>6. CASE d.at[1] = writer.active
      <3>1. writer.active # 0
        BY <1>4, <2>4, <2>6 DEF Files
      <3>2. due
        BY <2>2, <3>1 DEF due, SyncIsDue, Durable
      <3>3. CASE writer'.failed
        BY <2>6, <3>3
      <3>4. CASE synced' = With(synced, writer.active, Len(files[writer.active]))
        <4>1. synced'[writer.active] = Len(files[writer.active])
          BY <3>4 DEF With
        <4> QED BY <1>6, <2>4, <2>6, <4>1
      <3> QED BY <1>5, <3>2, <3>3, <3>4
    <2> QED BY <2>3, <2>5, <2>6
  <1> QED BY <1>9, <1>10, <1>11, <1>12, <1>13, <1>14, <1>15 DEF DiskInv

(* write_watermark_atomic, or the way past it. *)
LEMMA WriteWatermarkKeeps ==
    ASSUME DiskInv, WriteWatermark
    PROVE  DiskInv'
  <1>1. /\ writer.phase = "finish" /\ writer.done = {} /\ writer \in Writers
        /\ UNCHANGED <<files, synced, ring, fatal, unsent, cmds, mode, hist, crashes, scenario>>
    BY DEF WriteWatermark, DiskInv, Shapes
  <1>2. mode = "running" /\ writer.todo = {} /\ ~Collecting
    BY <1>1 DEF DiskInv, Phases, Collecting
  <1>3. /\ writer.persisted \in Marks /\ writer.staged \in Marks /\ wmFile = writer.persisted
        /\ AtMost(writer.persisted, writer.staged)
    BY Types DEF DiskInv, MarksInOrder
  <1>4. /\ writer' \in Writers /\ writer'.phase = "reply" /\ writer'.todo = {} /\ writer'.done = {}
        /\ writer'.wms = writer.wms /\ writer'.dirty = writer.dirty /\ writer'.active = writer.active
        /\ writer'.sealed = writer.sealed /\ writer'.next = writer.next
        /\ writer'.staged = writer'.persisted
        /\ \/ /\ ~writer.dirty /\ writer'.persisted = writer.persisted /\ wmFile' = wmFile
           \/ /\ writer'.persisted = writer.staged /\ wmFile' = writer.staged /\ writer.dirty /\ ~writer'.failed
           \/ /\ writer'.persisted = writer.persisted /\ wmFile' = wmFile /\ writer'.failed
    <2>1. ~writer.dirty => writer.staged = writer.persisted
      BY DEF DiskInv, MarksInOrder
    <2>2. CASE ~writer.dirty /\ writer' = [writer EXCEPT !.phase = "reply", !.failed = FALSE] /\ wmFile' = wmFile
      BY <1>1, <1>2, <2>1, <2>2 DEF Writers
    <2>3. CASE /\ writer.dirty /\ ~writer.failed /\ wmFile' = writer.staged
               /\ writer' = [writer EXCEPT !.phase = "reply", !.persisted = writer.staged]
      BY <1>1, <1>2, <2>3 DEF Writers
    <2>4. CASE /\ writer.dirty /\ wmFile' = wmFile
               /\ writer' = [writer EXCEPT !.phase = "reply", !.failed = TRUE, !.staged = writer.persisted]
      BY <1>1, <1>2, <2>4 DEF Writers
    <2> QED BY <2>2, <2>3, <2>4 DEF WriteWatermark, Restaged
  <1>5. /\ wmFile' = writer'.persisted /\ AtMost(wmFile, wmFile') /\ AtMost(wmFile', writer.staged)
        /\ wmFile' \in Marks
    BY <1>3, <1>4 DEF AtMost, Marks
  <1>6. RingsInOrder' /\ FramesInOrder' /\ AppendsInOrder' /\ SlotsOnDisk' /\ NoOrphans'
    BY <1>1, <1>2, <1>4, QuietWriter
  <1>7. Shapes'
    BY <1>1, <1>4, <1>5 DEF DiskInv, Shapes
  <1>8. Phases'
    BY <1>1, <1>2, <1>4 DEF DiskInv, Phases
  <1>9. MarksInOrder'
    <2>1. \A g \in Signals : /\ writer.staged[g] <= ring[g].committed /\ ring[g].committed \in Nat
                             /\ writer.staged[g] \in Nat /\ wmFile'[g] \in Nat /\ wmFile[g] \in Nat
                             /\ wmFile'[g] <= writer.staged[g] /\ wmFile[g] <= wmFile'[g]
      <3>1. \A g \in Signals : RingOK(ring[g])
        BY Types
      <3>2. \A g \in Signals : writer.staged[g] <= ring[g].committed
        BY <1>2 DEF DiskInv, MarksInOrder
      <3> QED BY <1>3, <1>5, <3>1, <3>2 DEF RingOK, Rings, Marks, AtMost
    <2>2. AtMost(writer'.persisted, writer'.staged)
      BY <1>4, <1>5, <2>1 DEF AtMost
    <2>3. \A g \in Signals : writer'.staged[g] <= ring'[g].committed
      BY <1>1, <1>4, <1>5, <2>1
    <2>4. \A c \in cmds' : c.kind # "append" => \A g \in Signals : c.wm[g] <= ring'[g].committed
      BY <1>1 DEF DiskInv, MarksInOrder
    <2>5. ASSUME NEW c \in writer'.wms, ~writer'.failed PROVE AtMost(c.wm, writer'.persisted)
      <3>1. AtMost(c.wm, writer.staged)
        BY <1>1, <1>4 DEF DiskInv, MarksInOrder
      <3>2. ~writer.dirty => writer.staged = writer.persisted
        BY DEF DiskInv, MarksInOrder
      <3>3. writer'.persisted = writer.staged
        BY <1>4, <2>5, <3>2
      <3> QED BY <3>1, <3>3
    <2>6. AckDurable'
      <3>1. hist.acked \in Marks /\ \A g \in Signals : hist.acked[g] <= wmFile[g]
        BY DEF DiskInv, Shapes, Histories, MarksInOrder, AckDurable
      <3>2. \A g \in Signals : hist.acked[g] <= wmFile'[g]
        BY <2>1, <3>1 DEF Marks
      <3> QED BY <1>1, <3>2 DEF AckDurable
    <2> QED BY <1>4, <1>5, <2>2, <2>3, <2>4, <2>5, <2>6 DEF MarksInOrder
  <1>10. SealedAgree'
    <2>1. ~Collecting' => writer'.persisted = writer.persisted
      BY <1>4 DEF Collecting
    <2> QED BY <1>1, <1>2, <1>4, <2>1 DEF DiskInv, SealedAgree
  <1>11. PowerLoss' = PowerLoss /\ Durable' = Durable
    BY <1>1 DEF PowerLoss, Durable, SyncOnWrite, Faults
  <1>12. DeliveredKept'
    <2>1. ASSUME NEW d \in hist.delivered, d[2] <= wmFile[d[1]] PROVE d[2] <= wmFile'[d[1]]
      <3>1. d[1] \in Signals /\ d[2] \in Nat
        BY DEF DiskInv, Shapes, Histories
      <3>2. wmFile[d[1]] \in Nat /\ wmFile'[d[1]] \in Nat /\ wmFile[d[1]] <= wmFile'[d[1]]
        BY <1>3, <1>5, <3>1 DEF Marks, AtMost
      <3> QED BY <2>1, <3>1, <3>2
    <2> QED BY <1>1, <1>11, <2>1 DEF DiskInv, DeliveredKept
  <1>13. AcceptedKept'
    <2>1. ASSUME NEW m, NEW f \in Frames, NEW at \in Nat \X Nat, KeptAt(m, f, at) PROVE KeptAt(m, f, at)'
      <3>1. f.signal \in Signals /\ f.seq \in DOMAIN ring[f.signal].slots
        BY <1>2, <2>1 DEF KeptAt, Frames
      <3>2. f.seq \in Nat /\ f.seq > writer.staged[f.signal]
        BY <1>2, <3>1, HeldIsAbove
      <3>3. wmFile'[f.signal] <= writer.staged[f.signal] /\ wmFile'[f.signal] \in Nat /\ writer.staged[f.signal] \in Nat
        BY <1>3, <1>5, <3>1 DEF AtMost, Marks
      <3>4. f.seq > wmFile'[f.signal]
        BY <3>2, <3>3
      <3> QED BY <1>1, <1>11, <2>1, <3>4 DEF KeptAt, Safe
    <2> QED BY <1>1, <1>11, <2>1 DEF DiskInv, AcceptedKept
  <1>14. GroupSynced'
    BY <1>4 DEF GroupSynced
  <1> QED BY <1>6, <1>7, <1>8, <1>9, <1>10, <1>12, <1>13, <1>14 DEF DiskInv

(* gc_sealed_segments and the answers. *)
LEMMA CollectKeeps ==
    ASSUME DiskInv, CollectAndReply
    PROVE  DiskInv'
  <1> DEFINE gone == IF writer.dirty /\ ~writer.failed
                     THEN Reclaimable(writer.sealed, writer.persisted) ELSE {}
             acks == {c \in writer.wms : c.ack}
             left == {seg \in writer.sealed : seg.id \notin gone}
             told == IF writer.failed THEN hist.acked ELSE Merge(hist.acked, acks)
  <1>1. /\ writer.phase = "reply" /\ writer \in Writers /\ hist \in Histories
        /\ files' = Without(files, gone) /\ synced' = Without(synced, gone)
        /\ fatal' = (fatal \/ (writer.failed /\ acks # {}))
        /\ UNCHANGED <<wmFile, ring, unsent, cmds, mode, crashes, faults, scenario>>
    BY DEF CollectAndReply, DiskInv, Shapes
  <1>2. /\ mode = "running" /\ writer.todo = {} /\ writer.done = {}
    BY <1>1 DEF DiskInv, Phases
  <1>3. /\ writer.persisted \in Marks /\ wmFile = writer.persisted /\ writer.sealed \subseteq Segments
        /\ writer.staged = writer.persisted
    BY <1>1, Types DEF DiskInv, MarksInOrder
  <1>4. /\ writer' \in Writers /\ writer'.phase = "idle" /\ writer'.todo = {} /\ writer'.done = {}
        /\ writer'.wms = {} /\ writer'.dirty = FALSE /\ writer'.active = writer.active
        /\ writer'.sealed = left /\ writer'.next = writer.next
        /\ writer'.staged = writer.staged /\ writer'.persisted = writer.persisted
    <2>1. writer' = [writer EXCEPT !.phase = "idle", !.wms = {}, !.dirty = FALSE, !.failed = FALSE, !.sealed = left]
      BY <1>1 DEF CollectAndReply
    <2>2. left \subseteq Segments
      BY <1>3
    <2> HIDE DEF left, gone
    <2> QED BY <1>1, <1>2, <2>1, <2>2 DEF Writers
  <1>5. /\ hist' \in Histories /\ hist'.acked = told /\ told \in Marks /\ AtMost(told, wmFile)
        /\ hist'.accepted = hist.accepted /\ hist'.resolved = hist.resolved /\ hist'.delivered = hist.delivered
    <2>1. hist' = [hist EXCEPT !.acked = told]
      BY <1>1 DEF CollectAndReply, Histories
    <2>2. hist.acked \in Marks /\ AtMost(hist.acked, wmFile)
      BY <1>1 DEF Histories, DiskInv, MarksInOrder, AckDurable, AtMost
    <2>3. told \in Marks /\ AtMost(told, wmFile)
      <3>1. CASE writer.failed
        BY <2>2, <3>1
      <3>2. CASE ~writer.failed
        <4>1. acks \in SUBSET Updates /\ IsFiniteSet(acks)
          BY <1>1, FS_Subset DEF Writers, DiskInv, Shapes
        <4>2. \A c \in acks : AtMost(c.wm, wmFile)
          BY <1>1, <1>3, <3>2 DEF DiskInv, MarksInOrder
        <4> HIDE DEF acks
        <4>3. /\ Merge(hist.acked, acks) \in Marks
              /\ \A g \in Signals : \/ Merge(hist.acked, acks)[g] = hist.acked[g]
                                    \/ \E c \in acks : Merge(hist.acked, acks)[g] = c.wm[g]
          BY <2>2, <4>1, MergeFacts
        <4> QED BY <2>2, <3>2, <4>2, <4>3 DEF AtMost
      <3> QED BY <3>1, <3>2
    <2> HIDE DEF told
    <2>4. hist' \in Histories /\ hist'.acked = told
      BY <1>1, <2>1, <2>3 DEF Histories
    <2>5. hist'.accepted = hist.accepted /\ hist'.resolved = hist.resolved /\ hist'.delivered = hist.delivered
      BY <1>1, <2>1 DEF Histories
    <2> QED BY <2>3, <2>4, <2>5
  <1>6. /\ Files(files) /\ Intact(files) /\ Synced(files, synced)
    BY <1>2 DEF DiskInv, Shapes, FramesInOrder
  <1>7. /\ DOMAIN files' = DOMAIN files \ gone /\ files' = [id \in DOMAIN files' |-> files'[id]]
        /\ synced' = [id \in DOMAIN files' |-> synced'[id]]
        /\ \A id \in DOMAIN files' : files'[id] = files[id] /\ synced'[id] = synced[id]
    <2> HIDE DEF gone
    <2>1. DOMAIN synced = DOMAIN files
      BY <1>6 DEF Synced
    <2> QED BY <1>1, <2>1 DEF Without
  <1>8. Files(files') /\ Intact(files') /\ Synced(files', synced')
    <2>1. Intact(files') /\ Synced(files', synced')
      BY <1>6, <1>7 DEF Intact, Synced
    <2>2. IsFiniteSet(DOMAIN files') /\ DOMAIN files' \subseteq Nat \ {0}
      BY <1>6, <1>7, FS_Subset DEF Files
    <2> QED BY <1>7, <2>1, <2>2, IntactFiles
  <1>9. ASSUME NEW id \in gone
        PROVE  id \in SealedIds(writer.sealed) /\ id \in DOMAIN files /\ AtMost(MaxSeqs(files[id]), writer.persisted)
    <2>1. PICK seg \in writer.sealed : seg.id = id /\ IsFullyAcked(seg, writer.persisted)
      BY DEF Reclaimable
    <2>2. seg.id \in DOMAIN files /\ seg.maxSeq = MaxSeqs(files[id])
      BY <2>1 DEF DiskInv, SealedAgree
    <2> QED BY <2>1, <2>2 DEF SealedIds, IsFullyAcked, AtMost
  <1>10. ASSUME NEW seg \in left PROVE ~IsFullyAcked(seg, writer.persisted)
    <2>1. CASE writer.dirty /\ ~writer.failed
      BY <2>1 DEF Reclaimable
    <2>2. CASE ~(writer.dirty /\ ~writer.failed)
      BY <2>2 DEF DiskInv, SealedAgree, Collecting
    <2> QED BY <2>1, <2>2
  <1> HIDE DEF gone, told, acks
  <1>11. Carried({})
    <2>1. ASSUME NEW at \in Places, NEW f \in Frames, Needed(files, at, f)
          PROVE  Holds(files', at, f) /\ (at[2] <= synced[at[1]] => at[2] <= synced'[at[1]])
      <3>1. /\ at[1] \in DOMAIN files /\ at[2] \in DOMAIN files[at[1]] /\ files[at[1]][at[2]] = f
            /\ f.seq > writer.persisted[f.signal]
        BY <2>1 DEF Needed, Holds
      <3>2. at[1] \notin gone
        <4>1. SUFFICES ASSUME at[1] \in gone PROVE FALSE
          OBVIOUS
        <4> DEFINE s == files[at[1]]
        <4>2. AtMost(MaxSeqs(s), writer.persisted) /\ s \in Seq(Frames)
          BY <1>6, <1>9, <3>1, <4>1 DEF Intact
        <4>3. s[at[2]].signal \in Signals /\ s[at[2]].seq <= MaxSeqs(s)[s[at[2]].signal] /\ MaxSeqs(s) \in Marks
          BY <3>1, <4>2, MaxSeqsFacts
        <4>4. f.signal \in Signals /\ f.seq <= MaxSeqs(s)[f.signal]
          BY <3>1, <4>3
        <4>5. MaxSeqs(s)[f.signal] <= writer.persisted[f.signal]
          BY <4>2, <4>4 DEF AtMost
        <4>6. f.seq \in Nat /\ MaxSeqs(s)[f.signal] \in Nat /\ writer.persisted[f.signal] \in Nat
          BY <1>3, <4>3, <4>4 DEF Frames, Marks
        <4> HIDE DEF s
        <4> QED BY <3>1, <4>4, <4>5, <4>6
      <3> QED BY <1>7, <3>1, <3>2 DEF Holds
    <2>2. OnDisk(files') \subseteq OnDisk(files)
      BY <1>7 DEF OnDisk
    <2> QED BY <1>8, <2>1, <2>2 DEF Carried
  <1>12. FramesInOrder' /\ SlotsOnDisk' /\ DeliveredKept' /\ AcceptedKept'
    <2>1. \A x \in {} : \E c \in Pending : x = EncodedFrame(c)
      OBVIOUS
    <2>2. \A x, y \in {} : x = y
      OBVIOUS
    <2> QED BY <1>1, <1>2, <1>5, <1>11, <2>1, <2>2, DiskMoves
  <1>13. Shapes'
    <2>1. fatal' \in BOOLEAN /\ IsFiniteSet({})
      BY <1>1, FS_EmptySet
    <2> QED BY <1>1, <1>4, <1>5, <1>8, <2>1 DEF DiskInv, Shapes
  <1>14. RingsInOrder'
    BY <1>1 DEF DiskInv, RingsInOrder
  <1>15. Phases'
    BY <1>1, <1>2, <1>4 DEF DiskInv, Phases
  <1>16. MarksInOrder'
    <2>1. AckDurable'
      BY <1>1, <1>5 DEF AckDurable, AtMost
    <2> QED BY <1>1, <1>3, <1>4, <2>1 DEF DiskInv, MarksInOrder
  <1>17. AppendsInOrder'
    <2>1. Pending' = Pending /\ PowerLoss' = PowerLoss
      BY <1>1, <1>2, <1>4 DEF Pending, PowerLoss
    <2>2. OnDisk(files') \subseteq OnDisk(files)
      BY <1>11 DEF Carried
    <2>3. \A c : HasSlot(c)' <=> HasSlot(c)
      BY <1>1, <1>5 DEF HasSlot
    <2> QED BY <1>1, <1>2, <1>4, <1>5, <2>1, <2>2, <2>3 DEF DiskInv, AppendsInOrder
  <1>18. SealedAgree'
    <2>1. \A seg \in left : seg.id \in DOMAIN files' /\ seg.maxSeq = MaxSeqs(files'[seg.id])
      BY <1>7 DEF DiskInv, SealedAgree
    <2>2. writer.active # 0 => writer.active \in DOMAIN files' \ SealedIds(left)
      BY <1>7, <1>9 DEF DiskInv, SealedAgree, SealedIds
    <2>3. \A id \in DOMAIN files' : id < writer.next
      BY <1>2, <1>7 DEF DiskInv, SealedAgree
    <2> HIDE DEF left
    <2> QED BY <1>4, <1>10, <2>1, <2>2, <2>3 DEF SealedAgree
  <1>19. NoOrphans'
    <2>1. SUFFICES ASSUME ~fatal' PROVE \A id \in DOMAIN files' : id = writer.active \/ id \in SealedIds(left)
      BY <1>1, <1>2, <1>4 DEF NoOrphans
    <2>2. \A id \in DOMAIN files : id = writer.active \/ id \in SealedIds(writer.sealed)
      BY <1>1, <1>2, <2>1 DEF DiskInv, NoOrphans
    <2> QED BY <1>7, <2>2 DEF SealedIds
  <1>20. GroupSynced'
    BY <1>4 DEF GroupSynced
  <1> QED BY <1>12, <1>13, <1>14, <1>15, <1>16, <1>17, <1>18, <1>19, <1>20 DEF DiskInv

-----------------------------------------------------------------------------
(* Steps that leave the disk alone                                          *)

(* No ring goes back. *)
Grows ==
    /\ ring' \in [Signals -> Rings]
    /\ \A g \in Signals :
        /\ RingOK(ring'[g])
        /\ ring[g].committed <= ring'[g].committed /\ ring[g].next <= ring'[g].next

(* The writer thread is where it was, perhaps with one append answered. *)
WriterStays ==
    /\ writer' \in Writers
    /\ writer'.phase = writer.phase /\ writer'.todo = writer.todo /\ writer'.wms = writer.wms
    /\ writer'.dirty = writer.dirty /\ writer'.failed = writer.failed
    /\ writer'.active = writer.active /\ writer'.sealed = writer.sealed /\ writer'.next = writer.next
    /\ writer'.persisted = writer.persisted /\ writer'.staged = writer.staged
    /\ writer'.done \subseteq writer.done
    /\ ~fatal' /\ (\A d \in writer'.done : d.ok) => ~fatal /\ \A d \in writer.done : d.ok

(* The commands U are sent, no watermark among them ahead of the rings. *)
Sends(U) ==
    /\ cmds' = cmds \union U
    /\ IsFiniteSet(U) /\ U \subseteq Appends \union Updates
    /\ \A c \in U : c.kind # "append" => \A g \in Signals : c.wm[g] <= ring'[g].committed

LEMMA MemoryStep ==
    ASSUME DiskInv, mode = "running", UNCHANGED <<files, synced, wmFile, mode, scenario>>,
           Grows, WriterStays, NEW U, Sends(U),
           hist' \in Histories, hist'.acked = hist.acked, unsent' \in Nat, fatal' \in BOOLEAN
    PROVE  Shapes' /\ RingsInOrder' /\ Phases' /\ MarksInOrder' /\ FramesInOrder' /\ SealedAgree' /\ NoOrphans'
  <1>1. Shapes'
    <2>1. IsFiniteSet(cmds') /\ cmds' \subseteq Appends \union Updates
      BY FS_Union DEF Sends, DiskInv, Shapes
    <2> QED BY <2>1 DEF DiskInv, Shapes, Grows, WriterStays
  <1>2. RingsInOrder'
    BY DEF RingsInOrder, Grows, RingOK
  <1>3. Phases'
    BY DEF DiskInv, Phases, WriterStays
  <1>4. \A g \in Signals : /\ ring[g].committed \in Nat /\ ring'[g].committed \in Nat
                           /\ ring[g].next \in Nat /\ ring'[g].next \in Nat
                           /\ ring[g].committed <= ring'[g].committed /\ ring[g].next <= ring'[g].next
    <2>1. \A g \in Signals : RingOK(ring[g])
      BY Types
    <2> QED BY <2>1 DEF Grows, RingOK, Rings
  <1>5. MarksInOrder'
    <2>1. \A g \in Signals : writer'.staged[g] <= ring'[g].committed
      <3>1. \A g \in Signals : writer.staged[g] <= ring[g].committed /\ writer.staged[g] \in Nat
        BY Types DEF DiskInv, MarksInOrder, Marks
      <3> QED BY <1>4, <3>1 DEF WriterStays
    <2>2. ASSUME NEW c \in cmds', c.kind # "append" PROVE \A g \in Signals : c.wm[g] <= ring'[g].committed
      <3>1. CASE c \in cmds
        <4>1. c \in Updates
          BY <2>2, <3>1 DEF DiskInv, Shapes, Appends
        <4>2. \A g \in Signals : c.wm[g] \in Nat /\ c.wm[g] <= ring[g].committed
          BY <2>2, <3>1, <4>1 DEF DiskInv, MarksInOrder, Updates, Marks
        <4> QED BY <1>4, <4>2
      <3>2. CASE c \in U
        BY <2>2, <3>2 DEF Sends
      <3> QED BY <3>1, <3>2 DEF Sends
    <2>3. AckDurable'
      BY DEF DiskInv, MarksInOrder, AckDurable
    <2> QED BY <2>1, <2>2, <2>3 DEF DiskInv, MarksInOrder, WriterStays
  <1>6. FramesInOrder'
    <2>1. ASSUME NEW f \in OnDisk(files) PROVE f.seq < ring'[f.signal].next
      <3>1. f.signal \in Signals /\ f.seq \in Nat
        BY DEF OnDisk, Frames
      <3>2. f.seq < ring[f.signal].next
        BY DEF DiskInv, FramesInOrder
      <3> QED BY <1>4, <3>1, <3>2
    <2> QED BY <2>1 DEF DiskInv, FramesInOrder
  <1>7. SealedAgree'
    BY DEF DiskInv, SealedAgree, WriterStays, Collecting
  <1>8. NoOrphans'
    BY DEF DiskInv, NoOrphans, WriterStays
  <1> QED BY <1>1, <1>2, <1>3, <1>5, <1>6, <1>7, <1>8

(* An append has a slot of its own, below next. *)
LEMMA PendingTypes ==
    ASSUME DiskInv
    PROVE  /\ \A c \in Pending : c \in Appends /\ c.signal \in Signals /\ c.seq \in Nat /\ c.seq < ring[c.signal].next
           /\ \A d \in writer.done : /\ d \in Outcomes /\ d.cmd \in Appends /\ d.cmd.signal \in Signals
                                     /\ d.cmd.seq \in Nat /\ d.cmd.seq < ring[d.cmd.signal].next
  <1>1. (\A c \in Pending : c \in Appends) /\ (\A d \in writer.done : d \in Outcomes /\ d.cmd \in Appends)
    BY Types
  <1>2. (\A c \in Pending : HasSlot(c)) /\ (\A d \in writer.done : HasSlot(d.cmd))
    BY DEF DiskInv, AppendsInOrder
  <1> QED BY <1>1, <1>2 DEF Appends, HasSlot

(* send: a number that nothing has yet. *)
LEMMA SendKeeps ==
    ASSUME DiskInv, NEW g \in Signals, Send(g)
    PROVE  DiskInv'
  <1> DEFINE n == ring[g].next
             m == hist.sent + 1
             slot == [state |-> "Reserved", msg |-> m, at |-> <<0, 0>>]
  <1>0. PICK c : c = [kind |-> "append", signal |-> g, seq |-> n, msg |-> m]
    OBVIOUS
  <1>1. /\ mode = "running" /\ hist \in Histories /\ writer \in Writers
        /\ UNCHANGED <<files, synced, wmFile, fatal, unsent, writer, mode, crashes, faults, scenario>>
        /\ cmds' = cmds \union {c} /\ hist' = [hist EXCEPT !.sent = m]
        /\ ring' = [ring EXCEPT ![g] = PutSlot([@ EXCEPT !.next = n + 1], n, slot)]
    BY <1>0 DEF Send, DiskInv, Shapes
  <1>2. ring \in [Signals -> Rings] /\ \A h \in Signals : RingOK(ring[h])
    BY Types DEF DiskInv, Shapes
  <1>3. /\ hist' \in Histories /\ hist'.acked = hist.acked /\ hist'.accepted = hist.accepted
        /\ hist'.resolved = hist.resolved /\ hist'.delivered = hist.delivered /\ m \in Nat
    BY <1>1 DEF Histories
  <1>4. slot \in Slots /\ slot.state = "Reserved" /\ slot.msg = m
    BY <1>3 DEF Slots
  <1>5. n \in Nat \ {0}
    BY <1>2 DEF RingOK, Rings
  <1>6. c \in Appends /\ c.kind = "append" /\ c.signal = g /\ c.seq = n /\ c.msg = m
    BY <1>0, <1>3, <1>5 DEF Appends
  <1> DEFINE q == PutSlot([ring[g] EXCEPT !.next = n + 1], n, slot)
  <1>7. ring' = [ring EXCEPT ![g] = q]
    BY <1>1, <1>2
  <1> HIDE DEF q, slot, m
  <1>8. /\ RingOK(q) /\ q.next = n + 1 /\ q.committed = ring[g].committed
        /\ DOMAIN q.slots = DOMAIN ring[g].slots \union {n} /\ q.slots[n] = slot
        /\ \A s \in DOMAIN ring[g].slots : s # n /\ q.slots[s] = ring[g].slots[s]
    BY <1>2, <1>4, PutFacts DEF q
  <1>9. Grows
    <2>1. q \in Rings
      BY <1>8 DEF RingOK
    <2>2. ring' \in [Signals -> Rings] /\ ring'[g] = q /\ \A h \in Signals \ {g} : ring'[h] = ring[h]
      BY <1>2, <1>7, <2>1
    <2>3. \A h \in Signals : ring[h].committed \in Nat /\ ring[h].next \in Nat
      BY <1>2 DEF RingOK, Rings
    <2> QED BY <1>2, <1>8, <2>2, <2>3 DEF Grows
  <1>10. /\ ring'[g] = q /\ \A h \in Signals : h # g => ring'[h] = ring[h]
    BY <1>2, <1>7
  <1>11. Sends({c})
    BY <1>1, <1>6, FS_Singleton DEF Sends
  <1>12. WriterStays
    BY <1>1 DEF WriterStays
  <1>13. Shapes' /\ RingsInOrder' /\ Phases' /\ MarksInOrder' /\ FramesInOrder' /\ SealedAgree' /\ NoOrphans'
    <2>1. unsent' \in Nat /\ fatal' \in BOOLEAN
      BY <1>1 DEF DiskInv, Shapes
    <2> QED BY <1>1, <1>3, <1>9, <1>11, <1>12, <2>1, MemoryStep
  <1>14. \A h \in Signals : \A s \in DOMAIN ring[h].slots :
             s \in DOMAIN ring'[h].slots /\ ring'[h].slots[s] = ring[h].slots[s]
    BY <1>8, <1>10
  <1>15. \A h \in Signals : \A s \in DOMAIN ring'[h].slots : s \in DOMAIN ring[h].slots \/ (h = g /\ s = n)
    BY <1>8, <1>10
  <1>16. \A h \in Signals : ring[h].next \in Nat /\ ring'[h].next \in Nat /\ ring[h].next <= ring'[h].next
    BY <1>2, <1>9 DEF Grows, RingOK, Rings
  <1>17. PowerLoss' = PowerLoss /\ Durable' = Durable
    BY <1>1 DEF PowerLoss, Durable, SyncOnWrite, Faults
  <1>18. ASSUME NEW b \in Appends, b.signal \in Signals, b.seq \in Nat, b.seq < ring[b.signal].next
         PROVE  /\ ~SameSeq(b, c) /\ ~SameSeq(c, b)
                /\ HasSlot(b) => HasSlot(b)'
                /\ Held(b)' <=> Held(b)
    <2>1. ~(b.signal = g /\ b.seq = n)
      BY <1>5, <1>18
    <2>2. Held(b)' <=> Held(b)
      BY <1>14, <1>15, <1>18, <2>1 DEF Held
    <2>3. b.seq < ring'[b.signal].next
      BY <1>16, <1>18
    <2>4. ~SameSeq(b, c) /\ ~SameSeq(c, b)
      BY <1>6, <2>1 DEF SameSeq
    <2>5. ASSUME HasSlot(b) PROVE HasSlot(b)'
      BY <1>3, <1>14, <1>18, <2>2, <2>3, <2>5 DEF HasSlot, Held
    <2> QED BY <2>2, <2>4, <2>5
  <1>19. Pending' = Pending \union {c}
    BY <1>1, <1>6 DEF Pending
  <1>20. AppendsInOrder'
    <2>1. (cmds \intersect writer.todo = {})'
      <3>1. c \notin writer.todo
        <4>1. SUFFICES ASSUME c \in writer.todo PROVE FALSE
          OBVIOUS
        <4>2. c \in Pending
          BY <4>1 DEF Pending
        <4>3. c.seq < ring[c.signal].next
          BY <4>2, PendingTypes
        <4> QED BY <1>5, <1>6, <4>3
      <3> QED BY <1>1, <3>1 DEF DiskInv, AppendsInOrder
    <2>2. /\ HasSlot(c)'
          /\ \A f \in OnDisk(files) : ~SameSeq(f, c)
          /\ \A o \in Pending : ~SameSeq(c, o) /\ ~SameSeq(o, c)
          /\ \A d \in writer.done : ~SameSeq(c, d.cmd)
          /\ ~PowerLoss => \A d \in hist.delivered : ~(d[1] = c.signal /\ d[2] = c.seq)
      <3>1. HasSlot(c)'
        <4>1. n < n + 1
          BY <1>5
        <4> QED BY <1>4, <1>6, <1>8, <1>10, <4>1 DEF HasSlot
      <3>2. \A f \in OnDisk(files) : ~SameSeq(f, c)
        <4>1. \A f \in OnDisk(files) : f.seq < ring[f.signal].next
          BY <1>1 DEF DiskInv, FramesInOrder
        <4>2. ~(n < n)
          BY <1>5
        <4> QED BY <1>6, <4>1, <4>2 DEF SameSeq
      <3>3. /\ \A o \in Pending : ~SameSeq(c, o) /\ ~SameSeq(o, c)
            /\ \A d \in writer.done : ~SameSeq(c, d.cmd)
        BY <1>18, PendingTypes
      <3>4. ~PowerLoss => \A d \in hist.delivered : ~(d[1] = c.signal /\ d[2] = c.seq)
        <4>1. ~PowerLoss => \A d \in hist.delivered : d[2] < ring[d[1]].next
          BY <1>1 DEF DiskInv, DeliveredKept
        <4>2. ~(n < n)
          BY <1>5
        <4> QED BY <1>6, <4>1, <4>2
      <3> QED BY <3>1, <3>2, <3>3, <3>4
    <2>3. ASSUME NEW b \in Pending
          PROVE  /\ HasSlot(b)'
                 /\ \A f \in OnDisk(files) : ~SameSeq(f, b)
                 /\ \A o \in Pending : SameSeq(b, o) => b = o
                 /\ \A d \in writer.done : ~SameSeq(b, d.cmd)
                 /\ ~PowerLoss => \A d \in hist.delivered : ~(d[1] = b.signal /\ d[2] = b.seq)
      <3>1. HasSlot(b)'
        <4>1. HasSlot(b)
          BY DEF DiskInv, AppendsInOrder
        <4> QED BY <1>18, <4>1, PendingTypes
      <3> QED BY <3>1 DEF DiskInv, AppendsInOrder
    <2>4. ASSUME NEW d \in writer.done
          PROVE  /\ HasSlot(d.cmd)'
                 /\ d.ok /\ Held(d.cmd)' => Holds(files, d.at, EncodedFrame(d.cmd))
                 /\ \A e \in writer.done : SameSeq(d.cmd, e.cmd) => d = e
      <3>1. HasSlot(d.cmd) /\ (d.ok /\ Held(d.cmd) => Holds(files, d.at, EncodedFrame(d.cmd)))
        BY DEF DiskInv, AppendsInOrder
      <3>2. HasSlot(d.cmd)' /\ (Held(d.cmd)' <=> Held(d.cmd))
        BY <1>18, <3>1, PendingTypes
      <3> QED BY <3>1, <3>2 DEF DiskInv, AppendsInOrder
    <2>5. \A b \in Pending' :
             /\ HasSlot(b)'
             /\ \A f \in OnDisk(files') : ~SameSeq(f, b)
             /\ \A o \in Pending' : SameSeq(b, o) => b = o
             /\ \A d \in writer'.done : ~SameSeq(b, d.cmd)
             /\ ~PowerLoss' => \A d \in hist'.delivered : ~(d[1] = b.signal /\ d[2] = b.seq)
      BY <1>1, <1>3, <1>17, <1>19, <2>2, <2>3
    <2> QED BY <1>1, <2>1, <2>4, <2>5 DEF AppendsInOrder
  <1>21. SlotsOnDisk'
    <2>1. ASSUME NEW h \in Signals, NEW s \in DOMAIN ring'[h].slots, ring'[h].slots[s].state = "Queued"
          PROVE  s \in DOMAIN ring[h].slots /\ ring'[h].slots[s] = ring[h].slots[s]
      <3>1. ~(h = g /\ s = n)
        BY <1>4, <1>8, <1>10, <2>1
      <3> QED BY <1>14, <1>15, <2>1, <3>1
    <2> QED BY <1>1, <2>1 DEF DiskInv, SlotsOnDisk
  <1>22. DeliveredKept'
    <2>1. SUFFICES ASSUME ~PowerLoss, NEW d \in hist.delivered
                   PROVE  /\ d[2] < ring'[d[1]].next
                          /\ d[2] \in DOMAIN ring'[d[1]].slots => ring'[d[1]].slots[d[2]].msg = d[3]
      BY <1>1, <1>3, <1>17 DEF DiskInv, DeliveredKept
    <2>2. d[1] \in Signals /\ d[2] \in Nat
      BY <1>1 DEF Histories
    <2>3. d[2] < ring[d[1]].next /\ (d[2] \in DOMAIN ring[d[1]].slots => ring[d[1]].slots[d[2]].msg = d[3])
      BY <1>1, <2>1 DEF DiskInv, DeliveredKept
    <2>4. ~(d[1] = g /\ d[2] = n)
      BY <1>5, <2>3
    <2> QED BY <1>14, <1>15, <1>16, <2>2, <2>3, <2>4
  <1>23. AcceptedKept'
    <2>1. ASSUME NEW k, NEW f \in Frames, NEW at \in Nat \X Nat, KeptAt(k, f, at) PROVE KeptAt(k, f, at)'
      <3>1. f.signal \in Signals
        BY DEF Frames
      <3> QED BY <1>1, <1>14, <1>17, <2>1, <3>1 DEF KeptAt, Safe
    <2> QED BY <1>3, <1>17, <2>1 DEF DiskInv, AcceptedKept
  <1>24. GroupSynced'
    <2>1. \A d \in writer.done : Held(d.cmd)' => Held(d.cmd)
      BY <1>18, PendingTypes
    <2> QED BY <1>1, <1>17, <2>1 DEF DiskInv, GroupSynced
  <1> QED BY <1>13, <1>20, <1>21, <1>22, <1>23, <1>24 DEF DiskInv

(* Slots are dropped, and nothing else happens to the rings. *)
Drops ==
    \A g \in Signals :
        /\ ring'[g].next = ring[g].next
        /\ DOMAIN ring'[g].slots \subseteq DOMAIN ring[g].slots
        /\ \A s \in DOMAIN ring'[g].slots : ring'[g].slots[s] = ring[g].slots[s]

(* The batch of a slot that is dropped is resolved, or its append failed and is answered. *)
Excused ==
    \A g \in Signals : \A s \in DOMAIN ring[g].slots \ DOMAIN ring'[g].slots :
        \/ ring[g].slots[s].msg \in hist'.resolved
        \/ /\ ring[g].slots[s].state = "Reserved"
           /\ \A c \in Pending : ~(c.signal = g /\ c.seq = s)
           /\ \A d \in writer'.done : ~(d.cmd.signal = g /\ d.cmd.seq = s)

(* The batches D were delivered out of such slots. *)
Delivers(D) ==
    /\ hist'.delivered = hist.delivered \union D
    /\ \A x \in D : \E g \in Signals : \E s \in DOMAIN ring[g].slots :
        /\ ring[g].slots[s].state = "Queued" /\ s \notin DOMAIN ring'[g].slots
        /\ x = <<g, s, ring[g].slots[s].msg>>

(* A batch that was delivered is the one on disk with its number. *)
LEMMA DropStep ==
    ASSUME DiskInv, mode = "running", UNCHANGED <<files, synced, wmFile, mode, scenario>>,
           Grows, WriterStays, NEW U \in SUBSET Updates, Sends(U), Drops, Excused, NEW D, Delivers(D),
           hist' \in Histories, hist'.acked = hist.acked, hist.resolved \subseteq hist'.resolved,
           hist'.accepted \ hist'.resolved \subseteq hist.accepted \ hist.resolved,
           unsent' \in Nat, fatal' \in BOOLEAN
    PROVE  DiskInv'
  <1>1. Shapes' /\ RingsInOrder' /\ Phases' /\ MarksInOrder' /\ FramesInOrder' /\ SealedAgree' /\ NoOrphans'
    BY MemoryStep
  <1>2. Pending' = Pending
    <2>1. \A c \in U : c.kind # "append"
      BY DEF Updates
    <2> QED BY <2>1 DEF Pending, Sends, WriterStays
  <1>3. PowerLoss' = PowerLoss /\ Durable' = Durable
    BY DEF PowerLoss, Durable, SyncOnWrite, Faults
  <1>4. ASSUME NEW b, b.signal \in Signals, HasSlot(b),
               b \in Pending \/ \E d \in writer'.done : d.cmd = b
        PROVE  HasSlot(b)'
    <2>1. CASE b.seq \in DOMAIN ring'[b.signal].slots
      BY <1>4, <2>1 DEF HasSlot, Drops
    <2>2. CASE b.seq \notin DOMAIN ring[b.signal].slots
      BY <1>4, <2>2 DEF HasSlot, Drops
    <2>3. CASE b.seq \in DOMAIN ring[b.signal].slots /\ b.seq \notin DOMAIN ring'[b.signal].slots
      <3>1. ring[b.signal].slots[b.seq].msg \in hist'.resolved
        BY <1>4, <2>3 DEF Excused
      <3> QED BY <1>4, <2>3, <3>1 DEF HasSlot, Drops
    <2> QED BY <2>1, <2>2, <2>3
  <1>5. \A d \in writer.done : Held(d.cmd)' => Held(d.cmd)
    BY PendingTypes DEF Held, Drops
  <1>6. ASSUME NEW x \in D
        PROVE  \E g \in Signals : \E s \in Nat : \E k : \E f \in OnDisk(files) :
                  /\ x = <<g, s, k>> /\ f.signal = g /\ f.seq = s /\ f.msg = k
                  /\ s < ring'[g].next /\ s \notin DOMAIN ring'[g].slots
    <2>1. PICK g \in Signals : \E s \in DOMAIN ring[g].slots :
              /\ ring[g].slots[s].state = "Queued" /\ s \notin DOMAIN ring'[g].slots
              /\ x = <<g, s, ring[g].slots[s].msg>>
      BY DEF Delivers
    <2>2. PICK s \in DOMAIN ring[g].slots :
              /\ ring[g].slots[s].state = "Queued" /\ s \notin DOMAIN ring'[g].slots
              /\ x = <<g, s, ring[g].slots[s].msg>>
      BY <2>1
    <2> DEFINE slot == ring[g].slots[s]
               f == [signal |-> g, seq |-> s, msg |-> slot.msg]
    <2>3. RingOK(ring[g])
      BY Types
    <2>4. slot \in Slots /\ s \in Nat \ {0} /\ s < ring'[g].next
      <3>1. /\ ring[g].slots \in UNION {[S -> Slots] : S \in SUBSET Nat}
            /\ ring[g].committed \in Nat /\ ring[g].committed < s /\ s < ring[g].next
        BY <2>3 DEF RingOK, Rings
      <3>2. slot \in Slots /\ s \in Nat
        BY <3>1
      <3> QED BY <3>1, <3>2 DEF Drops
    <2>5. f \in Frames /\ f.signal = g /\ f.seq = s /\ f.msg = slot.msg
      BY <2>4 DEF Frames, Slots
    <2>6. Holds(files, slot.at, f)
      BY <2>2 DEF DiskInv, SlotsOnDisk
    <2> HIDE DEF f
    <2>7. f \in OnDisk(files)
      BY <2>5, <2>6, HeldOnDisk
    <2> QED BY <2>2, <2>4, <2>5, <2>7
  <1>7. AppendsInOrder'
    <2>1. (cmds \intersect writer.todo = {})'
      <3>1. \A c \in writer.todo : c \notin U
        <4>1. \A c \in writer.todo : c.kind = "append"
          BY Types DEF Appends
        <4> QED BY <4>1 DEF Updates
      <3> QED BY <3>1 DEF DiskInv, AppendsInOrder, Sends, WriterStays
    <2>2. ASSUME NEW c \in Pending
          PROVE  /\ HasSlot(c)'
                 /\ ~PowerLoss => \A d \in hist'.delivered : ~(d[1] = c.signal /\ d[2] = c.seq)
      <3>1. HasSlot(c) /\ \A f \in OnDisk(files) : ~SameSeq(f, c)
        BY DEF DiskInv, AppendsInOrder
      <3>2. c.signal \in Signals
        BY PendingTypes
      <3>3. HasSlot(c)'
        BY <1>4, <3>1, <3>2
      <3>4. \A x \in D : ~(x[1] = c.signal /\ x[2] = c.seq)
        BY <1>6, <3>1 DEF SameSeq
      <3>5. ~PowerLoss => \A d \in hist.delivered : ~(d[1] = c.signal /\ d[2] = c.seq)
        BY DEF DiskInv, AppendsInOrder
      <3> QED BY <3>3, <3>4, <3>5 DEF Delivers
    <2>3. ASSUME NEW d \in writer'.done
          PROVE  HasSlot(d.cmd)' /\ (d.ok /\ Held(d.cmd)' => Holds(files, d.at, EncodedFrame(d.cmd)))
      <3>1. d \in writer.done
        BY DEF WriterStays
      <3>2. HasSlot(d.cmd) /\ (d.ok /\ Held(d.cmd) => Holds(files, d.at, EncodedFrame(d.cmd)))
        BY <3>1 DEF DiskInv, AppendsInOrder
      <3>3. HasSlot(d.cmd)'
        BY <1>4, <3>1, <3>2, PendingTypes
      <3> QED BY <1>5, <3>1, <3>2, <3>3
    <2>4. \A c \in Pending : /\ \A f \in OnDisk(files) : ~SameSeq(f, c)
                             /\ \A o \in Pending : SameSeq(c, o) => c = o
                             /\ \A d \in writer'.done : ~SameSeq(c, d.cmd)
      BY DEF DiskInv, AppendsInOrder, WriterStays
    <2>5. \A d, e \in writer'.done : SameSeq(d.cmd, e.cmd) => d = e
      BY DEF DiskInv, AppendsInOrder, WriterStays
    <2> QED BY <1>2, <1>3, <2>1, <2>2, <2>3, <2>4, <2>5 DEF AppendsInOrder
  <1>8. SlotsOnDisk'
    BY DEF DiskInv, SlotsOnDisk, Drops
  <1>9. DeliveredKept'
    <2>1. SUFFICES ASSUME ~PowerLoss PROVE
            \A d \in hist'.delivered :
              /\ d[2] <= wmFile[d[1]] \/ \E f \in OnDisk(files) : f.signal = d[1] /\ f.seq = d[2]
              /\ \A f \in OnDisk(files) : f.signal = d[1] /\ f.seq = d[2] => f.msg = d[3]
              /\ d[2] < ring'[d[1]].next
              /\ d[2] \in DOMAIN ring'[d[1]].slots => ring'[d[1]].slots[d[2]].msg = d[3]
              /\ \A e \in hist'.delivered : d[1] = e[1] /\ d[2] = e[2] => d[3] = e[3]
      BY <1>3 DEF DeliveredKept
    <2>2. ASSUME NEW d \in hist.delivered
          PROVE  /\ d[2] <= wmFile[d[1]] \/ \E f \in OnDisk(files) : f.signal = d[1] /\ f.seq = d[2]
                 /\ \A f \in OnDisk(files) : f.signal = d[1] /\ f.seq = d[2] => f.msg = d[3]
                 /\ d[2] < ring'[d[1]].next
                 /\ d[2] \in DOMAIN ring'[d[1]].slots => ring'[d[1]].slots[d[2]].msg = d[3]
                 /\ \A e \in hist.delivered : d[1] = e[1] /\ d[2] = e[2] => d[3] = e[3]
      <3>1. /\ d[2] <= wmFile[d[1]] \/ \E f \in OnDisk(files) : f.signal = d[1] /\ f.seq = d[2]
            /\ \A f \in OnDisk(files) : f.signal = d[1] /\ f.seq = d[2] => f.msg = d[3]
            /\ d[2] < ring[d[1]].next
            /\ d[2] \in DOMAIN ring[d[1]].slots => ring[d[1]].slots[d[2]].msg = d[3]
            /\ \A e \in hist.delivered : d[1] = e[1] /\ d[2] = e[2] => d[3] = e[3]
        BY <2>1 DEF DiskInv, DeliveredKept
      <3>2. d[1] \in Signals
        BY DEF DiskInv, Shapes, Histories
      <3> QED BY <3>1, <3>2 DEF Drops
    <2>3. \A f, h \in OnDisk(files) : f.signal = h.signal /\ f.seq = h.seq => f = h
      BY DEF DiskInv, FramesInOrder, SameSeq
    <2>4. ASSUME NEW x \in D
          PROVE  /\ \E f \in OnDisk(files) : f.signal = x[1] /\ f.seq = x[2]
                 /\ \A f \in OnDisk(files) : f.signal = x[1] /\ f.seq = x[2] => f.msg = x[3]
                 /\ x[2] < ring'[x[1]].next
                 /\ x[2] \notin DOMAIN ring'[x[1]].slots
      BY <1>6, <2>3
    <2>5. \A d, e \in hist'.delivered : d[1] = e[1] /\ d[2] = e[2] => d[3] = e[3]
      <3>1. hist'.delivered = hist.delivered \union D
        BY DEF Delivers
      <3> QED BY <2>2, <2>4, <3>1
    <2> QED BY <2>2, <2>4, <2>5 DEF Delivers
  <1>10. AcceptedKept'
    <2>1. ASSUME NEW k, k \notin hist'.resolved, NEW f \in Frames, NEW at \in Nat \X Nat, KeptAt(k, f, at)
          PROVE  KeptAt(k, f, at)'
      <3>1. /\ f.signal \in Signals /\ f.seq \in DOMAIN ring[f.signal].slots
            /\ ring[f.signal].slots[f.seq].state = "Queued" /\ ring[f.signal].slots[f.seq].msg = k
        BY <2>1 DEF Frames, KeptAt
      <3>2. f.seq \in DOMAIN ring'[f.signal].slots
        BY <2>1, <3>1 DEF Excused
      <3>3. ring'[f.signal].slots[f.seq] = ring[f.signal].slots[f.seq]
        BY <3>1, <3>2 DEF Drops
      <3> QED BY <1>3, <2>1, <3>1, <3>2, <3>3 DEF KeptAt, Safe
    <2>2. SUFFICES ASSUME Durable, NEW m \in hist'.accepted \ hist'.resolved
                   PROVE  \E f \in Frames : \E at \in Nat \X Nat : KeptAt(m, f, at)'
      BY <1>3 DEF AcceptedKept
    <2>3. m \in hist.accepted \ hist.resolved
      BY <2>2
    <2>4. PICK f \in Frames : \E at \in Nat \X Nat : KeptAt(m, f, at)
      BY <2>2, <2>3 DEF DiskInv, AcceptedKept
    <2>5. PICK at \in Nat \X Nat : KeptAt(m, f, at)
      BY <2>4
    <2> QED BY <2>1, <2>2, <2>5
  <1>11. GroupSynced'
    <2>1. \A d \in writer'.done : d \in writer.done /\ (Held(d.cmd)' => Held(d.cmd))
      BY <1>5 DEF WriterStays
    <2> QED BY <1>3, <2>1 DEF DiskInv, GroupSynced, WriterStays
  <1> QED BY <1>1, <1>7, <1>8, <1>9, <1>10, <1>11 DEF DiskInv

(* ack_lease's critical section. *)
LEMMA AckKeeps ==
    ASSUME DiskInv, NEW g \in Signals, NEW s, Ack(g, s)
    PROVE  DiskInv'
  <1> DEFINE slot == ring[g].slots[s]
             q == DropSlots(ring[g], {s})
             D == {<<g, s, slot.msg>>}
  <1>1. /\ mode = "running" /\ s \in DOMAIN ring[g].slots /\ slot.state = "Queued"
        /\ ring' = [ring EXCEPT ![g] = q]
        /\ unsent' = unsent + 1
        /\ hist' = [hist EXCEPT !.resolved = @ \union {slot.msg}, !.delivered = @ \union D]
        /\ UNCHANGED <<files, synced, wmFile, fatal, cmds, writer, mode, crashes, faults, scenario>>
    BY DEF Ack, DiskInv, Shapes
  <1>2. /\ ring \in [Signals -> Rings] /\ hist \in Histories /\ writer \in Writers
        /\ \A h \in Signals : RingOK(ring[h])
    BY Types DEF DiskInv, Shapes
  <1>3. /\ RingOK(q) /\ q.next = ring[g].next /\ DOMAIN q.slots = DOMAIN ring[g].slots \ {s}
        /\ \A i \in DOMAIN ring[g].slots \ {s} : q.slots[i] = ring[g].slots[i]
        /\ ring[g].committed <= q.committed
    BY <1>2, DropFacts
  <1>4. slot \in Slots /\ s \in Nat
    <2>1. RingOK(ring[g])
      BY <1>2
    <2>2. ring[g].slots \in UNION {[S -> Slots] : S \in SUBSET Nat}
      BY <2>1 DEF RingOK, Rings
    <2> QED BY <1>1, <2>2
  <1> HIDE DEF q
  <1>5. ring' \in [Signals -> Rings] /\ ring'[g] = q /\ \A h \in Signals \ {g} : ring'[h] = ring[h]
    BY <1>1, <1>2, <1>3 DEF RingOK
  <1>6. Grows
    <2>1. \A h \in Signals : ring[h].committed \in Nat /\ ring[h].next \in Nat
      BY <1>2 DEF RingOK, Rings
    <2> QED BY <1>2, <1>3, <1>5, <2>1 DEF Grows
  <1>7. Drops
    BY <1>3, <1>5 DEF Drops
  <1>8. /\ hist' \in Histories /\ hist'.acked = hist.acked /\ hist'.accepted = hist.accepted
        /\ hist'.resolved = hist.resolved \union {slot.msg} /\ hist'.delivered = hist.delivered \union D
    <2> DEFINE R == hist.resolved \union {slot.msg}
               E == hist.delivered \union D
    <2>1. R \subseteq Nat /\ E \subseteq Signals \X Nat \X Nat
      BY <1>2, <1>4 DEF Histories, Slots
    <2>2. hist' = [hist EXCEPT !.resolved = R, !.delivered = E]
      BY <1>1, <1>2 DEF Histories
    <2> HIDE DEF R, E
    <2>3. /\ hist' \in Histories /\ hist'.acked = hist.acked /\ hist'.accepted = hist.accepted
          /\ hist'.resolved = R /\ hist'.delivered = E
      BY <1>2, <2>1, <2>2 DEF Histories
    <2> QED BY <2>3 DEF R, E
  <1>9. Excused
    BY <1>3, <1>5, <1>8 DEF Excused
  <1>10. Delivers(D)
    BY <1>1, <1>3, <1>5, <1>8 DEF Delivers
  <1>11. WriterStays /\ Sends({})
    BY <1>1, <1>2, FS_EmptySet DEF WriterStays, Sends
  <1>12. unsent' \in Nat /\ fatal' \in BOOLEAN
    BY <1>1 DEF DiskInv, Shapes
  <1> HIDE DEF D
  <1> QED BY <1>1, <1>6, <1>7, <1>8, <1>9, <1>10, <1>11, <1>12, DropStep

(* Its second half. *)
LEMMA SendWatermarkKeeps ==
    ASSUME DiskInv, SendWatermark
    PROVE  DiskInv'
  <1> DEFINE c == [kind |-> "update", ack |-> TRUE, wm |-> Watermark]
  <1>1. /\ unsent > 0 /\ unsent' = unsent - 1 /\ cmds' = cmds \union {c} /\ unsent \in Nat
        /\ UNCHANGED <<files, synced, wmFile, ring, fatal, writer, mode, hist, crashes, faults, scenario>>
        /\ ring \in [Signals -> Rings] /\ hist \in Histories /\ writer \in Writers /\ fatal \in BOOLEAN
    BY DEF SendWatermark, DiskInv, Shapes
  <1>2. mode = "running"
    BY <1>1 DEF DiskInv, Phases
  <1>3. \A h \in Signals : RingOK(ring[h]) /\ ring[h].committed \in Nat /\ ring[h].next \in Nat
    BY Types DEF RingOK, Rings
  <1>4. Watermark \in Marks /\ \A h \in Signals : Watermark[h] = ring[h].committed
    BY <1>3 DEF Watermark, Marks
  <1> HIDE DEF Watermark
  <1>5. c \in Updates /\ c.wm = Watermark
    BY <1>4 DEF Updates
  <1> HIDE DEF c
  <1>6. Sends({c})
    <2>1. \A h \in Signals : c.wm[h] <= ring'[h].committed
      BY <1>1, <1>3, <1>4, <1>5
    <2>2. {c} \subseteq Appends \union Updates /\ IsFiniteSet({c})
      BY <1>5, FS_Singleton
    <2> QED BY <1>1, <2>1, <2>2 DEF Sends
  <1>7. Grows /\ Drops /\ Excused /\ WriterStays /\ Delivers({})
    BY <1>1, <1>3 DEF Grows, Drops, Excused, WriterStays, Delivers
  <1>8. unsent' \in Nat
    BY <1>1
  <1> QED BY <1>1, <1>2, <1>5, <1>6, <1>7, <1>8, DropStep

(* finalize_shutdown_timeout. *)
LEMMA FinalizeKeeps ==
    ASSUME DiskInv, FinalizeShutdown
    PROVE  DiskInv'
  <1> DEFINE r(discard) == [g \in Signals |-> IF discard THEN DropSlots(ring[g], DOMAIN ring[g].slots)
                                                         ELSE ring[g]]
             dropped == UNION {{ring[g].slots[s].msg : s \in DOMAIN ring[g].slots} : g \in Signals}
             wm(discard) == [g \in Signals |-> r(discard)[g].committed]
  <1>1. /\ mode = "running" /\ fatal \in BOOLEAN /\ unsent \in Nat
        /\ ring \in [Signals -> Rings] /\ hist \in Histories /\ writer \in Writers
        /\ UNCHANGED <<files, synced, wmFile, fatal, unsent, writer, mode, crashes, faults, scenario>>
    <2>1. /\ fatal \in BOOLEAN /\ unsent \in Nat
          /\ ring \in [Signals -> Rings] /\ hist \in Histories /\ writer \in Writers
      BY DEF DiskInv, Shapes
    <2>2. /\ mode = "running"
          /\ UNCHANGED <<files, synced, wmFile, fatal, unsent, writer, mode, crashes, faults, scenario>>
      BY SMTT(60) DEF FinalizeShutdown
    <2> QED BY <2>1, <2>2
  <1>2. PICK discard \in BOOLEAN :
            /\ ring' = r(discard)
            /\ cmds' = cmds \union {FlushWatermark(wm(discard))}
            /\ hist' = [hist EXCEPT !.finalized = @ + 1,
                                    !.resolved = IF discard THEN @ \union dropped ELSE @]
    BY DEF FinalizeShutdown
  <1>3. \A h \in Signals : RingOK(ring[h]) /\ ring[h].committed \in Nat /\ ring[h].next \in Nat
    BY Types DEF RingOK, Rings
  <1>4. ASSUME NEW g \in Signals
        PROVE  /\ RingOK(ring'[g]) /\ ring'[g].next = ring[g].next /\ ring[g].committed <= ring'[g].committed
               /\ DOMAIN ring'[g].slots = IF discard THEN {} ELSE DOMAIN ring[g].slots
               /\ \A s \in DOMAIN ring'[g].slots : ring'[g].slots[s] = ring[g].slots[s]
    <2> DEFINE q == DropSlots(ring[g], DOMAIN ring[g].slots)
    <2>1. ring'[g] = IF discard THEN q ELSE ring[g]
      BY <1>2
    <2>2. /\ RingOK(q) /\ q.next = ring[g].next /\ ring[g].committed <= q.committed
          /\ DOMAIN q.slots = DOMAIN ring[g].slots \ DOMAIN ring[g].slots
      BY <1>3, DropFacts
    <2> HIDE DEF q
    <2> QED BY <1>3, <2>1, <2>2
  <1>5. ring' \in [Signals -> Rings]
    <2>1. \A g \in Signals : ring'[g] \in Rings
      BY <1>4 DEF RingOK
    <2> QED BY <1>2, <2>1
  <1>6. dropped \subseteq Nat
    <2>1. ASSUME NEW g \in Signals, NEW s \in DOMAIN ring[g].slots PROVE ring[g].slots[s].msg \in Nat
      <3>1. RingOK(ring[g])
        BY <1>3
      <3>2. ring[g].slots \in UNION {[S -> Slots] : S \in SUBSET Nat}
        BY <3>1 DEF RingOK, Rings
      <3>3. ring[g].slots[s] \in Slots
        BY <3>2
      <3> QED BY <3>3 DEF Slots
    <2> QED BY <2>1
  <1>7. \A g \in Signals : \A s \in DOMAIN ring[g].slots : ring[g].slots[s].msg \in dropped
    OBVIOUS
  <1>8. wm(discard) \in Marks /\ \A g \in Signals : wm(discard)[g] = ring'[g].committed
    <2>1. \A g \in Signals : ring'[g].committed \in Nat
      BY <1>4 DEF RingOK, Rings
    <2>2. \A g \in Signals : wm(discard)[g] = ring'[g].committed
      BY <1>2
    <2>3. wm(discard) \in Marks
      BY <2>1, <2>2 DEF Marks
    <2> QED BY <2>2, <2>3
  <1> HIDE DEF dropped, wm, r
  <1>9. /\ hist' \in Histories /\ hist'.acked = hist.acked /\ hist'.accepted = hist.accepted
        /\ hist'.resolved = (IF discard THEN hist.resolved \union dropped ELSE hist.resolved)
        /\ hist'.delivered = hist.delivered
    <2> DEFINE R == IF discard THEN hist.resolved \union dropped ELSE hist.resolved
               n == hist.finalized + 1
    <2>1. R \subseteq Nat /\ n \in Nat
      <3>1. hist.resolved \subseteq Nat /\ hist.finalized \in Nat
        BY <1>1 DEF Histories
      <3>2. n \in Nat
        BY <3>1
      <3>3. R \subseteq Nat
        <4>1. CASE discard
          BY <1>6, <3>1, <4>1
        <4>2. CASE ~discard
          BY <3>1, <4>2
        <4> QED BY <4>1, <4>2
      <3> QED BY <3>2, <3>3
    <2>2. hist' = [hist EXCEPT !.finalized = n, !.resolved = R]
      BY <1>1, <1>2 DEF Histories
    <2> HIDE DEF R, n
    <2>3. /\ hist' \in Histories /\ hist'.acked = hist.acked /\ hist'.accepted = hist.accepted
          /\ hist'.resolved = R /\ hist'.delivered = hist.delivered
      BY <1>1, <2>1, <2>2 DEF Histories
    <2> QED BY <2>3 DEF R
  <1>10. PICK c : c = FlushWatermark(wm(discard))
    OBVIOUS
  <1>11. c \in Updates /\ c.wm = wm(discard)
    BY <1>8, <1>10 DEF FlushWatermark, Updates
  <1>12. Sends({c})
    <2>1. \A g \in Signals : c.wm[g] = ring'[g].committed /\ ring'[g].committed \in Nat
      BY <1>4, <1>8, <1>11 DEF RingOK, Rings
    <2>2. \A g \in Signals : c.wm[g] <= ring'[g].committed
      BY <2>1
    <2> QED BY <1>2, <1>10, <1>11, <2>2, FS_Singleton DEF Sends
  <1>13. Grows
    BY <1>3, <1>4, <1>5 DEF Grows
  <1>14. Drops
    BY <1>4 DEF Drops
  <1>15. Excused
    BY <1>4, <1>7, <1>9 DEF Excused
  <1>16. Delivers({}) /\ WriterStays
    BY <1>1, <1>9 DEF Delivers, WriterStays
  <1>17. hist.resolved \subseteq hist'.resolved /\ hist'.accepted \ hist'.resolved \subseteq hist.accepted \ hist.resolved
    BY <1>9
  <1> QED BY <1>1, <1>9, <1>11, <1>12, <1>13, <1>14, <1>15, <1>16, <1>17, DropStep

(* A group is taken out of the channel. *)
LEMMA TakeGroupKeeps ==
    ASSUME DiskInv, TakeGroup
    PROVE  DiskInv'
  <1>1. /\ mode = "running" /\ writer.phase = "idle" /\ writer \in Writers
        /\ UNCHANGED <<files, synced, wmFile, ring, fatal, unsent, mode, hist, crashes, faults, scenario>>
        /\ cmds \subseteq Appends \union Updates /\ IsFiniteSet(cmds)
    <2>1. writer \in Writers /\ cmds \subseteq Appends \union Updates /\ IsFiniteSet(cmds)
      BY DEF DiskInv, Shapes
    <2>2. /\ mode = "running" /\ writer.phase = "idle"
          /\ UNCHANGED <<files, synced, wmFile, ring, fatal, unsent, mode, hist, crashes, faults, scenario>>
      BY SMTT(60) DEF TakeGroup
    <2> QED BY <2>1, <2>2
  <1>2. PICK G \in SUBSET cmds :
            LET wms    == {c \in G : c.kind # "append"}
                staged == Merge(writer.staged, wms)
            IN  /\ G # {}
                /\ cmds' = cmds \ G
                /\ writer' = [writer EXCEPT
                                !.phase = "write", !.todo = G \ wms, !.wms = wms, !.staged = staged,
                                !.dirty = staged # writer.staged \/ \E c \in wms : c.kind = "flush"]
    BY DEF TakeGroup
  <1> DEFINE U == {c \in G : c.kind # "append"}
             T == G \ U
             w == Merge(writer.staged, U)
             dirty == w # writer.staged \/ \E c \in U : c.kind = "flush"
  <1>3. /\ writer.todo = {} /\ writer.done = {} /\ writer.staged = writer.persisted
        /\ writer.persisted = wmFile /\ writer.persisted \in Marks /\ writer.staged \in Marks
    BY <1>1, Types DEF DiskInv, Phases, MarksInOrder
  <1>4. U \subseteq Updates /\ T \subseteq Appends /\ IsFiniteSet(U) /\ U \subseteq cmds
    <2>1. (\A c \in Appends : c.kind = "append") /\ (\A c \in Updates : c.kind # "append")
      BY DEF Appends, Updates
    <2>2. U \subseteq cmds /\ IsFiniteSet(U)
      BY <1>1, FS_Subset
    <2> QED BY <1>1, <2>1, <2>2
  <1>5. T = {c \in G : c.kind = "append"}
    OBVIOUS
  <1> HIDE DEF U
  <1>6. /\ w \in Marks /\ AtMost(writer.staged, w) /\ \A c \in U : AtMost(c.wm, w)
        /\ \A g \in Signals : w[g] = writer.staged[g] \/ \E c \in U : w[g] = c.wm[g]
    BY <1>3, <1>4, MergeFacts
  <1>7. writer' = [writer EXCEPT !.phase = "write", !.todo = T, !.wms = U, !.staged = w, !.dirty = dirty]
    BY <1>2 DEF U
  <1>8. dirty \in BOOLEAN /\ (~dirty => w = writer.staged)
    OBVIOUS
  <1> HIDE DEF T, w, dirty
  <1>9. /\ writer' \in Writers /\ writer'.phase = "write" /\ writer'.todo = T /\ writer'.wms = U
        /\ writer'.staged = w /\ writer'.dirty = dirty /\ writer'.done = {} /\ writer'.failed = writer.failed
        /\ writer'.active = writer.active /\ writer'.sealed = writer.sealed /\ writer'.next = writer.next
        /\ writer'.persisted = writer.persisted
    BY <1>1, <1>3, <1>4, <1>6, <1>7, <1>8 DEF Writers
  <1>10. cmds' = cmds \ G /\ Pending' = Pending
    <2>1. cmds' = cmds \ G
      BY <1>2
    <2> QED BY <1>3, <1>5, <1>9, <2>1 DEF Pending
  <1>11. Shapes'
    <2>1. IsFiniteSet(cmds') /\ cmds' \subseteq Appends \union Updates
      BY <1>1, <1>10, FS_Subset
    <2> QED BY <1>1, <1>4, <1>9, <2>1 DEF DiskInv, Shapes
  <1>12. RingsInOrder' /\ FramesInOrder' /\ SlotsOnDisk'
    BY <1>1 DEF DiskInv, RingsInOrder, FramesInOrder, SlotsOnDisk
  <1>13. Phases'
    BY <1>1, <1>9 DEF Phases
  <1>14. MarksInOrder'
    <2>1. AtMost(writer'.persisted, writer'.staged)
      BY <1>3, <1>6, <1>9
    <2>2. \A g \in Signals : w[g] <= ring[g].committed
      <3>1. \A g \in Signals : writer.staged[g] <= ring[g].committed
        BY <1>1 DEF DiskInv, MarksInOrder
      <3>2. \A c \in U : \A g \in Signals : c.wm[g] <= ring[g].committed
        BY <1>4 DEF DiskInv, MarksInOrder, U
      <3> QED BY <1>6, <3>1, <3>2
    <2>3. \A c \in cmds' : c.kind # "append" => \A g \in Signals : c.wm[g] <= ring[g].committed
      BY <1>10 DEF DiskInv, MarksInOrder
    <2>4. AckDurable'
      BY <1>1 DEF DiskInv, MarksInOrder, AckDurable
    <2> QED BY <1>1, <1>3, <1>6, <1>8, <1>9, <2>1, <2>2, <2>3, <2>4 DEF MarksInOrder
  <1>15. PowerLoss' = PowerLoss /\ Durable' = Durable
    BY <1>1 DEF PowerLoss, Durable, SyncOnWrite, Faults
  <1>16. AppendsInOrder'
    <2>1. (cmds \intersect writer.todo = {})'
      BY <1>5, <1>9, <1>10
    <2>2. \A c : HasSlot(c)' <=> HasSlot(c)
      BY <1>1 DEF HasSlot
    <2>3. \A c \in Pending' :
            /\ HasSlot(c)'
            /\ \A f \in OnDisk(files') : ~SameSeq(f, c)
            /\ \A o \in Pending' : SameSeq(c, o) => c = o
            /\ ~PowerLoss' => \A d \in hist'.delivered : ~(d[1] = c.signal /\ d[2] = c.seq)
      BY <1>1, <1>10, <1>15, <2>2 DEF DiskInv, AppendsInOrder
    <2> QED BY <1>9, <2>1, <2>3 DEF AppendsInOrder
  <1>17. SealedAgree'
    BY <1>1, <1>9 DEF DiskInv, SealedAgree, Collecting
  <1>18. NoOrphans'
    BY <1>1, <1>3, <1>9 DEF DiskInv, NoOrphans
  <1>19. DeliveredKept'
    BY <1>1, <1>15 DEF DiskInv, DeliveredKept
  <1>20. AcceptedKept'
    <2>1. \A m, f, at : KeptAt(m, f, at)' <=> KeptAt(m, f, at)
      BY <1>1, <1>15 DEF KeptAt, Safe
    <2> QED BY <1>1, <1>15, <2>1 DEF DiskInv, AcceptedKept
  <1>21. GroupSynced'
    BY <1>9 DEF GroupSynced
  <1> QED BY <1>11, <1>12, <1>13, <1>14, <1>16, <1>17, <1>18, <1>19, <1>20, <1>21 DEF DiskInv

(* AppendReservation::finish and the answer to the sender. *)
LEMMA FinishKeeps ==
    ASSUME DiskInv, NEW d \in writer.done, Finish(d)
    PROVE  DiskInv'
  <1> DEFINE g == d.cmd.signal
             s == d.cmd.seq
             m == d.cmd.msg
             ok == Succeeded(d)
             held == s \in DOMAIN ring[g].slots
  <1>1. /\ writer.phase = "finish" /\ writer \in Writers /\ hist \in Histories /\ ring \in [Signals -> Rings]
        /\ writer' = [writer EXCEPT !.done = @ \ {d}] /\ fatal' = (fatal \/ ~ok)
        /\ hist' = [hist EXCEPT !.accepted = IF ok THEN @ \union {m} ELSE @]
        /\ UNCHANGED <<files, synced, wmFile, unsent, mode, crashes, faults, scenario>>
        /\ fatal \in BOOLEAN /\ unsent \in Nat
    BY DEF Finish, DiskInv, Shapes
  <1>2. mode = "running" /\ writer.todo = {}
    BY <1>1 DEF DiskInv, Phases
  <1>3. /\ d \in Outcomes /\ d.cmd \in Appends /\ g \in Signals /\ s \in Nat /\ s < ring[g].next
        /\ m \in Nat /\ d.ok \in BOOLEAN /\ d.at \in Places
    <2>1. d \in Outcomes /\ d.cmd \in Appends /\ g \in Signals /\ s \in Nat /\ s < ring[g].next
      BY PendingTypes
    <2> QED BY <2>1 DEF Outcomes, Appends, Places
  <1>4. /\ HasSlot(d.cmd)
        /\ d.ok /\ held => Holds(files, d.at, EncodedFrame(d.cmd))
        /\ \A e \in writer.done : SameSeq(d.cmd, e.cmd) => d = e
        /\ \A c \in Pending : ~SameSeq(c, d.cmd)
    BY DEF DiskInv, AppendsInOrder, Held
  <1>5. \A h \in Signals : RingOK(ring[h]) /\ ring[h].committed \in Nat /\ ring[h].next \in Nat
    BY Types DEF RingOK, Rings
  <1>6. /\ WriterStays /\ writer'.done = writer.done \ {d}
    <2> DEFINE E == writer.done \ {d}
    <2>1. E \subseteq Outcomes
      BY <1>1 DEF Writers
    <2>2. writer' = [writer EXCEPT !.done = E]
      BY <1>1 DEF Writers
    <2> HIDE DEF E
    <2>3. /\ writer' \in Writers /\ writer'.done = E
          /\ writer'.phase = writer.phase /\ writer'.todo = writer.todo /\ writer'.wms = writer.wms
          /\ writer'.dirty = writer.dirty /\ writer'.failed = writer.failed
          /\ writer'.active = writer.active /\ writer'.sealed = writer.sealed /\ writer'.next = writer.next
          /\ writer'.persisted = writer.persisted /\ writer'.staged = writer.staged
      BY <1>1, <2>1, <2>2 DEF Writers
    <2>4. ~fatal' => ~fatal /\ d.ok
      BY <1>1 DEF Succeeded
    <2> QED BY <2>3, <2>4 DEF WriterStays, E
  <1>7. /\ hist' \in Histories /\ hist'.acked = hist.acked /\ hist'.resolved = hist.resolved
        /\ hist'.delivered = hist.delivered
        /\ hist'.accepted = (IF ok THEN hist.accepted \union {m} ELSE hist.accepted)
    <2> DEFINE A == IF ok THEN hist.accepted \union {m} ELSE hist.accepted
    <2>1. A \subseteq Nat
      <3>1. hist.accepted \subseteq Nat
        BY <1>1 DEF Histories
      <3> HIDE DEF ok
      <3> QED BY <1>3, <3>1
    <2>2. hist' = [hist EXCEPT !.accepted = A]
      BY <1>1 DEF Histories
    <2> HIDE DEF A
    <2>3. /\ hist' \in Histories /\ hist'.acked = hist.acked /\ hist'.resolved = hist.resolved
          /\ hist'.delivered = hist.delivered /\ hist'.accepted = A
      BY <1>1, <2>1, <2>2 DEF Histories
    <2> QED BY <2>3 DEF A
  <1>8. fatal' \in BOOLEAN /\ unsent' \in Nat
    BY <1>1
  <1>9. CASE ~held
    <2>1. ring' = ring /\ cmds' = cmds
      BY <1>9 DEF Finish
    <2>2. m \in hist.resolved
      BY <1>4, <1>9 DEF HasSlot
    <2>3. Grows /\ Drops /\ Excused
      BY <1>1, <1>5, <2>1 DEF Grows, Drops, Excused
    <2>4. Sends({}) /\ Delivers({})
      BY <1>7, <2>1, FS_EmptySet DEF Sends, Delivers
    <2>5. hist'.accepted \ hist'.resolved \subseteq hist.accepted \ hist.resolved
      BY <1>7, <2>2
    <2> QED BY <1>1, <1>2, <1>6, <1>7, <1>8, <2>3, <2>4, <2>5, DropStep
  <1>10. CASE held /\ ~ok
    <2> DEFINE q == DropSlots(ring[g], {s})
    <2>1. ring' = [ring EXCEPT ![g] = q]
      BY <1>3, <1>10 DEF Finish
    <2>2. /\ RingOK(q) /\ q.next = ring[g].next /\ DOMAIN q.slots = DOMAIN ring[g].slots \ {s}
          /\ \A i \in DOMAIN ring[g].slots \ {s} : q.slots[i] = ring[g].slots[i]
          /\ ring[g].committed <= q.committed
      BY <1>3, <1>5, DropFacts
    <2> HIDE DEF q
    <2>3. ring' \in [Signals -> Rings] /\ ring'[g] = q /\ \A h \in Signals : h # g => ring'[h] = ring[h]
      BY <1>1, <1>3, <2>1, <2>2 DEF RingOK
    <2>4. Grows /\ Drops
      BY <1>5, <2>2, <2>3 DEF Grows, Drops
    <2>5. ring[g].slots[s].state = "Reserved"
      BY <1>4, <1>10 DEF HasSlot
    <2>6. Excused
      <3>1. SUFFICES ASSUME NEW h \in Signals, NEW i \in DOMAIN ring[h].slots \ DOMAIN ring'[h].slots
                     PROVE  /\ ring[h].slots[i].state = "Reserved"
                            /\ \A c \in Pending : ~(c.signal = h /\ c.seq = i)
                            /\ \A e \in writer'.done : ~(e.cmd.signal = h /\ e.cmd.seq = i)
        BY DEF Excused
      <3>2. h = g /\ i = s
        BY <2>2, <2>3, <3>1
      <3>3. \A c \in Pending : ~(c.signal = h /\ c.seq = i)
        BY <1>4, <3>2 DEF SameSeq
      <3>4. \A e \in writer'.done : ~(e.cmd.signal = h /\ e.cmd.seq = i)
        BY <1>4, <1>6, <3>2 DEF SameSeq
      <3> QED BY <2>5, <3>2, <3>3, <3>4
    <2>7. PICK u : u = [kind |-> "update", ack |-> FALSE, wm |-> [h \in Signals |-> ring'[h].committed]]
      OBVIOUS
    <2>8. cmds' = cmds \union {u}
      BY <1>10, <2>7 DEF Finish
    <2>9. u \in Updates /\ \A h \in Signals : u.wm[h] = ring'[h].committed /\ ring'[h].committed \in Nat
      <3> DEFINE w == [h \in Signals |-> ring'[h].committed]
      <3>1. \A h \in Signals : ring'[h].committed \in Nat
        BY <2>4 DEF Grows, RingOK, Rings
      <3>2. w \in Marks /\ \A h \in Signals : w[h] = ring'[h].committed
        BY <3>1 DEF Marks
      <3>3. u = [kind |-> "update", ack |-> FALSE, wm |-> w]
        BY <2>7
      <3> HIDE DEF w
      <3>4. u \in Updates /\ u.wm = w
        BY <3>2, <3>3 DEF Updates
      <3> QED BY <3>1, <3>2, <3>4
    <2>10. Sends({u})
      <3>1. \A h \in Signals : u.wm[h] <= ring'[h].committed
        BY <2>9
      <3>2. {u} \subseteq Appends \union Updates /\ IsFiniteSet({u})
        BY <2>9, FS_Singleton
      <3> QED BY <2>8, <3>1, <3>2 DEF Sends
    <2>11. Delivers({}) /\ {u} \in SUBSET Updates
      BY <1>7, <2>9 DEF Delivers
    <2>12. hist'.accepted \ hist'.resolved \subseteq hist.accepted \ hist.resolved
      BY <1>7, <1>10
    <2> QED BY <1>1, <1>2, <1>6, <1>7, <1>8, <2>4, <2>6, <2>10, <2>11, <2>12, DropStep
  <1>11. CASE held /\ ok
    <2> DEFINE old == ring[g].slots[s]
               slot == [old EXCEPT !.state = "Queued", !.at = d.at]
               z == [ring[g].slots EXCEPT ![s] = slot]
               q == [ring[g] EXCEPT !.slots = z]
    <2>1. /\ d.ok /\ ~writer.failed
      BY <1>11 DEF Succeeded
    <2>2. old.state = "Reserved" /\ old.msg = m
      BY <1>4, <1>11 DEF HasSlot
    <2>3. ring[g].slots \in UNION {[S -> Slots] : S \in SUBSET Nat} /\ RingOK(ring[g])
      BY <1>3, <1>5 DEF RingOK, Rings
    <2>4. old \in Slots
      BY <1>11, <2>3
    <2>5. slot \in Slots /\ slot.state = "Queued" /\ slot.at = d.at /\ slot.msg = m
      BY <1>3, <2>2, <2>4 DEF Slots, Places
    <2>6. ring' = [ring EXCEPT ![g] = q] /\ cmds' = cmds
      <3>1. ring' = [ring EXCEPT ![g].slots[s] = [@ EXCEPT !.state = "Queued", !.at = d.at]] /\ cmds' = cmds
        BY <1>11 DEF Finish
      <3> QED BY <1>1, <1>3, <3>1 DEF Rings
    <2> HIDE DEF slot
    <2>7. /\ z \in UNION {[S -> Slots] : S \in SUBSET Nat} /\ DOMAIN z = DOMAIN ring[g].slots
          /\ z[s] = slot /\ \A i \in DOMAIN z : i # s => z[i] = ring[g].slots[i]
      <3>1. PICK S \in SUBSET Nat : ring[g].slots \in [S -> Slots]
        BY <2>3
      <3>2. z \in [S -> Slots]
        BY <2>5, <3>1
      <3> QED BY <1>11, <3>1, <3>2
    <2> HIDE DEF z
    <2>8. q \in Rings /\ q.slots = z /\ q.next = ring[g].next /\ q.committed = ring[g].committed
      BY <1>1, <1>3, <2>7 DEF Rings
    <2> HIDE DEF q
    <2>9. RingOK(q)
      BY <2>3, <2>7, <2>8 DEF RingOK
    <2>10. ring' \in [Signals -> Rings] /\ ring'[g] = q /\ \A h \in Signals : h # g => ring'[h] = ring[h]
      BY <1>1, <1>3, <2>6, <2>8
    <2>11. Grows
      BY <1>5, <2>8, <2>9, <2>10 DEF Grows
    <2>12. Sends({})
      BY <2>6, FS_EmptySet DEF Sends
    <2>13. Shapes' /\ RingsInOrder' /\ Phases' /\ MarksInOrder' /\ FramesInOrder' /\ SealedAgree' /\ NoOrphans'
      BY <1>1, <1>2, <1>6, <1>7, <1>8, <2>11, <2>12, MemoryStep
    <2>14. \A h \in Signals : /\ DOMAIN ring'[h].slots = DOMAIN ring[h].slots /\ ring'[h].next = ring[h].next
                              /\ \A i \in DOMAIN ring[h].slots :
                                    ~(h = g /\ i = s) => ring'[h].slots[i] = ring[h].slots[i]
      BY <2>7, <2>8, <2>10
    <2>15. ring'[g].slots[s] = slot
      BY <2>7, <2>8, <2>10
    <2>16. PowerLoss' = PowerLoss /\ Durable' = Durable
      BY <1>1 DEF PowerLoss, Durable, SyncOnWrite, Faults
    <2>17. Pending' = Pending
      BY <1>6, <2>6 DEF Pending, WriterStays
    <2>18. ASSUME NEW b, b.signal \in Signals, ~SameSeq(b, d.cmd)
           PROVE  (HasSlot(b) => HasSlot(b)') /\ (Held(b)' <=> Held(b))
      <3>1. ~(b.signal = g /\ b.seq = s)
        BY <2>18 DEF SameSeq
      <3> QED BY <1>7, <2>14, <2>18, <3>1 DEF HasSlot, Held
    <2>19. AppendsInOrder'
      <3>1. (cmds \intersect writer.todo = {})'
        BY <1>6, <2>6 DEF DiskInv, AppendsInOrder, WriterStays
      <3>2. \A c \in Pending : HasSlot(c)'
        <4>1. \A c \in Pending : c.signal \in Signals /\ HasSlot(c)
          BY PendingTypes DEF DiskInv, AppendsInOrder
        <4> QED BY <1>4, <2>18, <4>1
      <3>3. ASSUME NEW e \in writer'.done
            PROVE  /\ HasSlot(e.cmd)'
                   /\ e.ok /\ Held(e.cmd)' => Holds(files, e.at, EncodedFrame(e.cmd))
        <4>1. e \in writer.done /\ e # d
          BY <1>6
        <4>2. ~SameSeq(e.cmd, d.cmd) /\ e.cmd.signal \in Signals
          BY <1>4, <4>1, PendingTypes DEF SameSeq
        <4>3. HasSlot(e.cmd) /\ (e.ok /\ Held(e.cmd) => Holds(files, e.at, EncodedFrame(e.cmd)))
          BY <4>1 DEF DiskInv, AppendsInOrder
        <4> QED BY <2>18, <4>2, <4>3
      <3>4. /\ \A c \in Pending :
                /\ \A f \in OnDisk(files) : ~SameSeq(f, c)
                /\ \A o \in Pending : SameSeq(c, o) => c = o
                /\ \A e \in writer'.done : ~SameSeq(c, e.cmd)
                /\ ~PowerLoss => \A e \in hist.delivered : ~(e[1] = c.signal /\ e[2] = c.seq)
            /\ \A e, o \in writer'.done : SameSeq(e.cmd, o.cmd) => e = o
        BY <1>6 DEF DiskInv, AppendsInOrder
      <3> QED BY <1>1, <1>7, <2>16, <2>17, <3>1, <3>2, <3>3, <3>4 DEF AppendsInOrder
    <2>20. SlotsOnDisk'
      <3>1. SUFFICES ASSUME NEW h \in Signals, NEW i \in DOMAIN ring'[h].slots, ring'[h].slots[i].state = "Queued"
                     PROVE  Holds(files, ring'[h].slots[i].at, [signal |-> h, seq |-> i, msg |-> ring'[h].slots[i].msg])
        BY <1>1 DEF SlotsOnDisk
      <3>2. CASE h = g /\ i = s
        <4>1. Holds(files, d.at, [signal |-> g, seq |-> s, msg |-> m])
          BY <1>4, <1>11, <2>1 DEF EncodedFrame
        <4> QED BY <2>5, <2>15, <3>2, <4>1
      <3>3. CASE ~(h = g /\ i = s)
        BY <2>14, <3>1, <3>3 DEF DiskInv, SlotsOnDisk
      <3> QED BY <3>2, <3>3
    <2>21. DeliveredKept'
      <3>1. \A h \in Signals : \A i \in DOMAIN ring[h].slots : ring'[h].slots[i].msg = ring[h].slots[i].msg
        BY <2>2, <2>5, <2>14, <2>15
      <3>2. \A x \in hist.delivered : x[1] \in Signals
        BY <1>1 DEF Histories
      <3> QED BY <1>1, <1>7, <2>14, <2>16, <3>1, <3>2 DEF DiskInv, DeliveredKept
    <2>22. AcceptedKept'
      <3>1. SUFFICES ASSUME Durable, NEW k \in hist'.accepted \ hist.resolved
                     PROVE  \E f \in Frames : \E at \in Nat \X Nat : KeptAt(k, f, at)'
        BY <1>7, <2>16 DEF AcceptedKept
      <3>2. CASE k \in hist.accepted
        <4>1. PICK f \in Frames : \E at \in Nat \X Nat : KeptAt(k, f, at)
          BY <3>1, <3>2 DEF DiskInv, AcceptedKept
        <4>2. PICK at \in Nat \X Nat : KeptAt(k, f, at)
          BY <4>1
        <4>3. /\ f.signal \in Signals /\ f.seq \in DOMAIN ring[f.signal].slots
              /\ ring[f.signal].slots[f.seq].state = "Queued"
          BY <1>2, <4>2 DEF Frames, KeptAt
        <4>4. ~(f.signal = g /\ f.seq = s)
          BY <2>2, <4>3
        <4>5. ring'[f.signal].slots[f.seq] = ring[f.signal].slots[f.seq] /\ f.seq \in DOMAIN ring'[f.signal].slots
          BY <2>14, <4>3, <4>4
        <4>6. KeptAt(k, f, at)'
          BY <1>1, <1>2, <2>16, <4>2, <4>5 DEF KeptAt, Safe
        <4> QED BY <4>6
      <3>3. CASE k = m
        <4>1. PICK f : f = EncodedFrame(d.cmd)
          OBVIOUS
        <4>2. f \in Frames /\ f.signal = g /\ f.seq = s /\ f.msg = m
          BY <1>3, <4>1, FrameTypes
        <4>3. Holds(files, d.at, f)
          BY <1>4, <1>11, <2>1, <4>1
        <4>4. Safe(synced, d.at)
          <5>1. PowerLoss => d.at[2] <= synced[d.at[1]]
            BY <1>1, <1>11, <2>1, <3>1 DEF DiskInv, GroupSynced, Held
          <5> QED BY <5>1 DEF Safe
        <4>5. s > wmFile[g]
          BY <1>2, <1>3, <1>11, HeldIsAbove, Types
        <4>6. s \in DOMAIN ring'[g].slots /\ ring'[g].slots[s].state = "Queued" /\ ring'[g].slots[s].msg = m
          BY <1>3, <1>11, <2>5, <2>14, <2>15
        <4>7. KeptAt(k, f, d.at)'
          BY <1>1, <2>16, <3>3, <4>2, <4>3, <4>4, <4>5, <4>6 DEF KeptAt, Safe
        <4> QED BY <1>3, <4>2, <4>7 DEF Places
      <3> QED BY <1>7, <3>1, <3>2, <3>3
    <2>23. GroupSynced'
      <3>1. ASSUME NEW e \in writer'.done PROVE e \in writer.done /\ (Held(e.cmd)' => Held(e.cmd))
        <4>1. e \in writer.done /\ e # d
          BY <1>6
        <4>2. ~SameSeq(e.cmd, d.cmd) /\ e.cmd.signal \in Signals
          BY <1>4, <4>1, PendingTypes DEF SameSeq
        <4> QED BY <2>18, <4>1, <4>2
      <3> QED BY <1>1, <1>6, <2>16, <3>1 DEF DiskInv, GroupSynced, WriterStays
    <2> QED BY <2>13, <2>19, <2>20, <2>21, <2>22, <2>23 DEF DiskInv
  <1> QED BY <1>9, <1>10, <1>11

-----------------------------------------------------------------------------
(* Crashes and shutdowns                                                    *)

(* A ring without slots. *)
LEMMA EmptyRingFacts ==
    /\ RingOK(EmptyRing) /\ EmptyRing.next = 1 /\ EmptyRing.committed = 0
    /\ DOMAIN EmptyRing.slots = {}
  <1> DEFINE e == <<>>
  <1>1. e \in Seq(Slots) /\ Len(e) = 0
    BY EmptySeq
  <1>2. DOMAIN e = 1..0 /\ e \in [1..0 -> Slots]
    <2> HIDE DEF e
    <2>1. DOMAIN e = 1..Len(e) /\ e = [i \in 1..Len(e) |-> e[i]] /\ \A i \in 1..Len(e) : e[i] \in Slots
      BY <1>1, SeqFacts
    <2> QED BY <1>1, <2>1
  <1>3. 1..0 = {} /\ 1..0 \in SUBSET Nat
    OBVIOUS
  <1>4. EmptyRing = [next |-> 1, slots |-> e, committed |-> 0]
    BY DEF EmptyRing
  <1> HIDE DEF e
  <1>5. e \in UNION {[S -> Slots] : S \in SUBSET Nat}
    BY <1>2, <1>3
  <1>6. EmptyRing \in Rings /\ EmptyRing.next = 1 /\ EmptyRing.committed = 0 /\ EmptyRing.slots = e
    BY <1>4, <1>5 DEF Rings
  <1>7. DOMAIN EmptyRing.slots = {}
    BY <1>2, <1>3, <1>6
  <1> QED BY <1>6, <1>7 DEF RingOK

(* The writer thread before its first command. *)
Idle(w, wm, n, sealed) ==
    /\ w \in Writers
    /\ w.phase = "idle" /\ w.todo = {} /\ w.done = {} /\ w.wms = {} /\ w.dirty = FALSE /\ w.failed = FALSE
    /\ w.active = 0 /\ w.sealed = sealed /\ w.next = n /\ w.persisted = wm /\ w.staged = wm

LEMMA IdleFacts ==
    ASSUME NEW wm \in Marks, NEW n \in Nat \ {0}, NEW sealed \in SUBSET Segments
    PROVE  Idle(IdleWriter(wm, n, sealed), wm, n, sealed)
  BY DEF IdleWriter, Writers, Idle

(* A process that stops keeps what its files keep. *)
LEMMA StopKeeps ==
    ASSUME DiskInv, Stop, Files(files'), Synced(files', synced'),
           OnDisk(files') \subseteq OnDisk(files),
           ~PowerLoss => OnDisk(files) \subseteq OnDisk(files'),
           \A at \in Places : \A f \in Frames :
               Holds(files, at, f) /\ Safe(synced, at) => Holds(files', at, f) /\ Safe(synced', at)
    PROVE  DiskInv'
  <1>1. /\ mode' = "down" /\ fatal' = FALSE /\ unsent' = 0 /\ cmds' = {}
        /\ ring' = [g \in Signals |-> EmptyRing] /\ writer' = IdleWriter(wmFile, 1, {})
        /\ wmFile' = wmFile /\ hist' = hist /\ scenario' = scenario
    BY DEF Stop
  <1>2. wmFile \in Marks /\ hist \in Histories /\ scenario \in Scenarios
    BY DEF DiskInv, Shapes
  <1>3. /\ writer' \in Writers /\ writer'.phase = "idle" /\ writer'.todo = {} /\ writer'.done = {}
        /\ writer'.wms = {} /\ writer'.dirty = FALSE /\ writer'.active = 0 /\ writer'.sealed = {}
        /\ writer'.persisted = wmFile /\ writer'.staged = wmFile
    <2>1. 1 \in Nat \ {0} /\ {} \in SUBSET Segments
      OBVIOUS
    <2>2. Idle(IdleWriter(wmFile, 1, {}), wmFile, 1, {})
      BY <1>2, <2>1, IdleFacts
    <2> QED BY <1>1, <2>2 DEF Idle
  <1>4. ring' \in [Signals -> Rings] /\ \A g \in Signals : ring'[g] = EmptyRing
    BY <1>1, EmptyRingFacts DEF RingOK
  <1>5. PowerLoss' = PowerLoss /\ Durable' = Durable
    BY <1>1 DEF PowerLoss, Durable, SyncOnWrite, Faults
  <1>6. Shapes'
    BY <1>1, <1>2, <1>3, <1>4, FS_EmptySet DEF Shapes
  <1>7. RingsInOrder'
    BY <1>4, EmptyRingFacts DEF RingsInOrder, RingOK
  <1>8. Phases'
    BY <1>1, <1>3 DEF Phases
  <1>9. MarksInOrder'
    <2>1. AtMost(wmFile, wmFile)
      BY <1>2 DEF AtMost, Marks
    <2>2. AckDurable'
      BY <1>1 DEF DiskInv, MarksInOrder, AckDurable
    <2> QED BY <1>1, <1>3, <2>1, <2>2 DEF MarksInOrder
  <1>10. FramesInOrder'
    BY <1>1 DEF DiskInv, FramesInOrder
  <1>11. AppendsInOrder'
    <2>1. Pending' = {}
      BY <1>1, <1>3 DEF Pending
    <2> QED BY <1>1, <1>3, <2>1 DEF AppendsInOrder
  <1>12. SlotsOnDisk'
    BY <1>4, EmptyRingFacts DEF SlotsOnDisk
  <1>13. SealedAgree' /\ NoOrphans' /\ GroupSynced'
    BY <1>1, <1>3 DEF SealedAgree, NoOrphans, GroupSynced
  <1>14. DeliveredKept'
    <2>1. \A d \in hist.delivered : d[1] \in Signals
      BY <1>2 DEF Histories
    <2> QED BY <1>1, <1>4, <1>5, <2>1, EmptyRingFacts DEF DiskInv, DeliveredKept
  <1>15. AcceptedKept'
    <2>1. ASSUME NEW m, NEW f \in Frames, NEW at \in Nat \X Nat, KeptAt(m, f, at) PROVE KeptAt(m, f, at)'
      <3>1. Holds(files, at, f) /\ Safe(synced, at) /\ at \in Places
        BY <2>1 DEF KeptAt, Places
      <3>2. Holds(files', at, f) /\ Safe(synced', at)
        BY <3>1
      <3>3. Safe(synced, at)'
        BY <1>5, <3>2 DEF Safe
      <3> QED BY <1>1, <2>1, <3>2, <3>3 DEF KeptAt
    <2> QED BY <1>1, <1>5, <2>1 DEF DiskInv, AcceptedKept
  <1> QED BY <1>6, <1>7, <1>8, <1>9, <1>10, <1>11, <1>12, <1>13, <1>14, <1>15 DEF DiskInv

(* A crash of the process, in the middle of a write or not. *)
LEMMA CrashKeeps ==
    ASSUME DiskInv, Crash
    PROVE  DiskInv'
  <1>1. mode # "down" /\ Stop /\ synced' = synced
    BY DEF Crash
  <1>2. Files(files) /\ Intact(files) /\ Synced(files, synced)
    BY <1>1 DEF DiskInv, Shapes, FramesInOrder
  <1>3. CASE files' = files
    BY <1>1, <1>2, <1>3, StopKeeps
  <1>4. CASE writer.active # 0 /\ files' = [files EXCEPT ![writer.active] = Append(@, Garbage)]
    <2> DEFINE a == writer.active
               s == files[a]
               t == Append(s, Garbage)
    <2>1. a \in DOMAIN files /\ s \in Seq(Frames) /\ s \in Seq(Frames \union {Garbage})
      BY <1>2, <1>4 DEF DiskInv, SealedAgree, Intact, Files
    <2>2. /\ Len(s) \in Nat /\ DOMAIN s = 1..Len(s) /\ \A i \in 1..Len(s) : s[i] \in Frames
      BY <2>1, SeqFacts
    <2>3. /\ t \in Seq(Frames \union {Garbage}) /\ Len(t) = Len(s) + 1 /\ DOMAIN t = 1..(Len(s) + 1)
          /\ t[Len(s) + 1] = Garbage /\ \A i \in 1..Len(s) : t[i] = s[i]
      <3>1. Garbage \in Frames \union {Garbage}
        OBVIOUS
      <3>2. /\ t \in Seq(Frames \union {Garbage}) /\ Len(t) = Len(s) + 1
            /\ \A i \in 1..Len(s) : t[i] = s[i]
            /\ t[Len(s) + 1] = Garbage
        BY <2>1, <3>1, AppendProperties
      <3>3. DOMAIN t = 1..Len(t)
        BY <3>2, LenProperties
      <3> QED BY <3>2, <3>3
    <2> HIDE DEF t
    <2>4. files' = [files EXCEPT ![a] = t]
      BY <1>2, <1>4 DEF t
    <2>5. /\ DOMAIN files' = DOMAIN files /\ files'[a] = t /\ \A id \in DOMAIN files : id # a => files'[id] = files[id]
          /\ files' = [id \in DOMAIN files' |-> files'[id]]
      BY <2>1, <2>4
    <2>6. \A i \in DOMAIN t : t[i] = Garbage => i = Len(t)
      <3>1. \A i \in 1..Len(s) : t[i] # Garbage
        BY <2>2, <2>3, GarbageIsNone
      <3> QED BY <2>2, <2>3, <3>1
    <2>7. Files(files')
      <3>1. \A id \in DOMAIN files' : /\ files'[id] \in Seq(Frames \union {Garbage})
                                      /\ \A i \in DOMAIN files'[id] : files'[id][i] = Garbage => i = Len(files'[id])
        BY <1>2, <2>3, <2>5, <2>6 DEF Files
      <3> QED BY <1>2, <2>5, <3>1 DEF Files
    <2>8. Synced(files', synced')
      <3>1. \A id \in DOMAIN files : synced[id] \in 0..Len(files[id])
        BY <1>2 DEF Synced
      <3>2. synced[a] \in 0..Len(t)
        BY <2>1, <2>2, <2>3, <3>1
      <3>3. \A id \in DOMAIN files' : synced[id] \in 0..Len(files'[id])
        BY <2>5, <3>1, <3>2
      <3> QED BY <1>1, <1>2, <2>5, <3>3 DEF Synced
    <2>9. \A at \in Places : \A f \in Frames : Holds(files, at, f) => Holds(files', at, f)
      <3>1. \A i \in DOMAIN s : i \in DOMAIN t /\ t[i] = s[i]
        BY <2>2, <2>3
      <3> QED BY <2>5, <3>1 DEF Holds
    <2>10. \A f \in Frames : \A id \in DOMAIN files : \A i \in DOMAIN files[id] :
              files[id][i] = f => i \in DOMAIN files'[id] /\ files'[id][i] = f
      <3>1. \A i \in DOMAIN s : i \in DOMAIN t /\ t[i] = s[i]
        BY <2>2, <2>3
      <3> QED BY <2>5, <3>1
    <2>11. OnDisk(files) \subseteq OnDisk(files')
      BY <2>5, <2>10 DEF OnDisk
    <2>12. OnDisk(files') \subseteq OnDisk(files)
      <3>1. ASSUME NEW i \in DOMAIN t, t[i] \in Frames PROVE i \in DOMAIN s /\ s[i] = t[i]
        BY <2>2, <2>3, <3>1, GarbageIsNone
      <3> QED BY <2>1, <2>5, <3>1 DEF OnDisk
    <2>13. \A at : Safe(synced', at) <=> Safe(synced, at)
      BY <1>1
    <2> QED BY <1>1, <2>7, <2>8, <2>9, <2>11, <2>12, <2>13, StopKeeps
  <1> QED BY <1>3, <1>4 DEF Crash

(* Shutdown. *)
LEMMA ShutdownKeeps ==
    ASSUME DiskInv, Shutdown
    PROVE  DiskInv'
  <1>1. mode = "running" /\ Stop /\ files' = files
    BY DEF Shutdown
  <1>2. Files(files) /\ Intact(files) /\ Synced(files, synced)
    BY <1>1 DEF DiskInv, Shapes, FramesInOrder
  <1>3. \A id \in DOMAIN files : Len(files[id]) \in Nat /\ DOMAIN files[id] = 1..Len(files[id])
    <2>1. ASSUME NEW id \in DOMAIN files PROVE Len(files[id]) \in Nat /\ DOMAIN files[id] = 1..Len(files[id])
      <3>1. files[id] \in Seq(Frames)
        BY <1>2 DEF Intact
      <3> QED BY <3>1, SeqFacts
    <2> QED BY <2>1
  <1>4. /\ synced' = [id \in DOMAIN files |-> synced'[id]]
        /\ \A id \in DOMAIN files : synced[id] \in 0..Len(files[id])
        /\ \A id \in DOMAIN files : synced'[id] = synced[id] \/ synced'[id] = Len(files[id])
    <2>1. CASE writer.active = 0
      BY <1>2, <2>1 DEF Shutdown, Synced
    <2>2. CASE writer.active # 0
      <3>1. writer.active \in DOMAIN files /\ DOMAIN synced = DOMAIN files
        BY <1>2, <2>2 DEF DiskInv, SealedAgree, Synced
      <3>2. synced' = [y \in DOMAIN files |-> IF y = writer.active THEN Len(files[writer.active]) ELSE synced[y]]
        BY <2>2, <3>1 DEF Shutdown, With
      <3> QED BY <1>2, <3>2 DEF Synced
    <2> QED BY <2>1, <2>2
  <1>5. Synced(files', synced')
    BY <1>1, <1>3, <1>4 DEF Synced
  <1>6. ASSUME NEW at \in Places, NEW f \in Frames, Holds(files, at, f), Safe(synced, at)
        PROVE  Safe(synced', at)
    <2>1. at[1] \in DOMAIN files /\ at[2] \in 1..Len(files[at[1]])
      BY <1>3, <1>6 DEF Holds
    <2> QED BY <1>3, <1>4, <1>6, <2>1 DEF Safe
  <1> QED BY <1>1, <1>2, <1>5, <1>6, StopKeeps

(* A power loss: what is synced stays. *)
LEMMA LosePowerKeeps ==
    ASSUME DiskInv, LosePower
    PROVE  DiskInv'
  <1>1. PowerLoss /\ Stop
    BY DEF LosePower
  <1>2. Files(files) /\ Synced(files, synced)
    BY DEF DiskInv, Shapes
  <1>3. PICK kept \in [DOMAIN files -> 0..MaxOf({Len(files[id]) : id \in DOMAIN files})] :
            /\ \A id \in DOMAIN files : synced[id] <= kept[id] /\ kept[id] <= Len(files[id])
            /\ files' = [id \in DOMAIN files |-> SubSeq(files[id], 1, kept[id])]
            /\ synced' = kept
    BY DEF LosePower
  <1>4. ASSUME NEW id \in DOMAIN files
        PROVE  /\ files'[id] \in Seq(Frames \union {Garbage}) /\ Len(files'[id]) = kept[id]
               /\ kept[id] \in Nat /\ DOMAIN files[id] = 1..Len(files[id]) /\ Len(files[id]) \in Nat
               /\ DOMAIN files'[id] = 1..kept[id] /\ \A i \in 1..kept[id] : files'[id][i] = files[id][i]
               /\ \A i \in DOMAIN files'[id] : files'[id][i] = Garbage => i = Len(files'[id])
    <2> DEFINE s == files[id]
               k == kept[id]
    <2>1. /\ s \in Seq(Frames \union {Garbage}) /\ Len(s) \in Nat /\ DOMAIN s = 1..Len(s)
          /\ \A i \in 1..Len(s) : s[i] \in Frames \union {Garbage} /\ (s[i] = Garbage => i = Len(s))
      <3>1. s \in Seq(Frames \union {Garbage}) /\ \A i \in DOMAIN s : s[i] = Garbage => i = Len(s)
        BY <1>2 DEF Files
      <3> QED BY <3>1, SeqFacts
    <2>2. k \in Nat /\ k <= Len(s)
      <3>1. synced[id] \in Nat /\ synced[id] <= k /\ k <= Len(s)
        BY <1>2, <1>3, <2>1 DEF Synced
      <3>2. k \in 0..MaxOf({Len(files[j]) : j \in DOMAIN files})
        BY <1>3
      <3>3. k \in Int /\ 0 <= k
        BY <3>2
      <3> QED BY <3>1, <3>3
    <2>3. PICK u : u = SubSeq(s, 1, k)
      OBVIOUS
    <2>4. files'[id] = u
      BY <1>3, <2>3
    <2>5. PICK t : t = s
      OBVIOUS
    <2>6. /\ u \in Seq(Frames \union {Garbage}) /\ Len(u) = k /\ DOMAIN u = 1..k
          /\ \A i \in 1..k : u[i] = t[i]
      BY <2>1, <2>2, <2>3, <2>5, PrefixFacts
    <2>7. /\ \A i \in 1..Len(t) : t[i] = Garbage => i = Len(t)
          /\ Len(t) \in Nat /\ k <= Len(t) /\ k \in Nat
      BY <2>1, <2>2, <2>5
    <2>8. \A i \in 1..k : u[i] = Garbage => i = k
      <3> HIDE DEF k
      <3> QED BY <2>6, <2>7
    <2> QED BY <2>1, <2>2, <2>4, <2>5, <2>6, <2>8
  <1>5. DOMAIN files' = DOMAIN files /\ files' = [id \in DOMAIN files' |-> files'[id]]
    BY <1>3
  <1>6. Files(files')
    BY <1>2, <1>4, <1>5 DEF Files
  <1>7. Synced(files', synced')
    BY <1>3, <1>4, <1>5 DEF Synced
  <1>8. OnDisk(files') \subseteq OnDisk(files)
    <2>1. ASSUME NEW id \in DOMAIN files', NEW i \in DOMAIN files'[id]
          PROVE  id \in DOMAIN files /\ i \in DOMAIN files[id] /\ files[id][i] = files'[id][i]
      <3>1. id \in DOMAIN files /\ i \in 1..kept[id] /\ kept[id] <= Len(files[id])
        BY <1>3, <1>4, <1>5
      <3> QED BY <1>4, <3>1
    <2> QED BY <2>1 DEF OnDisk
  <1>9. ASSUME NEW at \in Places, NEW f \in Frames, Holds(files, at, f), Safe(synced, at)
        PROVE  Holds(files', at, f) /\ Safe(synced', at)
    <2>1. at[1] \in DOMAIN files /\ at[2] \in 1..Len(files[at[1]]) /\ files[at[1]][at[2]] = f
      BY <1>4, <1>9 DEF Holds
    <2>2. at[2] <= synced[at[1]] /\ synced[at[1]] <= kept[at[1]] /\ synced[at[1]] \in Nat /\ kept[at[1]] \in Nat
      BY <1>1, <1>2, <1>3, <1>4, <1>9, <2>1 DEF Safe, Synced
    <2>3. at[2] \in 1..kept[at[1]]
      BY <2>1, <2>2
    <2> QED BY <1>3, <1>4, <1>5, <2>1, <2>2, <2>3 DEF Holds, Safe
  <1> QED BY <1>1, <1>6, <1>7, <1>8, <1>9, StopKeeps

-----------------------------------------------------------------------------
(* open_and_recover                                                         *)

(* Recovery finds the frames that are on disk, and finitely many. *)
LEMMA FoundFacts ==
    ASSUME Files(files)
    PROVE  /\ IsFiniteSet(FoundPlaces)
           /\ \A p \in FoundPlaces : p \in Places /\ FrameAt(p) \in Frames /\ Holds(files, p, FrameAt(p))
           /\ \A at \in Places : \A f \in Frames : Holds(files, at, f) => at \in FoundPlaces /\ FrameAt(at) = f
           /\ \A id \in DOMAIN files : Scanned(id) \in Seq(Frames)
  <1>1. ASSUME NEW id \in DOMAIN files
        PROVE  /\ Scanned(id) \in Seq(Frames) /\ id \in Nat
               /\ DOMAIN Scanned(id) = {i \in DOMAIN files[id] : files[id][i] # Garbage}
               /\ \A i \in DOMAIN Scanned(id) : Scanned(id)[i] = files[id][i]
    <2>1. files[id] \in Seq(Frames \union {Garbage}) /\ \A i \in DOMAIN files[id] : files[id][i] = Garbage => i = Len(files[id])
      BY DEF Files
    <2>2. id \in Nat
      BY DEF Files
    <2> QED BY <2>1, <2>2, DecodableFacts DEF Scanned
  <1>2. ASSUME NEW id \in DOMAIN files, NEW i \in DOMAIN Scanned(id)
        PROVE  /\ i \in Nat /\ i \in DOMAIN files[id] /\ files[id][i] \in Frames
    <2>1. Len(Scanned(id)) \in Nat /\ DOMAIN Scanned(id) = 1..Len(Scanned(id)) /\ \A j \in 1..Len(Scanned(id)) : Scanned(id)[j] \in Frames
      BY <1>1, SeqFacts
    <2>2. i \in Nat /\ Scanned(id)[i] \in Frames
      BY <2>1
    <2> QED BY <1>1, <2>2
  <1> HIDE DEF Scanned
  <1>3. ASSUME NEW p \in FoundPlaces PROVE p \in Places /\ FrameAt(p) \in Frames /\ Holds(files, p, FrameAt(p))
    <2>1. PICK id \in DOMAIN files : p \in {id} \X DOMAIN Scanned(id)
      BY DEF FoundPlaces
    <2>2. PICK i \in DOMAIN Scanned(id) : p = <<id, i>>
      BY <2>1
    <2>3. i \in Nat /\ i \in DOMAIN files[id] /\ files[id][i] \in Frames /\ id \in Nat
      BY <1>1, <1>2
    <2> QED BY <2>2, <2>3 DEF Places, FrameAt, Holds
  <1>4. ASSUME NEW at \in Places, NEW f \in Frames, Holds(files, at, f) PROVE at \in FoundPlaces /\ FrameAt(at) = f
    <2>1. /\ at[1] \in DOMAIN files /\ at[2] \in DOMAIN files[at[1]] /\ files[at[1]][at[2]] = f
          /\ at = <<at[1], at[2]>>
      BY <1>4 DEF Holds, Places
    <2>2. at[2] \in DOMAIN Scanned(at[1])
      BY <1>1, <2>1, GarbageIsNone
    <2>3. at \in {at[1]} \X DOMAIN Scanned(at[1])
      BY <2>1, <2>2
    <2> QED BY <2>1, <2>3 DEF FoundPlaces, FrameAt
  <1>5. IsFiniteSet(FoundPlaces)
    <2> DEFINE h == [id \in DOMAIN files |-> {id} \X DOMAIN Scanned(id)]
               H == {h[id] : id \in DOMAIN h}
    <2>1. IsFiniteSet(H)
      <3>1. IsFiniteSet(DOMAIN h)
        BY DEF Files
      <3> HIDE DEF h
      <3> QED BY <3>1, FiniteImage
    <2>2. \A T \in H : IsFiniteSet(T)
      <3>1. ASSUME NEW id \in DOMAIN files PROVE IsFiniteSet({id} \X DOMAIN Scanned(id))
        <4>1. Len(Scanned(id)) \in Nat /\ DOMAIN Scanned(id) = 1..Len(Scanned(id))
          BY <1>1, SeqFacts
        <4>2. IsFiniteSet(1..Len(Scanned(id)))
          BY <4>1, FS_Interval
        <4>3. IsFiniteSet({id})
          BY FS_Singleton
        <4> QED BY <4>1, <4>2, <4>3, FS_Product
      <3> QED BY <3>1
    <2>3. FoundPlaces = UNION H
      BY DEF FoundPlaces
    <2> HIDE DEF H
    <2>4. IsFiniteSet(UNION H)
      BY <2>1, <2>2, FS_UNION
    <2> QED BY <2>3, <2>4
  <1> QED BY <1>1, <1>3, <1>4, <1>5

(* The ring that is made of them: one slot for each frame above the watermark. *)
LEMMA RecoveredFacts ==
    ASSUME Files(files), wmFile \in Marks, NEW g \in Signals, NEW r, r = RecoveredRing(g)
    PROVE  /\ RingOK(r) /\ r.committed = wmFile[g]
           /\ \A f \in OnDisk(files) : f.signal = g =>
                 f.seq < r.next /\ (f.seq > wmFile[g] => f.seq \in DOMAIN r.slots)
           /\ \A s \in DOMAIN r.slots : \E f \in OnDisk(files) : \E at \in Places :
                 /\ Holds(files, at, f) /\ f.signal = g /\ f.seq = s
                 /\ r.slots[s] = [state |-> "Queued", msg |-> f.msg, at |-> at]
  <1> DEFINE found == {p \in FoundPlaces : FrameAt(p).signal = g}
             live == {p \in found : FrameAt(p).seq > wmFile[g]}
             seqs == {FrameAt(p).seq : p \in found}
             held == {FrameAt(p).seq : p \in live}
             pick(s) == CHOOSE q \in live : FrameAt(q).seq = s
             slots == [s \in held |-> [state |-> "Queued", msg |-> FrameAt(pick(s)).msg, at |-> pick(s)]]
             top == Max({wmFile[g]} \union seqs)
  <1>1. /\ IsFiniteSet(FoundPlaces)
        /\ \A p \in FoundPlaces : p \in Places /\ FrameAt(p) \in Frames /\ Holds(files, p, FrameAt(p))
        /\ \A at \in Places : \A f \in Frames : Holds(files, at, f) => at \in FoundPlaces /\ FrameAt(at) = f
    BY FoundFacts
  <1>2. r = [next |-> top + 1, slots |-> slots, committed |-> wmFile[g]]
    BY DEF RecoveredRing, NextSeq
  <1>3. wmFile[g] \in Nat
    BY DEF Marks
  <1>4. seqs \subseteq Nat \ {0} /\ held \subseteq Nat \ {0} /\ held \subseteq seqs
    BY <1>1 DEF Frames
  <1>5. top \in Nat /\ wmFile[g] <= top /\ \A x \in seqs : x <= top
    <2> DEFINE h == [p \in found |-> FrameAt(p).seq]
    <2>1. IsFiniteSet(found)
      BY <1>1, FS_Subset
    <2>2. IsFiniteSet({h[p] : p \in DOMAIN h})
      <3>1. IsFiniteSet(DOMAIN h)
        BY <2>1
      <3> HIDE DEF h
      <3> QED BY <3>1, FiniteImage
    <2>3. {h[p] : p \in DOMAIN h} = seqs
      OBVIOUS
    <2> HIDE DEF seqs
    <2>4. IsFiniteSet({wmFile[g]} \union seqs)
      <3>1. IsFiniteSet({wmFile[g]})
        BY FS_Singleton
      <3> QED BY <2>2, <2>3, <3>1, FS_Union
    <2>5. {wmFile[g]} \union seqs \in SUBSET Nat /\ {wmFile[g]} \union seqs # {}
      BY <1>3, <1>4
    <2>6. top \in {wmFile[g]} \union seqs /\ \A x \in {wmFile[g]} \union seqs : x <= top
      BY <2>4, <2>5, MaxFacts
    <2> QED BY <2>5, <2>6
  <1>6. ASSUME NEW s \in held PROVE pick(s) \in live /\ FrameAt(pick(s)).seq = s
    BY <1>6
  <1>7. ASSUME NEW s \in held
        PROVE  /\ s > wmFile[g]
               /\ pick(s) \in Places /\ FrameAt(pick(s)) \in Frames /\ Holds(files, pick(s), FrameAt(pick(s)))
               /\ FrameAt(pick(s)).signal = g /\ FrameAt(pick(s)).seq = s
    <2>1. pick(s) \in live /\ FrameAt(pick(s)).seq = s
      BY <1>6
    <2> HIDE DEF pick
    <2> QED BY <1>1, <2>1
  <1>8. \A f \in OnDisk(files) : f.signal = g => f.seq \in seqs /\ (f.seq > wmFile[g] => f.seq \in held)
    <2>1. ASSUME NEW f \in OnDisk(files), f.signal = g PROVE f.seq \in seqs /\ (f.seq > wmFile[g] => f.seq \in held)
      <3>1. f \in Frames /\ \E at \in Places : Holds(files, at, f)
        BY OnDiskPlace
      <3>2. PICK at \in Places : Holds(files, at, f)
        BY <3>1
      <3>3. at \in FoundPlaces /\ FrameAt(at) = f
        BY <1>1, <3>1, <3>2
      <3> QED BY <2>1, <3>3
    <2> QED BY <2>1
  <1> HIDE DEF found, live, seqs, held, pick, top
  <1>9. /\ DOMAIN slots = held
        /\ \A s \in held : slots[s] = [state |-> "Queued", msg |-> FrameAt(pick(s)).msg, at |-> pick(s)]
    OBVIOUS
  <1>10. slots \in UNION {[S -> Slots] : S \in SUBSET Nat}
    <2>1. \A s \in held : [state |-> "Queued", msg |-> FrameAt(pick(s)).msg, at |-> pick(s)] \in Slots
      <3>1. \A s \in held : FrameAt(pick(s)).msg \in Nat /\ pick(s) \in Nat \X Nat
        BY <1>7 DEF Frames, Places
      <3> QED BY <3>1 DEF Slots
    <2>2. slots \in [held -> Slots] /\ held \in SUBSET Nat
      BY <1>4, <2>1
    <2> QED BY <2>2
  <1> HIDE DEF slots
  <1>11. r \in Rings /\ r.slots = slots /\ r.next = top + 1 /\ r.committed = wmFile[g]
    <2>1. PICK n : n = top + 1
      OBVIOUS
    <2>2. n \in Nat \ {0} /\ r = [next |-> n, slots |-> slots, committed |-> wmFile[g]]
      BY <1>2, <1>5, <2>1
    <2>3. r \in Rings /\ r.slots = slots /\ r.next = n /\ r.committed = wmFile[g]
      BY <1>3, <1>10, <2>2 DEF Rings
    <2> QED BY <2>1, <2>3
  <1>12. RingOK(r)
    <2>1. wmFile[g] < top + 1
      BY <1>3, <1>5
    <2>2. \A s \in held : wmFile[g] < s /\ s < top + 1
      BY <1>3, <1>4, <1>5, <1>7
    <2> QED BY <1>9, <1>11, <2>1, <2>2 DEF RingOK
  <1>13. \A f \in OnDisk(files) : f.signal = g => f.seq < r.next /\ (f.seq > wmFile[g] => f.seq \in DOMAIN r.slots)
    <2>1. \A x \in seqs : x < top + 1
      BY <1>4, <1>5
    <2> QED BY <1>8, <1>9, <1>11, <2>1
  <1>14. ASSUME NEW s \in DOMAIN r.slots
         PROVE  \E f \in OnDisk(files) : \E at \in Places :
                  /\ Holds(files, at, f) /\ f.signal = g /\ f.seq = s
                  /\ r.slots[s] = [state |-> "Queued", msg |-> f.msg, at |-> at]
    <2>1. s \in held
      BY <1>9, <1>11
    <2>2. FrameAt(pick(s)) \in OnDisk(files)
      BY <1>7, <2>1, HeldOnDisk
    <2> QED BY <1>7, <1>9, <1>11, <2>1, <2>2
  <1> QED BY <1>11, <1>12, <1>13, <1>14

(* open_and_recover, up to the deletion of segments. *)
LEMMA RecoverKeeps ==
    ASSUME DiskInv, Recover
    PROVE  DiskInv'
  <1> DEFINE rings == [g \in Signals |-> Advance(RecoveredRing(g))]
             c == FlushWatermark([g \in Signals |-> rings[g].committed])
             wm == Merge(wmFile, {c})
             Live(id) == \E f \in ToSet(Scanned(id)) : f.seq > wmFile[f.signal]
             sealed == {[id |-> id, maxSeq |-> MaxSeqs(Scanned(id))] : id \in {id \in DOMAIN files : Live(id)}}
             n == MaxOf(DOMAIN files) + 1
  <1>1. /\ mode = "down" /\ mode' = "recovering" /\ wmFile' = wm /\ ring' = rings
        /\ files' = [id \in DOMAIN files |-> Scanned(id)]
        /\ synced' = [id \in DOMAIN files |-> IF Scanned(id) = files[id] THEN synced[id] ELSE Len(Scanned(id))]
        /\ writer' = IdleWriter(wm, n, sealed)
        /\ UNCHANGED <<fatal, unsent, cmds, hist, crashes, faults, scenario>>
    BY DEF Recover
  <1>2. Files(files) /\ Synced(files, synced) /\ wmFile \in Marks /\ hist \in Histories
    BY DEF DiskInv, Shapes
  <1>3. cmds = {} /\ unsent = 0
    BY <1>1 DEF DiskInv, Phases
  <1>4. PowerLoss' = PowerLoss /\ Durable' = Durable
    BY <1>1 DEF PowerLoss, Durable, SyncOnWrite, Faults
  (* The files. *)
  <1>5. ASSUME NEW id \in DOMAIN files
        PROVE  /\ files'[id] = Scanned(id) /\ Scanned(id) \in Seq(Frames) /\ Len(Scanned(id)) \in Nat
               /\ DOMAIN Scanned(id) = 1..Len(Scanned(id)) /\ ToSet(Scanned(id)) = {Scanned(id)[i] : i \in DOMAIN Scanned(id)}
               /\ DOMAIN Scanned(id) = {i \in DOMAIN files[id] : files[id][i] # Garbage}
               /\ \A i \in DOMAIN Scanned(id) : Scanned(id)[i] = files[id][i] /\ files[id][i] \in Frames
               /\ synced'[id] = IF Scanned(id) = files[id] THEN synced[id] ELSE Len(Scanned(id))
    <2>1. files[id] \in Seq(Frames \union {Garbage}) /\ \A i \in DOMAIN files[id] : files[id][i] = Garbage => i = Len(files[id])
      BY <1>2 DEF Files
    <2>2. /\ Scanned(id) \in Seq(Frames)
          /\ DOMAIN Scanned(id) = {i \in DOMAIN files[id] : files[id][i] # Garbage}
          /\ \A i \in DOMAIN Scanned(id) : Scanned(id)[i] = files[id][i]
      BY <2>1, DecodableFacts DEF Scanned
    <2>3. /\ Len(Scanned(id)) \in Nat /\ DOMAIN Scanned(id) = 1..Len(Scanned(id))
          /\ ToSet(Scanned(id)) = {Scanned(id)[i] : i \in 1..Len(Scanned(id))}
          /\ \A i \in 1..Len(Scanned(id)) : Scanned(id)[i] \in Frames
      BY <2>2, SeqFacts
    <2>4. \A i \in DOMAIN Scanned(id) : Scanned(id)[i] = files[id][i] /\ files[id][i] \in Frames
      BY <2>2, <2>3
    <2>5. files'[id] = Scanned(id) /\ synced'[id] = IF Scanned(id) = files[id] THEN synced[id] ELSE Len(Scanned(id))
      BY <1>1
    <2> HIDE DEF Scanned
    <2> QED BY <2>2, <2>3, <2>4, <2>5
  <1> HIDE DEF Scanned
  <1>6. DOMAIN files' = DOMAIN files
    BY <1>1
  <1>7. Files(files') /\ Intact(files') /\ Synced(files', synced')
    <2>1. Intact(files')
      BY <1>5, <1>6 DEF Intact
    <2>2. files' = [id \in DOMAIN files' |-> files'[id]] /\ synced' = [id \in DOMAIN files' |-> synced'[id]]
      BY <1>1
    <2>3. Files(files')
      BY <1>2, <1>6, <2>1, <2>2, IntactFiles DEF Files
    <2>4. ASSUME NEW id \in DOMAIN files PROVE synced'[id] \in 0..Len(files'[id])
      <3>1. CASE Scanned(id) = files[id]
        BY <1>2, <1>5, <3>1 DEF Synced
      <3>2. CASE Scanned(id) # files[id]
        <4>1. synced'[id] = Len(Scanned(id)) /\ files'[id] = Scanned(id)
          BY <1>1, <3>2
        <4>2. Len(Scanned(id)) \in Nat
          BY <1>5
        <4>3. PICK k : k = Len(Scanned(id))
          OBVIOUS
        <4>4. k \in 0..k
          BY <4>2, <4>3
        <4> QED BY <4>1, <4>3, <4>4
      <3> QED BY <3>1, <3>2
    <2> QED BY <1>6, <2>1, <2>2, <2>3, <2>4 DEF Synced
  <1>8. ASSUME NEW at \in Places, NEW f \in Frames, Holds(files, at, f)
        PROVE  Holds(files', at, f) /\ (Safe(synced, at) => Safe(synced', at))
    <2>1. at[1] \in DOMAIN files /\ at[2] \in DOMAIN files[at[1]] /\ files[at[1]][at[2]] = f
      BY <1>8 DEF Holds
    <2>2. at[2] \in DOMAIN Scanned(at[1]) /\ Scanned(at[1])[at[2]] = f
      BY <1>5, <2>1, GarbageIsNone
    <2>3. Holds(files', at, f)
      BY <1>5, <1>6, <2>1, <2>2 DEF Holds
    <2>4. at[2] \in 1..Len(Scanned(at[1])) /\ Len(Scanned(at[1])) \in Nat
      BY <1>5, <2>1, <2>2
    <2>5. synced'[at[1]] = IF Scanned(at[1]) = files[at[1]] THEN synced[at[1]] ELSE Len(Scanned(at[1]))
      BY <1>1, <2>1
    <2>6. at[2] <= Len(Scanned(at[1]))
      <3>1. PICK k : k = Len(Scanned(at[1]))
        OBVIOUS
      <3>2. at[2] <= k
        BY <2>4, <3>1
      <3> QED BY <3>1, <3>2
    <2>7. at[2] <= synced[at[1]] => at[2] <= synced'[at[1]]
      BY <2>5, <2>6
    <2> QED BY <2>3, <2>7 DEF Safe
  <1>9. OnDisk(files') = OnDisk(files)
    <2>1. OnDisk(files') \subseteq OnDisk(files)
      <3>1. ASSUME NEW id \in DOMAIN files', NEW i \in DOMAIN files'[id]
            PROVE  id \in DOMAIN files /\ i \in DOMAIN files[id] /\ files[id][i] = files'[id][i]
        <4>1. id \in DOMAIN files /\ files'[id] = Scanned(id)
          BY <1>1
        <4>2. i \in DOMAIN Scanned(id)
          BY <4>1
        <4>3. i \in DOMAIN files[id] /\ Scanned(id)[i] = files[id][i]
          BY <1>5, <4>1, <4>2
        <4> QED BY <4>1, <4>3
      <3> QED BY <3>1 DEF OnDisk
    <2>2. ASSUME NEW f \in OnDisk(files) PROVE f \in OnDisk(files')
      <3>1. f \in Frames /\ \E at \in Places : Holds(files, at, f)
        BY <1>2, OnDiskPlace
      <3>2. PICK at \in Places : Holds(files, at, f)
        BY <3>1
      <3> QED BY <1>8, <3>1, <3>2, HeldOnDisk
    <2> QED BY <2>1, <2>2
  (* The rings. *)
  <1>10. ASSUME NEW g \in Signals
         PROVE  /\ RingOK(ring'[g]) /\ wmFile[g] <= ring'[g].committed
                /\ \A f \in OnDisk(files) : f.signal = g =>
                      f.seq < ring'[g].next /\ (f.seq > wmFile[g] => f.seq \in DOMAIN ring'[g].slots)
                /\ \A s \in DOMAIN ring'[g].slots : \E f \in OnDisk(files) : \E at \in Places :
                      /\ Holds(files, at, f) /\ f.signal = g /\ f.seq = s
                      /\ ring'[g].slots[s] = [state |-> "Queued", msg |-> f.msg, at |-> at]
    <2> DEFINE r == RecoveredRing(g)
    <2>1. /\ RingOK(r) /\ r.committed = wmFile[g]
          /\ \A f \in OnDisk(files) : f.signal = g =>
                f.seq < r.next /\ (f.seq > wmFile[g] => f.seq \in DOMAIN r.slots)
          /\ \A s \in DOMAIN r.slots : \E f \in OnDisk(files) : \E at \in Places :
                /\ Holds(files, at, f) /\ f.signal = g /\ f.seq = s
                /\ r.slots[s] = [state |-> "Queued", msg |-> f.msg, at |-> at]
      BY <1>2, RecoveredFacts
    <2> HIDE DEF r
    <2>2. /\ RingOK(Advance(r)) /\ Advance(r).slots = r.slots /\ Advance(r).next = r.next
          /\ r.committed <= Advance(r).committed
      BY <2>1, AdvanceFacts DEF RingOK
    <2>3. ring'[g] = Advance(r)
      BY <1>1 DEF r
    <2>4. PICK q : q = ring'[g]
      OBVIOUS
    <2>5. RingOK(q) /\ q.slots = r.slots /\ q.next = r.next /\ wmFile[g] <= q.committed
      BY <2>1, <2>2, <2>3, <2>4
    <2>6. /\ \A f \in OnDisk(files) : f.signal = g =>
                f.seq < q.next /\ (f.seq > wmFile[g] => f.seq \in DOMAIN q.slots)
          /\ \A s \in DOMAIN q.slots : \E f \in OnDisk(files) : \E at \in Places :
                /\ Holds(files, at, f) /\ f.signal = g /\ f.seq = s
                /\ q.slots[s] = [state |-> "Queued", msg |-> f.msg, at |-> at]
      BY <2>1, <2>5
    <2> QED BY <2>4, <2>5, <2>6, ZenonT(60)
  <1>11. ring' \in [Signals -> Rings] /\ \A g \in Signals : ring'[g].committed \in Nat /\ ring'[g].next \in Nat
    <2>1. \A g \in Signals : ring'[g] \in Rings
      BY <1>10 DEF RingOK
    <2> QED BY <1>1, <2>1 DEF Rings
  (* The watermark. *)
  <1>12. wm \in Marks /\ \A g \in Signals : wm[g] = ring'[g].committed /\ wmFile[g] <= wm[g]
    <2> DEFINE v == [g \in Signals |-> rings[g].committed]
    <2>1. v \in Marks /\ \A g \in Signals : v[g] = ring'[g].committed
      BY <1>1, <1>11 DEF Marks
    <2>2. c = FlushWatermark(v)
      OBVIOUS
    <2> HIDE DEF v
    <2>3. c \in Updates /\ c.wm = v
      BY <2>1, <2>2 DEF FlushWatermark, Updates
    <2> HIDE DEF c
    <2>4. {c} \in SUBSET Updates /\ IsFiniteSet({c})
      BY <2>3, FS_Singleton
    <2>5. /\ wm \in Marks /\ AtMost(wmFile, wm) /\ \A x \in {c} : AtMost(x.wm, wm)
          /\ \A g \in Signals : wm[g] = wmFile[g] \/ \E x \in {c} : wm[g] = x.wm[g]
      BY <1>2, <2>4, MergeFacts
    <2> HIDE DEF wm
    <2>6. ASSUME NEW g \in Signals PROVE wm[g] = v[g] /\ wmFile[g] <= wm[g]
      <3>1. wmFile[g] <= wm[g] /\ v[g] <= wm[g] /\ (wm[g] = wmFile[g] \/ wm[g] = v[g]) /\ wmFile[g] <= v[g]
        BY <1>10, <2>1, <2>3, <2>5 DEF AtMost
      <3>2. wmFile[g] \in Nat /\ v[g] \in Nat /\ wm[g] \in Nat
        BY <1>2, <2>1, <2>5 DEF Marks
      <3> QED BY <3>1, <3>2
    <2> QED BY <2>1, <2>5, <2>6
  <1>13. ASSUME NEW f \in OnDisk(files)
         PROVE  /\ f \in Frames /\ f.signal \in Signals /\ f.seq \in Nat /\ f.seq < ring'[f.signal].next
                /\ f.seq > wmFile[f.signal] =>
                     /\ f.seq \in DOMAIN ring'[f.signal].slots /\ f.seq > wm[f.signal]
                     /\ ring'[f.signal].slots[f.seq].state = "Queued"
                     /\ ring'[f.signal].slots[f.seq].msg = f.msg
    <2>1. f \in Frames /\ f.signal \in Signals /\ f.seq \in Nat
      BY DEF OnDisk, Frames
    <2>2. f.seq < ring'[f.signal].next
      BY <1>10, <2>1
    <2>3. ASSUME f.seq > wmFile[f.signal]
          PROVE  /\ f.seq \in DOMAIN ring'[f.signal].slots /\ f.seq > wm[f.signal]
                 /\ ring'[f.signal].slots[f.seq].state = "Queued"
                 /\ ring'[f.signal].slots[f.seq].msg = f.msg
      <3>1. f.seq \in DOMAIN ring'[f.signal].slots
        BY <1>10, <2>1, <2>3
      <3>2. ring'[f.signal].committed < f.seq
        BY <1>10, <2>1, <3>1 DEF RingOK
      <3>3. wm[f.signal] = ring'[f.signal].committed /\ ring'[f.signal].committed \in Nat
        BY <1>11, <1>12, <2>1
      <3>0. \A s \in DOMAIN ring'[f.signal].slots : \E h \in OnDisk(files) : \E at \in Places :
                /\ Holds(files, at, h) /\ h.signal = f.signal /\ h.seq = s
                /\ ring'[f.signal].slots[s] = [state |-> "Queued", msg |-> h.msg, at |-> at]
        BY <1>10, <2>1
      <3>4. PICK h \in OnDisk(files) : \E at \in Places :
                /\ h.signal = f.signal /\ h.seq = f.seq
                /\ ring'[f.signal].slots[f.seq] = [state |-> "Queued", msg |-> h.msg, at |-> at]
        BY <3>0, <3>1, ZenonT(60)
      <3>5. h = f
        BY <3>4 DEF DiskInv, FramesInOrder, SameSeq
      <3>6. ring'[f.signal].slots[f.seq].state = "Queued" /\ ring'[f.signal].slots[f.seq].msg = f.msg
        BY <3>4, <3>5
      <3>7. f.seq > wm[f.signal]
        BY <2>1, <3>2, <3>3
      <3> QED BY <3>1, <3>6, <3>7
    <2> QED BY <2>1, <2>2, <2>3
  (* The segments that are kept. *)
  <1>14. ASSUME NEW id \in DOMAIN files, NEW i \in DOMAIN Scanned(id)
         PROVE  Scanned(id)[i] \in OnDisk(files)
    BY <1>5 DEF OnDisk
  <1>15. \A id \in DOMAIN files : Live(id) <=> \E i \in DOMAIN Scanned(id) : Scanned(id)[i].seq > wmFile[Scanned(id)[i].signal]
    <2>1. ASSUME NEW id \in DOMAIN files
          PROVE  Live(id) <=> \E i \in DOMAIN Scanned(id) : Scanned(id)[i].seq > wmFile[Scanned(id)[i].signal]
      <3>1. ToSet(Scanned(id)) = {Scanned(id)[i] : i \in DOMAIN Scanned(id)}
        BY <1>5
      <3> QED BY <3>1
    <2> HIDE DEF Live
    <2> QED BY <2>1
  <1>16. n \in Nat \ {0} /\ \A id \in DOMAIN files : id < n
    <2> DEFINE S == DOMAIN files \union {0}
    <2>1. S \in SUBSET Nat /\ S # {} /\ IsFiniteSet(S)
      BY <1>2, FS_AddElement DEF Files
    <2> HIDE DEF S
    <2>2. Max(S) \in S /\ \A x \in S : x <= Max(S)
      BY <2>1, MaxFacts
    <2>3. n = Max(S) + 1
      BY DEF MaxOf, S
    <2>4. DOMAIN files \subseteq S
      BY DEF S
    <2>5. PICK k : k = Max(S)
      OBVIOUS
    <2>6. k \in Nat /\ \A x \in S : x \in Nat /\ x <= k
      BY <2>1, <2>2, <2>5
    <2>7. k + 1 \in Nat \ {0} /\ \A x \in S : x < k + 1
      BY <2>6
    <2> HIDE DEF n
    <2> QED BY <2>3, <2>4, <2>5, <2>7
  <1>17. ASSUME NEW seg \in sealed
         PROVE  /\ seg \in Segments /\ seg.id \in DOMAIN files /\ Live(seg.id)
                /\ seg.maxSeq = MaxSeqs(files'[seg.id])
                /\ ~IsFullyAcked(seg, wm)
    <2>1. PICK id \in DOMAIN files : Live(id) /\ seg = [id |-> id, maxSeq |-> MaxSeqs(Scanned(id))]
      OBVIOUS
    <2>2. /\ MaxSeqs(Scanned(id)) \in Marks
          /\ \A i \in DOMAIN Scanned(id) :
                Scanned(id)[i].signal \in Signals /\ Scanned(id)[i].seq <= MaxSeqs(Scanned(id))[Scanned(id)[i].signal]
      BY <1>5, MaxSeqsFacts
    <2>3. seg.id = id /\ seg.maxSeq = MaxSeqs(Scanned(id)) /\ seg \in Segments
      BY <1>2, <2>1, <2>2 DEF Files, Segments
    <2>4. PICK i \in DOMAIN Scanned(id) : Scanned(id)[i].seq > wmFile[Scanned(id)[i].signal]
      BY <1>15, <2>1
    <2>5. PICK f : f = Scanned(id)[i]
      OBVIOUS
    <2>6. f.signal \in Signals /\ f.seq \in Nat /\ f.seq > wm[f.signal]
      BY <1>13, <1>14, <2>4, <2>5
    <2>7. f.seq <= seg.maxSeq[f.signal] /\ seg.maxSeq[f.signal] \in Nat /\ wm[f.signal] \in Nat
      BY <1>12, <2>2, <2>3, <2>5, <2>6 DEF Marks
    <2>8. ~(seg.maxSeq[f.signal] <= wm[f.signal])
      <3> HIDE DEF wm
      <3> QED BY <2>6, <2>7
    <2>9. ~IsFullyAcked(seg, wm)
      BY <2>6, <2>8 DEF IsFullyAcked
    <2>10. seg.maxSeq = MaxSeqs(files'[seg.id])
      BY <1>5, <2>3
    <2> HIDE DEF Live, wm
    <2> QED BY <2>1, <2>3, <2>9, <2>10
  <1>18. \A id \in DOMAIN files : Live(id) => id \in SealedIds(sealed)
    <2> HIDE DEF Live
    <2>1. ASSUME NEW id \in DOMAIN files, Live(id) PROVE id \in SealedIds(sealed)
      <3>1. PICK seg : seg = [id |-> id, maxSeq |-> MaxSeqs(Scanned(id))]
        OBVIOUS
      <3>2. seg \in sealed /\ seg.id = id
        BY <2>1, <3>1
      <3> HIDE DEF sealed
      <3> QED BY <3>2 DEF SealedIds
    <2> HIDE DEF sealed
    <2> QED BY <2>1
  <1>19. sealed \in SUBSET Segments
    BY <1>17
  <1> HIDE DEF sealed, n, wm, c, rings, Live
  <1>20. Idle(writer', wm, n, sealed)
    BY <1>1, <1>12, <1>16, <1>19, IdleFacts
  <1>21. Shapes'
    <2>1. IsFiniteSet(writer'.wms) /\ writer' \in Writers
      BY <1>20, FS_EmptySet DEF Idle
    <2> QED BY <1>1, <1>7, <1>11, <1>12, <2>1 DEF DiskInv, Shapes
  <1>22. RingsInOrder'
    BY <1>10 DEF RingsInOrder, RingOK
  <1>23. Phases'
    BY <1>1, <1>3, <1>20 DEF Phases, Idle
  <1>24. MarksInOrder'
    <2>1. \A g \in Signals : wm[g] <= ring'[g].committed /\ wm[g] <= wm[g]
      BY <1>11, <1>12
    <2>2. AckDurable'
      <3>1. hist.acked \in Marks /\ \A g \in Signals : hist.acked[g] <= wmFile[g]
        BY <1>2 DEF DiskInv, Histories, MarksInOrder, AckDurable
      <3>2. \A g \in Signals : hist.acked[g] <= wm[g]
        BY <1>2, <1>12, <3>1 DEF Marks
      <3> QED BY <1>1, <3>2 DEF AckDurable
    <2> QED BY <1>1, <1>3, <1>20, <2>1, <2>2 DEF MarksInOrder, Idle, AtMost
  <1>25. FramesInOrder'
    <2>1. \A f, h \in OnDisk(files) : SameSeq(f, h) => f = h
      BY DEF DiskInv, FramesInOrder
    <2> QED BY <1>7, <1>9, <1>13, <2>1 DEF FramesInOrder
  <1>26. AppendsInOrder' /\ GroupSynced'
    <2>1. Pending' = {} /\ writer'.done = {} /\ cmds' = {}
      BY <1>1, <1>3, <1>20 DEF Pending, Idle
    <2> QED BY <2>1 DEF AppendsInOrder, GroupSynced
  <1>27. SlotsOnDisk'
    <2>1. ASSUME NEW g \in Signals, NEW s \in DOMAIN ring'[g].slots
          PROVE  Holds(files', ring'[g].slots[s].at, [signal |-> g, seq |-> s, msg |-> ring'[g].slots[s].msg])
      <3>1. PICK f \in OnDisk(files) : \E at \in Places :
                /\ Holds(files, at, f) /\ f.signal = g /\ f.seq = s
                /\ ring'[g].slots[s] = [state |-> "Queued", msg |-> f.msg, at |-> at]
        BY <1>10, SMTT(60)
      <3>2. PICK at \in Places :
                /\ Holds(files, at, f) /\ f.signal = g /\ f.seq = s
                /\ ring'[g].slots[s] = [state |-> "Queued", msg |-> f.msg, at |-> at]
        BY <3>1
      <3>3. f \in Frames /\ f = [signal |-> g, seq |-> s, msg |-> f.msg]
        BY <3>2 DEF OnDisk, Frames
      <3>4. Holds(files', at, f)
        BY <1>8, <3>2, <3>3
      <3>5. ring'[g].slots[s].at = at /\ ring'[g].slots[s].msg = f.msg
        BY <3>2
      <3> QED BY <3>3, <3>4, <3>5
    <2> QED BY <2>1 DEF SlotsOnDisk
  <1>28. SealedAgree'
    <2>1. writer'.sealed = sealed /\ writer'.persisted = wm /\ writer'.active = 0 /\ writer'.next = n
      BY <1>20 DEF Idle
    <2> QED BY <1>6, <1>16, <1>17, <2>1 DEF SealedAgree
  <1>29. NoOrphans'
    <2>1. SUFFICES ASSUME NEW id \in DOMAIN files \ SealedIds(sealed), NEW i \in DOMAIN files'[id]
                   PROVE  files'[id][i].seq <= wm[files'[id][i].signal]
      BY <1>1, <1>6, <1>20 DEF NoOrphans, Idle
    <2>2. PICK f : f = files'[id][i]
      OBVIOUS
    <2>3. i \in DOMAIN Scanned(id) /\ f = Scanned(id)[i]
      BY <1>5, <2>2
    <2>4. ~(f.seq > wmFile[f.signal])
      BY <1>15, <1>18, <2>1, <2>3
    <2>5. f.signal \in Signals /\ f.seq \in Nat
      BY <1>13, <1>14, <2>3
    <2>6. wmFile[f.signal] \in Nat /\ wm[f.signal] \in Nat /\ wmFile[f.signal] <= wm[f.signal]
      BY <1>2, <1>12, <2>5 DEF Marks
    <2>7. f.seq <= wm[f.signal]
      BY <2>4, <2>5, <2>6
    <2> QED BY <2>2, <2>7
  <1>30. DeliveredKept'
    <2>1. SUFFICES ASSUME ~PowerLoss, NEW d \in hist.delivered
                   PROVE  /\ d[2] <= wm[d[1]] \/ \E f \in OnDisk(files) : f.signal = d[1] /\ f.seq = d[2]
                          /\ \A f \in OnDisk(files) : f.signal = d[1] /\ f.seq = d[2] => f.msg = d[3]
                          /\ d[2] < ring'[d[1]].next
                          /\ d[2] \in DOMAIN ring'[d[1]].slots => ring'[d[1]].slots[d[2]].msg = d[3]
                          /\ \A e \in hist.delivered : d[1] = e[1] /\ d[2] = e[2] => d[3] = e[3]
      BY <1>1, <1>4, <1>9, ZenonT(60) DEF DeliveredKept
    <2>2. d[1] \in Signals /\ d[2] \in Nat
      BY <1>2 DEF Histories
    <2>3. /\ d[2] <= wmFile[d[1]] \/ \E f \in OnDisk(files) : f.signal = d[1] /\ f.seq = d[2]
          /\ \A f \in OnDisk(files) : f.signal = d[1] /\ f.seq = d[2] => f.msg = d[3]
          /\ \A e \in hist.delivered : d[1] = e[1] /\ d[2] = e[2] => d[3] = e[3]
      BY <2>1 DEF DiskInv, DeliveredKept
    <2>4. /\ wmFile[d[1]] \in Nat /\ wm[d[1]] \in Nat /\ wmFile[d[1]] <= wm[d[1]]
          /\ wm[d[1]] = ring'[d[1]].committed /\ ring'[d[1]].committed < ring'[d[1]].next
          /\ ring'[d[1]].next \in Nat
      BY <1>2, <1>10, <1>11, <1>12, <2>2 DEF Marks, RingOK
    <2>5. d[2] <= wm[d[1]] \/ \E f \in OnDisk(files) : f.signal = d[1] /\ f.seq = d[2]
      BY <2>2, <2>3, <2>4
    <2>6. d[2] < ring'[d[1]].next
      <3>1. CASE d[2] <= wm[d[1]]
        BY <2>2, <2>4, <3>1
      <3>2. CASE \E f \in OnDisk(files) : f.signal = d[1] /\ f.seq = d[2]
        BY <1>13, <3>2
      <3> QED BY <2>5, <3>1, <3>2
    <2>7. ASSUME d[2] \in DOMAIN ring'[d[1]].slots PROVE ring'[d[1]].slots[d[2]].msg = d[3]
      <3>1. PICK f \in OnDisk(files) : \E at \in Places :
                /\ f.signal = d[1] /\ f.seq = d[2]
                /\ ring'[d[1]].slots[d[2]] = [state |-> "Queued", msg |-> f.msg, at |-> at]
        BY <1>10, <2>2, <2>7
      <3>2. f.msg = d[3] /\ ring'[d[1]].slots[d[2]].msg = f.msg
        BY <2>3, <3>1
      <3> QED BY <3>2
    <2> QED BY <2>3, <2>5, <2>6, <2>7
  <1>31. AcceptedKept'
    <2>1. ASSUME NEW m, NEW f \in Frames, NEW at \in Nat \X Nat, KeptAt(m, f, at) PROVE KeptAt(m, f, at)'
      <3>1. Holds(files, at, f) /\ Safe(synced, at) /\ at \in Places /\ f.msg = m /\ f.seq > wmFile[f.signal]
        BY <2>1 DEF KeptAt, Places
      <3>2. Holds(files', at, f) /\ Safe(synced', at) /\ f \in OnDisk(files)
        BY <1>8, <3>1, HeldOnDisk
      <3>3. Safe(synced, at)'
        BY <1>4, <3>2 DEF Safe
      <3>4. /\ f.seq \in DOMAIN ring'[f.signal].slots /\ f.seq > wm[f.signal]
            /\ ring'[f.signal].slots[f.seq].state = "Queued" /\ ring'[f.signal].slots[f.seq].msg = m
        BY <1>13, <3>1, <3>2
      <3> QED BY <1>1, <3>1, <3>2, <3>3, <3>4 DEF KeptAt
    <2> QED BY <1>1, <1>4, <2>1 DEF DiskInv, AcceptedKept
  <1> QED BY <1>21, <1>22, <1>23, <1>24, <1>25, <1>26, <1>27, <1>28, <1>29, <1>30, <1>31 DEF DiskInv

(* The obsolete segments hold nothing above the watermark: recovery may stop before, between or after
   their deletion. *)
LEMMA DeleteObsoleteKeeps ==
    ASSUME DiskInv, DeleteObsolete
    PROVE  DiskInv'
  <1> DEFINE kept == SealedIds(writer.sealed)
  <1>1. /\ mode = "recovering" /\ mode' = "running"
        /\ files' = [id \in kept |-> files[id]] /\ synced' = [id \in kept |-> synced[id]]
        /\ wmFile' = wmFile /\ ring' = ring /\ fatal' = fatal /\ unsent' = unsent /\ cmds' = cmds
        /\ writer' = writer /\ hist' = hist /\ scenario' = scenario
    BY DEF DeleteObsolete, SealedIds
  <1>2. Files(files) /\ Synced(files, synced) /\ Intact(files)
    BY <1>1 DEF DiskInv, Shapes, FramesInOrder
  <1>3. kept \subseteq DOMAIN files
    BY DEF DiskInv, SealedAgree, SealedIds
  <1>4. /\ writer.phase = "idle" /\ writer.active = 0 /\ cmds = {} /\ unsent = 0
        /\ writer.todo = {} /\ writer.done = {}
    BY <1>1 DEF DiskInv, Phases
  <1>5. ASSUME NEW id \in DOMAIN files \ kept, NEW i \in DOMAIN files[id]
        PROVE  files[id][i].seq <= wmFile[files[id][i].signal]
    BY <1>1 DEF DiskInv, NoOrphans
  <1>6. wmFile \in Marks /\ writer.persisted = wmFile
    BY Types
  <1> HIDE DEF kept
  <1>7. DOMAIN files' = kept /\ DOMAIN synced' = kept /\ \A id \in kept : files'[id] = files[id] /\ synced'[id] = synced[id]
    BY <1>1
  <1>8. Files(files') /\ Intact(files') /\ Synced(files', synced')
    <2>1. IsFiniteSet(kept) /\ kept \subseteq Nat \ {0}
      BY <1>2, <1>3, FS_Subset DEF Files
    <2>2. Intact(files')
      BY <1>2, <1>3, <1>7 DEF Intact
    <2>3. files' = [id \in DOMAIN files' |-> files'[id]] /\ synced' = [id \in DOMAIN files' |-> synced'[id]]
      BY <1>1, <1>7
    <2>4. Files(files')
      BY <1>7, <2>1, <2>2, <2>3, IntactFiles
    <2>5. \A id \in kept : synced[id] \in 0..Len(files[id])
      BY <1>2, <1>3 DEF Synced
    <2> QED BY <1>7, <2>2, <2>3, <2>4, <2>5 DEF Synced
  <1>9. OnDisk(files') \subseteq OnDisk(files)
    BY <1>3, <1>7 DEF OnDisk
  <1>10. ASSUME NEW at \in Places, NEW f \in Frames, Needed(files, at, f)
         PROVE  Holds(files', at, f) /\ (at[2] <= synced[at[1]] => at[2] <= synced'[at[1]])
    <2>1. /\ at[1] \in DOMAIN files /\ at[2] \in DOMAIN files[at[1]] /\ files[at[1]][at[2]] = f
          /\ f.seq > wmFile[f.signal]
      BY <1>6, <1>10 DEF Needed, Holds
    <2>2. ~(f.seq <= wmFile[f.signal])
      <3>1. f.seq \in Nat /\ wmFile[f.signal] \in Nat
        BY <1>6 DEF Frames, Marks
      <3> QED BY <2>1, <3>1
    <2>3. at[1] \in kept
      BY <1>5, <2>1, <2>2
    <2> QED BY <1>7, <2>1, <2>3 DEF Holds
  <1>11. Carried({})
    BY <1>8, <1>9, <1>10 DEF Carried
  <1>12. FramesInOrder' /\ SlotsOnDisk' /\ DeliveredKept' /\ AcceptedKept'
    BY <1>1, <1>11, DiskMoves
  <1>13. Shapes'
    BY <1>1, <1>8 DEF DiskInv, Shapes
  <1>14. RingsInOrder' /\ Phases' /\ MarksInOrder'
    BY <1>1 DEF DiskInv, RingsInOrder, Phases, MarksInOrder, AckDurable, AtMost
  <1>15. AppendsInOrder' /\ GroupSynced'
    <2>1. Pending' = {} /\ writer'.done = {} /\ cmds' = {}
      BY <1>1, <1>4 DEF Pending
    <2> QED BY <2>1 DEF AppendsInOrder, GroupSynced
  <1>16. SealedAgree'
    <2>1. \A seg \in writer.sealed : seg.id \in kept
      BY DEF kept, SealedIds
    <2>2. ASSUME NEW seg \in writer.sealed
          PROVE  seg.id \in DOMAIN files' /\ seg.maxSeq = MaxSeqs(files'[seg.id]) /\ ~IsFullyAcked(seg, writer.persisted)
      BY <1>4, <1>7, <2>1 DEF DiskInv, SealedAgree, Collecting
    <2>3. \A id \in kept : id < writer.next
      BY <1>1, <1>3 DEF DiskInv, SealedAgree
    <2> QED BY <1>1, <1>4, <1>7, <2>2, <2>3 DEF SealedAgree
  <1>17. NoOrphans'
    <2>1. DOMAIN files' = SealedIds(writer.sealed)
      BY <1>7 DEF kept
    <2> QED BY <1>1, <2>1 DEF NoOrphans
  <1> QED BY <1>12, <1>13, <1>14, <1>15, <1>16, <1>17 DEF DiskInv

-----------------------------------------------------------------------------
(* The specification                                                        *)

(* A new buffer directory. *)
LEMMA InitDiskInv ==
    ASSUME Init
    PROVE  DiskInv
  <1>1. /\ mode = "running" /\ fatal = FALSE /\ unsent = 0 /\ cmds = {} /\ scenario \in Scenarios
        /\ wmFile = [g \in Signals |-> 0] /\ ring = [g \in Signals |-> EmptyRing]
        /\ writer = IdleWriter(wmFile, 1, {})
        /\ hist = [sent |-> 0, accepted |-> {}, resolved |-> {}, acked |-> [g \in Signals |-> 0], delivered |-> {},
                   finalized |-> 0]
    BY DEF Init
  <1>2. /\ files = [id \in DOMAIN files |-> files[id]] /\ synced = [id \in DOMAIN synced |-> synced[id]]
        /\ DOMAIN files = {} /\ DOMAIN synced = {}
    <2> DEFINE e == <<>>
    <2>1. e \in Seq(Frames) /\ Len(e) = 0
      BY EmptySeq
    <2>2. files = e /\ synced = e
      BY DEF Init
    <2> HIDE DEF e
    <2>3. DOMAIN e = 1..Len(e) /\ e = [i \in 1..Len(e) |-> e[i]]
      BY <2>1, SeqFacts
    <2>4. DOMAIN e = 1..0 /\ e = [i \in DOMAIN e |-> e[i]]
      BY <2>1, <2>3
    <2>5. 1..0 = {}
      OBVIOUS
    <2> QED BY <2>2, <2>4, <2>5
  <1>3. wmFile \in Marks /\ \A g \in Signals : wmFile[g] = 0
    BY <1>1 DEF Marks
  <1>4. /\ hist \in Histories /\ hist.accepted = {} /\ hist.delivered = {} /\ hist.resolved = {}
        /\ \A g \in Signals : hist.acked[g] = 0
    <2>1. [g \in Signals |-> 0] \in Marks
      BY DEF Marks
    <2> QED BY <1>1, <2>1 DEF Histories
  <1>5. Idle(writer, wmFile, 1, {})
    <2>1. 1 \in Nat \ {0} /\ {} \in SUBSET Segments
      OBVIOUS
    <2> QED BY <1>1, <1>3, <2>1, IdleFacts
  <1>6. ring \in [Signals -> Rings] /\ \A g \in Signals : ring[g] = EmptyRing
    BY <1>1, EmptyRingFacts DEF RingOK
  <1>7. Files(files) /\ Intact(files) /\ Synced(files, synced) /\ OnDisk(files) = {}
    BY <1>2, FS_EmptySet DEF Files, Intact, Synced, OnDisk
  <1>8. Shapes
    BY <1>1, <1>3, <1>4, <1>5, <1>6, <1>7, FS_EmptySet DEF Shapes, Idle
  <1>9. RingsInOrder /\ SlotsOnDisk
    BY <1>6, EmptyRingFacts DEF RingsInOrder, SlotsOnDisk, RingOK
  <1>10. Phases
    BY <1>1, <1>5 DEF Phases, Idle
  <1>11. MarksInOrder
    <2>1. AtMost(wmFile, wmFile) /\ \A g \in Signals : wmFile[g] <= ring[g].committed
      BY <1>3, <1>6, EmptyRingFacts DEF AtMost
    <2>2. AckDurable
      BY <1>3, <1>4 DEF AckDurable
    <2> QED BY <1>1, <1>5, <2>1, <2>2 DEF MarksInOrder, Idle
  <1>12. FramesInOrder /\ DeliveredKept /\ AcceptedKept
    BY <1>4, <1>7 DEF FramesInOrder, DeliveredKept, AcceptedKept
  <1>13. AppendsInOrder /\ GroupSynced
    <2>1. Pending = {} /\ writer.done = {}
      BY <1>1, <1>5 DEF Pending, Idle
    <2> QED BY <1>1, <2>1 DEF AppendsInOrder, GroupSynced
  <1>14. SealedAgree /\ NoOrphans
    BY <1>1, <1>2, <1>5 DEF SealedAgree, NoOrphans, Idle
  <1> QED BY <1>8, <1>9, <1>10, <1>11, <1>12, <1>13, <1>14 DEF DiskInv

(* A step that changes nothing. *)
LEMMA StutterKeeps ==
    ASSUME DiskInv, UNCHANGED vars
    PROVE  DiskInv'
  <1>1. /\ files' = files /\ synced' = synced /\ wmFile' = wmFile /\ ring' = ring /\ fatal' = fatal
        /\ unsent' = unsent /\ cmds' = cmds /\ writer' = writer /\ mode' = mode /\ hist' = hist
        /\ scenario' = scenario
    BY DEF vars
  <1>2. Shapes' /\ RingsInOrder' /\ Phases'
    BY <1>1 DEF DiskInv, Shapes, RingsInOrder, Phases
  <1>3. MarksInOrder'
    BY <1>1 DEF DiskInv, MarksInOrder, AckDurable
  <1>4. FramesInOrder' /\ SlotsOnDisk'
    BY <1>1 DEF DiskInv, FramesInOrder, SlotsOnDisk
  <1>5. PowerLoss' = PowerLoss /\ Durable' = Durable
    BY <1>1 DEF PowerLoss, Durable, SyncOnWrite, Faults
  <1>6. AppendsInOrder'
    BY <1>1, <1>5 DEF DiskInv, AppendsInOrder, Pending, HasSlot, Held
  <1>7. SealedAgree' /\ NoOrphans'
    BY <1>1 DEF DiskInv, SealedAgree, NoOrphans, Collecting
  <1>8. DeliveredKept'
    BY <1>1, <1>5 DEF DiskInv, DeliveredKept
  <1>9. AcceptedKept' /\ GroupSynced'
    <2>1. ASSUME NEW m, NEW f, NEW at PROVE KeptAt(m, f, at)' <=> KeptAt(m, f, at)
      BY <1>1, <1>5 DEF KeptAt, Safe
    <2> QED BY <1>1, <1>5, <2>1 DEF DiskInv, AcceptedKept, GroupSynced, Held
  <1> QED BY <1>2, <1>3, <1>4, <1>6, <1>7, <1>8, <1>9 DEF DiskInv

(* What a behaviour may meet is decided at its start. *)
LEMMA ScenarioFixed ==
    ASSUME [Next]_vars
    PROVE  scenario' = scenario
  <1>1. CASE \E g \in Signals : Send(g) \/ \E seq \in 1..MaxMsgs : Ack(g, seq)
    BY <1>1 DEF Send, Ack
  <1>2. CASE SendWatermark
    BY <1>2 DEF SendWatermark
  <1>3. CASE FinalizeShutdown
    BY <1>3 DEF FinalizeShutdown
  <1>4. CASE TakeGroup
    BY <1>4 DEF TakeGroup
  <1>5. CASE \E c \in writer.todo : WriteFrame(c)
    BY <1>5 DEF WriteFrame
  <1>6. CASE SyncGroup
    BY <1>6 DEF SyncGroup
  <1>7. CASE \E d \in writer.done : Finish(d)
    BY <1>7 DEF Finish
  <1>8. CASE WriteWatermark
    BY <1>8 DEF WriteWatermark
  <1>9. CASE CollectAndReply
    BY <1>9 DEF CollectAndReply
  <1>10. CASE Crash \/ LosePower \/ Shutdown
    BY <1>10 DEF Crash, LosePower, Shutdown, Stop
  <1>11. CASE Recover
    BY <1>11 DEF Recover
  <1>12. CASE DeleteObsolete
    BY <1>12 DEF DeleteObsolete
  <1>13. CASE UNCHANGED vars
    BY <1>13 DEF vars
  <1> QED BY <1>1, <1>2, <1>3, <1>4, <1>5, <1>6, <1>7, <1>8, <1>9, <1>10, <1>11, <1>12, <1>13, SMTT(60) DEF Next

(* Every step keeps the invariant. *)
LEMMA StepKeepsDiskInv ==
    ASSUME DiskInv, WholeWrites, [Next]_vars
    PROVE  DiskInv'
  <1>1. CASE \E g \in Signals : Send(g) \/ \E seq \in 1..MaxMsgs : Ack(g, seq)
    BY <1>1, SendKeeps, AckKeeps
  <1>2. CASE SendWatermark
    BY <1>2, SendWatermarkKeeps
  <1>3. CASE FinalizeShutdown
    BY <1>3, FinalizeKeeps
  <1>4. CASE TakeGroup
    BY <1>4, TakeGroupKeeps
  <1>5. CASE \E c \in writer.todo : WriteFrame(c)
    BY <1>5, WriteFrameKeeps
  <1>6. CASE SyncGroup
    BY <1>6, SyncGroupKeeps
  <1>7. CASE \E d \in writer.done : Finish(d)
    BY <1>7, FinishKeeps
  <1>8. CASE WriteWatermark
    BY <1>8, WriteWatermarkKeeps
  <1>9. CASE CollectAndReply
    BY <1>9, CollectKeeps
  <1>10. CASE Crash
    BY <1>10, CrashKeeps
  <1>11. CASE LosePower
    BY <1>11, LosePowerKeeps
  <1>12. CASE Shutdown
    BY <1>12, ShutdownKeeps
  <1>13. CASE Recover
    BY <1>13, RecoverKeeps
  <1>14. CASE DeleteObsolete
    BY <1>14, DeleteObsoleteKeeps
  <1>15. CASE UNCHANGED vars
    BY <1>15, StutterKeeps
  <1> QED BY <1>1, <1>2, <1>3, <1>4, <1>5, <1>6, <1>7, <1>8, <1>9, <1>10, <1>11, <1>12, <1>13, <1>14, <1>15 DEF Next

(* Where no write of a frame stops half-way, the rings, the writer, the watermark file and the segments
   agree in every state: also between the steps of a group commit, of a deletion of segments and of a
   recovery, and whichever file call failed before. *)
THEOREM DiskInvariant == Spec => [](WholeWrites => DiskInv)
  <1>1. Init => (WholeWrites => DiskInv)
    BY InitDiskInv
  <1>2. (WholeWrites => DiskInv) /\ [Next]_vars => (WholeWrites => DiskInv)'
    <2>1. SUFFICES ASSUME WholeWrites => DiskInv, [Next]_vars, WholeWrites' PROVE DiskInv'
      OBVIOUS
    <2>2. WholeWrites
      BY <2>1, ScenarioFixed DEF WholeWrites, Faults
    <2> QED BY <2>1, <2>2, StepKeepsDiskInv
  <1> QED BY <1>1, <1>2, PTL DEF Spec

(* What DiskInv says as the properties say it. *)
LEMMA DiskInvTypeOK ==
    ASSUME DiskInv
    PROVE  TypeOK
  <1>1. /\ mode \in {"running", "recovering", "down"} /\ fatal \in BOOLEAN /\ unsent \in Nat
        /\ DOMAIN synced = DOMAIN files /\ \A id \in DOMAIN files : synced[id] \in 0..Len(files[id])
    BY DEF DiskInv, Shapes, Synced
  <1>2. writer.active = 0 \/ writer.active \in DOMAIN files \ {seg.id : seg \in writer.sealed}
    BY DEF DiskInv, SealedAgree, SealedIds
  <1>3. {seg.id : seg \in writer.sealed} \subseteq DOMAIN files /\ writer.persisted = wmFile
    BY DEF DiskInv, SealedAgree, MarksInOrder
  <1>4. ASSUME NEW g \in Signals
        PROVE  /\ ring[g].committed \in 0..(ring[g].next - 1)
               /\ DOMAIN ring[g].slots \subseteq (ring[g].committed + 1)..(ring[g].next - 1)
               /\ writer.persisted[g] <= writer.staged[g]
               /\ mode = "running" => writer.staged[g] <= ring[g].committed
    <2>1. RingOK(ring[g])
      BY Types
    <2>2. PICK r : r = ring[g]
      OBVIOUS
    <2>3. /\ r.committed \in Nat /\ r.next \in Nat /\ r.committed < r.next /\ DOMAIN r.slots \subseteq Nat
          /\ \A s \in DOMAIN r.slots : r.committed < s /\ s < r.next
      BY <2>1, <2>2 DEF RingOK, Rings
    <2>4. r.committed \in 0..(r.next - 1) /\ DOMAIN r.slots \subseteq (r.committed + 1)..(r.next - 1)
      BY <2>3
    <2>5. writer.persisted[g] <= writer.staged[g] /\ (mode = "running" => writer.staged[g] <= ring[g].committed)
      BY DEF DiskInv, MarksInOrder, AtMost
    <2> QED BY <2>2, <2>4, <2>5
  <1> QED BY <1>1, <1>2, <1>3, <1>4 DEF TypeOK

(* What waits is on disk, and what is on disk is active, sealed for a reason, or left by a failure. *)
LEMMA DiskInvSegments ==
    ASSUME DiskInv
    PROVE  SegmentsMatchRings
  <1>1. ASSUME mode = "running", NEW g \in Signals, NEW s \in DOMAIN ring[g].slots,
               ring[g].slots[s].state = "Queued"
        PROVE  Holds(files, ring[g].slots[s].at, [signal |-> g, seq |-> s, msg |-> ring[g].slots[s].msg])
    BY <1>1 DEF DiskInv, SlotsOnDisk
  <1>2. ASSUME mode = "running", ~fatal, writer.phase = "idle", NEW id \in DOMAIN files, id # writer.active
        PROVE  \E f \in ToSet(files[id]) : f.seq > wmFile[f.signal]
    <2>1. writer.done = {} /\ ~Collecting
      BY <1>2 DEF DiskInv, Phases, Collecting
    <2>2. id \in SealedIds(writer.sealed)
      BY <1>2, <2>1 DEF DiskInv, NoOrphans
    <2>3. PICK seg \in writer.sealed : seg.id = id
      BY <2>2 DEF SealedIds
    <2>4. seg.maxSeq = MaxSeqs(files[id]) /\ ~IsFullyAcked(seg, wmFile)
      BY <2>1, <2>3, Types DEF DiskInv, SealedAgree
    <2>5. ~AtMost(MaxSeqs(files[id]), wmFile)
      BY <2>4 DEF IsFullyAcked, AtMost
    <2>6. files[id] \in Seq(Frames) /\ wmFile \in Marks
      BY <1>2 DEF DiskInv, FramesInOrder, Intact, Shapes
    <2>7. PICK i \in DOMAIN files[id] : files[id][i].seq > wmFile[files[id][i].signal]
      BY <2>5, <2>6, MaxSeqsFacts
    <2>8. files[id][i] \in ToSet(files[id])
      BY <2>6, <2>7, SeqFacts
    <2> QED BY <2>7, <2>8
  <1> QED BY <1>1, <1>2 DEF SegmentsMatchRings, Holds

(* Recovery reads the frames that are kept. *)
LEMMA DiskInvCrashSafe ==
    ASSUME DiskInv, Durable
    PROVE  CrashSafe
  <1>1. SUFFICES ASSUME NEW m \in hist.accepted \ hist.resolved PROVE Replayable(m)
    BY DEF CrashSafe
  <1>2. PICK f \in Frames : \E at \in Nat \X Nat : KeptAt(m, f, at)
    BY DEF DiskInv, AcceptedKept
  <1>3. PICK at \in Nat \X Nat : KeptAt(m, f, at)
    BY <1>2
  <1>4. PICK id, i : id = at[1] /\ i = at[2] /\ at = <<id, i>>
    OBVIOUS
  <1>5. /\ id \in DOMAIN files /\ i \in DOMAIN files[id] /\ files[id][i] = f
        /\ f.msg = m /\ f.seq > wmFile[f.signal] /\ (PowerLoss => i <= synced[id])
    BY <1>3, <1>4 DEF KeptAt, Holds, Safe
  <1>6. i \in DOMAIN Scanned(id)
    <2>1. files[id] \in Seq(Frames \union {Garbage}) /\ \A j \in DOMAIN files[id] : files[id][j] = Garbage => j = Len(files[id])
      BY <1>5 DEF DiskInv, Shapes, Files
    <2>2. DOMAIN Scanned(id) = {j \in DOMAIN files[id] : files[id][j] # Garbage}
      BY <2>1, DecodableFacts DEF Scanned
    <2> QED BY <1>5, <2>2, GarbageIsNone
  <1> QED BY <1>5, <1>6 DEF Replayable

(* All that was delivered under a number is one batch. *)
LEMMA DiskInvSequence ==
    ASSUME DiskInv
    PROVE  SeqSurvivesCrash
  BY DEF DiskInv, DeliveredKept, SeqSurvivesCrash, SeqNamesOneBatch

(* The state is well formed: no watermark is ahead of the numbers given out, and the writer's segments
   are files. *)
THEOREM DiskTypes == Spec => [](WholeWrites => TypeOK)
  BY DiskInvariant, DiskInvTypeOK, PTL

(* The slot of a batch that waits names the place of its frame, and while nothing has failed every
   segment is the active one or holds a frame above the watermark. *)
THEOREM SegmentsAndRingsMatch == Spec => [](WholeWrites => SegmentsMatchRings)
  BY DiskInvariant, DiskInvSegments, PTL

(* Crashes and shutdowns of the process never let the number of a delivered batch name another one. *)
THEOREM NumbersSurviveCrashes == Spec => [](WholeWrites => SeqSurvivesCrash)
  BY DiskInvariant, DiskInvSequence, PTL

(* A batch whose send returned Ok and that nothing has resolved is found by a recovery that starts at
   any instant: after a crash of the process always, after a loss of power with sync_on_write and when
   no sync of a full segment failed. *)
THEOREM AcceptedIsCrashSafe == Spec => [](WholeWrites /\ Durable => CrashSafe)
  BY DiskInvariant, DiskInvCrashSafe, PTL

-----------------------------------------------------------------------------
(* Acknowledgements, also where a write stops half-way                      *)

(* Frames, and what is left of a torn one. *)
AnyFrames == Frames \union {Garbage}

(* Segment files, with torn frames anywhere. *)
LooseFiles(F) ==
    /\ F = [id \in DOMAIN F |-> F[id]]
    /\ DOMAIN F \subseteq Nat \ {0} /\ IsFiniteSet(DOMAIN F)
    /\ \A id \in DOMAIN F : F[id] \in Seq(AnyFrames)

(* A disk with its active segment a, when n is the next id. *)
LooseDisk(F, W, a, n) ==
    /\ LooseFiles(F) /\ SealedIds(W) \subseteq DOMAIN F
    /\ a \in Nat /\ (a # 0 => a \in DOMAIN F \ SealedIds(W))
    /\ n \in Nat \ {0} /\ \A id \in DOMAIN F : id < n

(* The fields of the writer's locals and of the history, whatever is in them. *)
WriterShape(w) ==
    w = [phase |-> w.phase, todo |-> w.todo, done |-> w.done, wms |-> w.wms, dirty |-> w.dirty,
         failed |-> w.failed, active |-> w.active, sealed |-> w.sealed, next |-> w.next,
         persisted |-> w.persisted, staged |-> w.staged]

HistShape(h) ==
    h = [sent |-> h.sent, accepted |-> h.accepted, resolved |-> h.resolved, acked |-> h.acked,
         delivered |-> h.delivered, finalized |-> h.finalized]

(* What the writer has staged and written, and for which commands. *)
GroupInOrder(w) ==
    /\ w.phase \in {"idle", "write", "finish", "reply"} /\ w.dirty \in BOOLEAN /\ w.failed \in BOOLEAN
    /\ w.todo \subseteq Appends /\ w.done \subseteq Outcomes
    /\ w.wms \subseteq Updates /\ IsFiniteSet(w.wms) /\ (w.phase = "idle" => w.wms = {})
    /\ w.persisted \in Marks /\ w.staged \in Marks /\ AtMost(w.persisted, w.staged)
    /\ ~w.dirty \/ w.phase \in {"idle", "reply"} => w.staged = w.persisted
    /\ \A c \in w.wms :
        /\ w.phase \in {"write", "finish"} => AtMost(c.wm, w.staged)
        /\ w.phase = "reply" /\ ~w.failed => AtMost(c.wm, w.persisted)

RingsOK(R) == R = [g \in Signals |-> R[g]] /\ \A g \in Signals : RingOK(R[g])

CmdsOK(C) == C \subseteq Appends \union Updates /\ IsFiniteSet(C)

(* The segments are files while the process runs; nothing is active while it does not. *)
DiskShape ==
    /\ LooseFiles(files) /\ SealedIds(writer.sealed) \subseteq DOMAIN files
    /\ mode # "down" => LooseDisk(files, writer.sealed, writer.active, writer.next)
    /\ mode # "running" => writer.phase = "idle" /\ writer.active = 0

(* What keeps the watermark file at or above every acknowledgement, and the types that needs. *)
MarksInv ==
    /\ DiskShape /\ WriterShape(writer) /\ GroupInOrder(writer)
    /\ wmFile = writer.persisted /\ RingsOK(ring) /\ CmdsOK(cmds)
    /\ HistShape(hist) /\ hist.sent \in Nat /\ hist.acked \in Marks /\ AckDurable

LEMMA LooseWithout ==
    ASSUME NEW F, LooseFiles(F), NEW S
    PROVE  LooseFiles(Without(F, S)) /\ DOMAIN Without(F, S) = DOMAIN F \ S
  <1>1. PICK G : G = Without(F, S)
    OBVIOUS
  <1>2. DOMAIN G = DOMAIN F \ S /\ G = [id \in DOMAIN G |-> G[id]] /\ \A id \in DOMAIN G : G[id] = F[id]
    BY <1>1 DEF Without
  <1>3. IsFiniteSet(DOMAIN G)
    BY <1>2, FS_Subset DEF LooseFiles
  <1>4. LooseFiles(G)
    BY <1>2, <1>3 DEF LooseFiles
  <1> QED BY <1>1, <1>2, <1>4

LEMMA LooseWith ==
    ASSUME NEW F, LooseFiles(F), NEW x \in Nat \ {0}, NEW v \in Seq(AnyFrames)
    PROVE  LooseFiles(With(F, x, v)) /\ DOMAIN With(F, x, v) = DOMAIN F \union {x}
  <1>1. PICK G : G = With(F, x, v)
    OBVIOUS
  <1>2. /\ DOMAIN G = DOMAIN F \union {x} /\ G = [id \in DOMAIN G |-> G[id]] /\ G[x] = v
        /\ \A id \in DOMAIN F : id # x => G[id] = F[id]
    BY <1>1 DEF With
  <1>3. IsFiniteSet(DOMAIN G)
    BY <1>2, FS_AddElement, SMTT(30) DEF LooseFiles
  <1>4. LooseFiles(G)
    <2>1. \A id \in DOMAIN G : G[id] \in Seq(AnyFrames)
      BY <1>2 DEF LooseFiles
    <2>2. DOMAIN G \subseteq Nat \ {0}
      BY <1>2 DEF LooseFiles
    <2> QED BY <1>2, <1>3, <2>1, <2>2 DEF LooseFiles
  <1> QED BY <1>1, <1>2, <1>4

LEMMA LooseSeal ==
    ASSUME NEW d, NEW id, LooseFiles(d.files), SealedIds(d.sealed) \subseteq DOMAIN d.files, id \in DOMAIN d.files,
           NEW n \in Nat \ {0}, \A i \in DOMAIN d.files : i < n, NEW y, y = Seal(d, id)
    PROVE  LooseDisk(y.files, y.sealed, 0, n)
  <1> DEFINE new == d.sealed \union {[id |-> id, maxSeq |-> MaxSeqs(d.files[id])]}
             gone == Reclaimable(new, writer.persisted)
  <1>1. y.files = Without(d.files, gone) /\ y.sealed = {seg \in new : seg.id \notin gone}
    BY DEF Seal
  <1>2. \A seg \in new : seg.id \in DOMAIN d.files
    BY DEF SealedIds
  <1> HIDE DEF new, gone
  <1>3. LooseFiles(y.files) /\ DOMAIN y.files = DOMAIN d.files \ gone
    <2>1. PICK F : F = d.files
      OBVIOUS
    <2>2. LooseFiles(Without(F, gone)) /\ DOMAIN Without(F, gone) = DOMAIN F \ gone
      BY <2>1, LooseWithout
    <2> QED BY <1>1, <2>1, <2>2
  <1>4. SealedIds(y.sealed) \subseteq DOMAIN y.files
    BY <1>1, <1>2, <1>3 DEF SealedIds
  <1> QED BY <1>3, <1>4 DEF LooseDisk

(* write_encoded_frame, on all its ways out. *)
LEMMA LooseWrites ==
    ASSUME LooseDisk(files, writer.sealed, writer.active, writer.next), NEW c \in Appends
    PROVE  /\ LooseDisk(Rolled(c).files, Rolled(c).sealed, 0, NextId(c))
           /\ LooseDisk(Opened(c).files, Opened(c).sealed, Target(c), NextId(c))
           /\ Target(c) \in DOMAIN Opened(c).files
           /\ \A f \in AnyFrames :
                LooseDisk(Wrote(c, f).files, Wrote(c, f).sealed, Target(c), NextId(c))
           /\ LooseDisk(Seal(Wrote(c, EncodedFrame(c)), Target(c)).files,
                        Seal(Wrote(c, EncodedFrame(c)), Target(c)).sealed, 0, NextId(c))
           /\ \A ok \in BOOLEAN : Written(c, ok) \in Outcomes
  <1> DEFINE now == [files |-> files, synced |-> synced, sealed |-> writer.sealed]
  <1>1. now.files = files /\ now.sealed = writer.sealed
    OBVIOUS
  <1>2. /\ LooseFiles(files) /\ SealedIds(writer.sealed) \subseteq DOMAIN files /\ writer.active \in Nat
        /\ writer.active # 0 => writer.active \in DOMAIN files \ SealedIds(writer.sealed)
        /\ writer.next \in Nat \ {0} /\ \A id \in DOMAIN files : id < writer.next
    BY DEF LooseDisk
  <1>3. PICK r : r = Rolled(c)
    OBVIOUS
  <1>4. LooseDisk(r.files, r.sealed, 0, writer.next)
    <2>1. CASE Rolls(c)
      <3>1. r = Seal(now, writer.active) /\ writer.active \in DOMAIN files
        BY <1>2, <1>3, <2>1 DEF Rolled, Rolls
      <3> HIDE DEF now
      <3> QED BY <1>1, <1>2, <3>1, LooseSeal
    <2>2. CASE ~Rolls(c)
      <3>1. r = now
        BY <1>3, <2>2 DEF Rolled
      <3> QED BY <1>1, <1>2, <3>1 DEF LooseDisk
    <2> QED BY <2>1, <2>2
  <1>5. r = [files |-> r.files, synced |-> r.synced, sealed |-> r.sealed]
    BY <1>3 DEF Rolled, Seal
  <1>6. PICK a, n : a = Target(c) /\ n = NextId(c)
    OBVIOUS
  <1>7. a \in Nat \ {0} /\ n \in Nat \ {0} /\ writer.next <= n /\ a < n
    BY <1>2, <1>6 DEF Target, NextId, Opens
  <1>8. PICK e : e = Opened(c)
    OBVIOUS
  <1>9. LooseDisk(e.files, e.sealed, a, n)
    <2>1. CASE Opens(c)
      <3>1. a = writer.next /\ n = writer.next + 1
        BY <1>6, <2>1 DEF Target, NextId
      <3>2. PICK F, S : F = With(r.files, a, <<>>) /\ S = With(r.synced, a, 0)
        OBVIOUS
      <3>3. e = [files |-> F, synced |-> S, sealed |-> r.sealed]
        <4>1. e = [r EXCEPT !.files = F, !.synced = S]
          BY <1>3, <1>6, <1>8, <2>1, <3>2 DEF Opened
        <4>2. PICK x, y, z : r = [files |-> x, synced |-> y, sealed |-> z] /\ z = r.sealed
          BY <1>5
        <4>3. PICK q : q = [r EXCEPT !.files = F]
          OBVIOUS
        <4>4. q = [files |-> F, synced |-> y, sealed |-> z]
          BY <4>2, <4>3
        <4>5. [q EXCEPT !.synced = S] = [files |-> F, synced |-> S, sealed |-> z]
          BY <4>4
        <4> QED BY <4>1, <4>2, <4>3, <4>5
      <3>4. e.files = F /\ e.sealed = r.sealed
        BY <3>3
      <3>5. <<>> \in Seq(AnyFrames)
        OBVIOUS
      <3>6. LooseFiles(F) /\ DOMAIN F = DOMAIN r.files \union {a}
        BY <1>4, <1>7, <3>2, <3>5, LooseWith DEF LooseDisk
      <3>7. \A id \in DOMAIN r.files : id \in Nat /\ id < a
        BY <1>4, <3>1 DEF LooseDisk, LooseFiles
      <3>8. a \notin SealedIds(r.sealed) /\ SealedIds(r.sealed) \subseteq DOMAIN F
        BY <1>4, <1>7, <3>6, <3>7 DEF LooseDisk
      <3>9. \A id \in DOMAIN F : id < n
        BY <1>7, <3>1, <3>6, <3>7
      <3> QED BY <1>7, <3>4, <3>6, <3>8, <3>9 DEF LooseDisk
    <2>2. CASE ~Opens(c)
      <3>1. e = now /\ a = writer.active /\ n = writer.next
        BY <1>6, <1>8, <2>2 DEF Opened, Rolled, Opens, Target, NextId
      <3> QED BY <1>1, <1>2, <3>1 DEF LooseDisk
    <2> QED BY <2>1, <2>2
  <1>10. e = [files |-> e.files, synced |-> e.synced, sealed |-> e.sealed]
    <2>1. CASE Opens(c)
      <3>1. e = [r EXCEPT !.files = With(r.files, a, <<>>), !.synced = With(r.synced, a, 0)]
        BY <1>3, <1>6, <1>8, <2>1 DEF Opened
      <3>2. PICK F, S : F = With(r.files, a, <<>>) /\ S = With(r.synced, a, 0)
        OBVIOUS
      <3>3. PICK x, y, z : r = [files |-> x, synced |-> y, sealed |-> z]
        BY <1>5
      <3>4. PICK q : q = [r EXCEPT !.files = F]
        OBVIOUS
      <3>5. q = [files |-> F, synced |-> y, sealed |-> z]
        BY <3>3, <3>4
      <3>6. e = [q EXCEPT !.synced = S]
        BY <3>1, <3>2, <3>4
      <3>7. e = [files |-> F, synced |-> S, sealed |-> z]
        BY <3>5, <3>6
      <3> QED BY <3>7
    <2>2. CASE ~Opens(c)
      BY <1>3, <1>5, <1>8, <2>2 DEF Opened
    <2> QED BY <2>1, <2>2
  <1>11. a \in DOMAIN e.files /\ e.files[a] \in Seq(AnyFrames)
    BY <1>7, <1>9 DEF LooseDisk, LooseFiles
  <1>12. ASSUME NEW f \in AnyFrames, NEW w, w = Wrote(c, f)
         PROVE  /\ LooseDisk(w.files, w.sealed, a, n) /\ a \in DOMAIN w.files
    <2>1. PICK F : F = With(e.files, a, Append(e.files[a], f))
      OBVIOUS
    <2>2. w = [e EXCEPT !.files = F]
      BY <1>6, <1>8, <1>12, <2>1 DEF Wrote
    <2>3. PICK x, y, z : e = [files |-> x, synced |-> y, sealed |-> z] /\ z = e.sealed
      BY <1>10
    <2>4. w = [files |-> F, synced |-> y, sealed |-> z]
      BY <2>2, <2>3
    <2>5. w.files = F /\ w.sealed = e.sealed
      BY <2>3, <2>4
    <2>6. Append(e.files[a], f) \in Seq(AnyFrames)
      BY <1>11
    <2>7. LooseFiles(F) /\ DOMAIN F = DOMAIN e.files \union {a}
      BY <1>7, <1>9, <2>1, <2>6, LooseWith DEF LooseDisk
    <2>8. DOMAIN F = DOMAIN e.files
      BY <1>11, <2>7
    <2> QED BY <1>7, <1>9, <2>5, <2>7, <2>8 DEF LooseDisk
  <1>13. EncodedFrame(c) \in AnyFrames
    BY DEF EncodedFrame, AnyFrames, Frames, Appends
  <1>14. PICK w : w = Wrote(c, EncodedFrame(c))
    OBVIOUS
  <1>15. LooseDisk(w.files, w.sealed, a, n) /\ a \in DOMAIN w.files
    BY <1>12, <1>13, <1>14
  <1>16. PICK y : y = Seal(w, a)
    OBVIOUS
  <1>17. LooseDisk(y.files, y.sealed, 0, n)
    BY <1>15, <1>16, LooseSeal DEF LooseDisk
  <1>18. LooseDisk(r.files, r.sealed, 0, n)
    BY <1>4, <1>7 DEF LooseDisk, LooseFiles
  <1>19. ASSUME NEW ok \in BOOLEAN PROVE Written(c, ok) \in Outcomes
    <2>1. PICK s \in Seq(AnyFrames) : s = e.files[a]
      BY <1>11
    <2>2. OffsetIn(s) \in Nat
      <3>1. IsFiniteSet(1..Len(s)) /\ DOMAIN s = 1..Len(s)
        BY FS_Interval, LenProperties
      <3>2. PICK B : B = {i \in DOMAIN s : s[i] # Garbage}
        OBVIOUS
      <3>3. IsFiniteSet(B)
        BY <3>1, <3>2, FS_Subset
      <3>4. Cardinality(B) \in Nat
        BY <3>3, FS_CardinalityType
      <3> QED BY <3>2, <3>4 DEF OffsetIn
    <2>3. PICK k \in Nat : k = OffsetIn(s)
      BY <2>2
    <2>4. Written(c, ok) = [cmd |-> c, ok |-> ok, at |-> <<a, k>>] /\ <<a, k>> \in Nat \X Nat
      BY <1>6, <1>7, <1>8, <2>1, <2>3 DEF Written
    <2> QED BY <2>4 DEF Outcomes
  <1> QED BY <1>3, <1>6, <1>8, <1>9, <1>11, <1>12, <1>14, <1>16, <1>17, <1>18, <1>19

(* A step that leaves the segments alone. *)
LEMMA MarksStep ==
    ASSUME MarksInv, files' = files, mode' = mode, WriterShape(writer'), GroupInOrder(writer'),
           writer'.active = writer.active, writer'.sealed = writer.sealed, writer'.next = writer.next,
           mode # "running" => writer'.phase = "idle",
           wmFile' = writer'.persisted, AtMost(wmFile, wmFile'), RingsOK(ring'), CmdsOK(cmds'),
           HistShape(hist'), hist'.sent \in Nat, hist'.acked = hist.acked
    PROVE  MarksInv'
  <1>1. DiskShape'
    BY DEF MarksInv, DiskShape
  <1>2. wmFile \in Marks /\ wmFile' \in Marks /\ hist.acked \in Marks
    BY DEF MarksInv, GroupInOrder
  <1>3. AckDurable'
    BY <1>2 DEF MarksInv, AckDurable, AtMost, Marks
  <1> QED BY <1>1, <1>2, <1>3 DEF MarksInv

(* What MarksInv says of the types. *)
LEMMA MarksTypes ==
    ASSUME MarksInv
    PROVE  /\ WriterShape(writer) /\ GroupInOrder(writer) /\ HistShape(hist) /\ RingsOK(ring) /\ CmdsOK(cmds)
           /\ wmFile = writer.persisted /\ writer.persisted \in Marks /\ writer.staged \in Marks
           /\ hist.acked \in Marks /\ hist.sent \in Nat
           /\ AtMost(wmFile, wmFile) /\ (mode # "running" => writer.phase = "idle")
           /\ \A g \in Signals : RingOK(ring[g]) /\ ring[g].committed \in Nat
  <1>1. /\ WriterShape(writer) /\ GroupInOrder(writer) /\ HistShape(hist) /\ RingsOK(ring) /\ CmdsOK(cmds)
        /\ wmFile = writer.persisted /\ hist.acked \in Marks /\ hist.sent \in Nat
        /\ (mode # "running" => writer.phase = "idle")
    BY DEF MarksInv, DiskShape
  <1>2. writer.persisted \in Marks /\ writer.staged \in Marks
    BY <1>1 DEF GroupInOrder
  <1>3. AtMost(wmFile, wmFile)
    BY <1>1, <1>2 DEF AtMost, Marks
  <1>4. \A g \in Signals : RingOK(ring[g]) /\ ring[g].committed \in Nat
    BY <1>1 DEF RingsOK, RingOK, Rings
  <1> QED BY <1>1, <1>2, <1>3, <1>4

(* A ring that is replaced. *)
LEMMA RingsWith ==
    ASSUME RingsOK(ring), NEW g \in Signals, NEW q, RingOK(q), ring' = [ring EXCEPT ![g] = q]
    PROVE  RingsOK(ring')
  BY DEF RingsOK

(* A command that is added. *)
LEMMA CmdsWith ==
    ASSUME CmdsOK(cmds), NEW c \in Appends \union Updates, cmds' = cmds \union {c}
    PROVE  CmdsOK(cmds')
  BY FS_AddElement DEF CmdsOK

(* The watermark of rings. *)
LEMMA RingMarks ==
    ASSUME NEW R, RingsOK(R), NEW w, w = [g \in Signals |-> R[g].committed]
    PROVE  w \in Marks
  <1>1. \A g \in Signals : R[g].committed \in Nat
    BY DEF RingsOK, RingOK, Rings
  <1> QED BY <1>1 DEF Marks

LEMMA SendMarks ==
    ASSUME MarksInv, NEW g \in Signals, Send(g)
    PROVE  MarksInv'
  <1> DEFINE n == ring[g].next
             m == hist.sent + 1
             slot == [state |-> "Reserved", msg |-> m, at |-> <<0, 0>>]
             q == PutSlot([ring[g] EXCEPT !.next = n + 1], n, slot)
  <1>0. PICK c : c = [kind |-> "append", signal |-> g, seq |-> n, msg |-> m]
    OBVIOUS
  <1>1. /\ UNCHANGED <<files, wmFile, writer, mode>>
        /\ cmds' = cmds \union {c} /\ hist' = [hist EXCEPT !.sent = m]
    BY <1>0 DEF Send
  <1>2. ring' = [ring EXCEPT ![g] = q]
    BY MarksTypes DEF Send, RingsOK
  <1>3. m \in Nat /\ n \in Nat \ {0} /\ RingOK(ring[g])
    BY MarksTypes DEF RingOK, Rings
  <1>4. slot \in Slots
    BY <1>3 DEF Slots
  <1>5. c \in Appends
    BY <1>0, <1>3 DEF Appends
  <1> HIDE DEF q, slot
  <1>6. RingOK(q)
    BY <1>3, <1>4, PutFacts DEF q
  <1>7. RingsOK(ring') /\ CmdsOK(cmds')
    BY <1>1, <1>2, <1>5, <1>6, MarksTypes, RingsWith, CmdsWith
  <1> HIDE DEF m, n
  <1>8. HistShape(hist') /\ hist'.sent = m /\ hist'.acked = hist.acked
    BY <1>1, MarksTypes DEF HistShape
  <1> QED BY <1>1, <1>3, <1>7, <1>8, MarksTypes, MarksStep

LEMMA AckMarks ==
    ASSUME MarksInv, NEW g \in Signals, NEW s, Ack(g, s)
    PROVE  MarksInv'
  <1> DEFINE q == DropSlots(ring[g], {s})
  <1>1. PICK R, D : hist' = [hist EXCEPT !.resolved = R, !.delivered = D]
    BY DEF Ack
  <1>2. UNCHANGED <<files, wmFile, cmds, writer, mode>>
    BY DEF Ack
  <1>3. ring' = [ring EXCEPT ![g] = q]
    BY MarksTypes DEF Ack, RingsOK
  <1>4. RingOK(q)
    BY MarksTypes, DropFacts
  <1> HIDE DEF q
  <1>5. RingsOK(ring')
    BY <1>3, <1>4, MarksTypes, RingsWith
  <1>6. HistShape(hist') /\ hist'.sent = hist.sent /\ hist'.acked = hist.acked
    BY <1>1, MarksTypes DEF HistShape
  <1> QED BY <1>2, <1>5, <1>6, MarksTypes, MarksStep

LEMMA SendWatermarkMarks ==
    ASSUME MarksInv, SendWatermark
    PROVE  MarksInv'
  <1>1. PICK c : c = [kind |-> "update", ack |-> TRUE, wm |-> Watermark]
    OBVIOUS
  <1>2. UNCHANGED <<files, wmFile, ring, writer, mode, hist>> /\ cmds' = cmds \union {c}
    BY <1>1 DEF SendWatermark
  <1>3. Watermark \in Marks
    BY MarksTypes, RingMarks DEF Watermark
  <1>4. c \in Updates
    BY <1>1, <1>3 DEF Updates
  <1>5. CmdsOK(cmds')
    BY <1>2, <1>4, MarksTypes, CmdsWith
  <1> QED BY <1>2, <1>5, MarksTypes, MarksStep

LEMMA FinalizeMarks ==
    ASSUME MarksInv, FinalizeShutdown
    PROVE  MarksInv'
  <1> DEFINE r(discard) == [g \in Signals |-> IF discard THEN DropSlots(ring[g], DOMAIN ring[g].slots)
                                                         ELSE ring[g]]
             dropped == UNION {{ring[g].slots[s].msg : s \in DOMAIN ring[g].slots} : g \in Signals}
  <1>1. UNCHANGED <<files, wmFile, writer, mode>>
    BY SMTT(60) DEF FinalizeShutdown
  <1>2. PICK discard \in BOOLEAN :
            /\ ring' = r(discard)
            /\ cmds' = cmds \union {FlushWatermark([g \in Signals |-> r(discard)[g].committed])}
            /\ hist' = [hist EXCEPT !.finalized = @ + 1,
                                    !.resolved = IF discard THEN @ \union dropped ELSE @]
    BY DEF FinalizeShutdown
  <1>3. PICK k, T : hist' = [hist EXCEPT !.finalized = k, !.resolved = T]
    BY <1>2
  <1>4. RingsOK(ring')
    <2>1. ASSUME NEW g \in Signals PROVE RingOK(ring'[g])
      <3>1. ring'[g] = IF discard THEN DropSlots(ring[g], DOMAIN ring[g].slots) ELSE ring[g]
        BY <1>2
      <3>2. RingOK(DropSlots(ring[g], DOMAIN ring[g].slots)) /\ RingOK(ring[g])
        BY MarksTypes, DropFacts
      <3> QED BY <3>1, <3>2
    <2>2. ring' = [g \in Signals |-> ring'[g]]
      BY <1>2
    <2> QED BY <2>1, <2>2 DEF RingsOK
  <1>5. PICK w : w = [g \in Signals |-> ring'[g].committed]
    OBVIOUS
  <1>6. w \in Marks
    BY <1>4, <1>5, RingMarks
  <1>7. PICK c : c = FlushWatermark(w)
    OBVIOUS
  <1>8. c \in Updates /\ cmds' = cmds \union {c}
    BY <1>2, <1>5, <1>6, <1>7 DEF FlushWatermark, Updates
  <1>9. CmdsOK(cmds')
    BY <1>8, MarksTypes, CmdsWith
  <1>10. HistShape(hist') /\ hist'.sent = hist.sent /\ hist'.acked = hist.acked
    BY <1>3, MarksTypes DEF HistShape
  <1> QED BY <1>1, <1>4, <1>9, <1>10, MarksTypes, MarksStep


LEMMA TakeGroupMarks ==
    ASSUME MarksInv, TakeGroup
    PROVE  MarksInv'
  <1>1. /\ mode = "running" /\ writer.phase = "idle"
        /\ UNCHANGED <<files, wmFile, ring, mode, hist>>
    BY SMTT(60) DEF TakeGroup
  <1>2. PICK G \in SUBSET cmds :
            LET wms    == {c \in G : c.kind # "append"}
                staged == Merge(writer.staged, wms)
            IN  /\ G # {}
                /\ cmds' = cmds \ G
                /\ writer' = [writer EXCEPT
                                !.phase = "write", !.todo = G \ wms, !.wms = wms, !.staged = staged,
                                !.dirty = staged # writer.staged \/ \E c \in wms : c.kind = "flush"]
    BY DEF TakeGroup
  <1> DEFINE U == {c \in G : c.kind # "append"}
             T == G \ U
             w == Merge(writer.staged, U)
             dirty == w # writer.staged \/ \E c \in U : c.kind = "flush"
  <1>3. U \subseteq Updates /\ T \subseteq Appends /\ IsFiniteSet(U) /\ CmdsOK(cmds')
    <2>1. (\A c \in Appends : c.kind = "append") /\ (\A c \in Updates : c.kind # "append")
      BY DEF Appends, Updates
    <2>2. CmdsOK(cmds)
      BY MarksTypes
    <2>3. IsFiniteSet(U) /\ IsFiniteSet(cmds \ G)
      BY <2>2, FS_Subset DEF CmdsOK
    <2> QED BY <1>2, <2>1, <2>2, <2>3 DEF CmdsOK
  <1> HIDE DEF U
  <1>4. w \in Marks /\ AtMost(writer.staged, w) /\ \A c \in U : AtMost(c.wm, w)
    BY <1>3, MarksTypes, MergeFacts
  <1>5. writer' = [writer EXCEPT !.phase = "write", !.todo = T, !.wms = U, !.staged = w, !.dirty = dirty]
    BY <1>2 DEF U
  <1>6. dirty \in BOOLEAN /\ (~dirty => w = writer.staged) /\ writer.staged = writer.persisted
    BY <1>1, MarksTypes DEF GroupInOrder
  <1> HIDE DEF T, w, dirty
  <1>7. /\ WriterShape(writer') /\ writer'.phase = "write" /\ writer'.todo = T /\ writer'.wms = U
        /\ writer'.staged = w /\ writer'.dirty = dirty /\ writer'.done = writer.done
        /\ writer'.failed = writer.failed /\ writer'.active = writer.active /\ writer'.sealed = writer.sealed
        /\ writer'.next = writer.next /\ writer'.persisted = writer.persisted
    BY <1>5, MarksTypes DEF WriterShape
  <1>8. GroupInOrder(writer')
    <2>1. writer.failed \in BOOLEAN /\ writer.done \subseteq Outcomes /\ writer.persisted \in Marks
      BY MarksTypes DEF GroupInOrder
    <2> QED BY <1>3, <1>4, <1>6, <1>7, <2>1 DEF GroupInOrder
  <1> QED BY <1>1, <1>3, <1>7, <1>8, MarksTypes, MarksStep

LEMMA SyncGroupMarks ==
    ASSUME MarksInv, SyncGroup
    PROVE  MarksInv'
  <1>1. writer.phase = "write" /\ UNCHANGED <<files, wmFile, ring, cmds, mode, hist>>
    BY DEF SyncGroup
  <1>2. /\ WriterShape(writer') /\ writer'.phase = "finish" /\ writer'.todo = writer.todo
        /\ writer'.done = writer.done /\ writer'.failed \in BOOLEAN
        /\ writer'.wms = writer.wms /\ writer'.dirty = writer.dirty /\ writer'.active = writer.active
        /\ writer'.sealed = writer.sealed /\ writer'.next = writer.next
        /\ writer'.persisted = writer.persisted /\ writer'.staged = writer.staged
    <2>1. \/ writer' = [writer EXCEPT !.phase = "finish"]
          \/ writer' = [writer EXCEPT !.phase = "finish", !.failed = TRUE]
      BY DEF SyncGroup
    <2>2. writer.failed \in BOOLEAN
      BY MarksTypes DEF GroupInOrder
    <2> QED BY <2>1, <2>2, MarksTypes DEF WriterShape
  <1>3. GroupInOrder(writer')
    BY <1>1, <1>2, MarksTypes DEF GroupInOrder
  <1>4. mode = "running"
    BY <1>1, MarksTypes
  <1> QED BY <1>1, <1>2, <1>3, <1>4, MarksTypes, MarksStep

LEMMA FinishMarks ==
    ASSUME MarksInv, NEW d \in writer.done, Finish(d)
    PROVE  MarksInv'
  <1> DEFINE g == d.cmd.signal
             s == d.cmd.seq
             ok == Succeeded(d)
             held == s \in DOMAIN ring[g].slots
  <1>1. writer.phase = "finish" /\ UNCHANGED <<files, wmFile, mode>>
    BY DEF Finish
  <1>2. PICK D, A : /\ writer' = [writer EXCEPT !.done = D] /\ D \subseteq writer.done
                    /\ hist' = [hist EXCEPT !.accepted = A]
    BY ZenonT(60) DEF Finish
  <1>3. /\ WriterShape(writer') /\ writer'.done = D
        /\ writer'.phase = writer.phase /\ writer'.todo = writer.todo /\ writer'.wms = writer.wms
        /\ writer'.dirty = writer.dirty /\ writer'.failed = writer.failed
        /\ writer'.active = writer.active /\ writer'.sealed = writer.sealed /\ writer'.next = writer.next
        /\ writer'.persisted = writer.persisted /\ writer'.staged = writer.staged
    BY <1>2, MarksTypes DEF WriterShape
  <1>4. GroupInOrder(writer')
    BY <1>1, <1>2, <1>3, MarksTypes DEF GroupInOrder
  <1>5. HistShape(hist') /\ hist'.sent = hist.sent /\ hist'.acked = hist.acked
    BY <1>2, MarksTypes DEF HistShape
  <1>6. g \in Signals /\ d.at \in Nat \X Nat
    <2>1. d \in Outcomes
      BY MarksTypes DEF GroupInOrder
    <2> QED BY <2>1 DEF Outcomes, Appends
  <1>7. RingsOK(ring')
    <2>1. RingsOK(ring) /\ RingOK(ring[g])
      BY <1>6, MarksTypes
    <2>2. CASE ~held
      BY <2>1, <2>2 DEF Finish
    <2>3. CASE held /\ ~ok
      <3>1. PICK q : q = DropSlots(ring[g], {s})
        OBVIOUS
      <3>2. ring' = [ring EXCEPT ![g] = q]
        BY <1>6, <2>1, <2>3, <3>1 DEF Finish, RingsOK
      <3>3. RingOK(q)
        BY <2>1, <3>1, DropFacts
      <3> QED BY <1>6, <2>1, <3>2, <3>3, RingsWith
    <2>4. CASE held /\ ok
      <3>1. PICK r : r = ring[g]
        OBVIOUS
      <3>2. PICK slot : slot = [r.slots[s] EXCEPT !.state = "Queued", !.at = d.at]
        OBVIOUS
      <3>3. PICK z : z = [r.slots EXCEPT ![s] = slot]
        OBVIOUS
      <3>4. PICK q : q = [r EXCEPT !.slots = z]
        OBVIOUS
      <3>5. /\ r \in Rings /\ r.committed < r.next /\ s \in DOMAIN r.slots
            /\ \A i \in DOMAIN r.slots : r.committed < i /\ i < r.next
        BY <2>1, <2>4, <3>1 DEF RingOK
      <3>6. PICK S \in SUBSET Nat : r.slots \in [S -> Slots]
        BY <3>5 DEF Rings
      <3>7. slot \in Slots
        <4>1. r.slots[s] \in Slots
          BY <3>5, <3>6
        <4> QED BY <1>6, <3>2, <4>1 DEF Slots
      <3>8. z \in [S -> Slots] /\ DOMAIN z = DOMAIN r.slots
        BY <3>3, <3>6, <3>7
      <3>9. q \in Rings /\ q.slots = z /\ q.next = r.next /\ q.committed = r.committed
        <4>1. z \in UNION {[Y -> Slots] : Y \in SUBSET Nat}
          BY <3>8
        <4> QED BY <3>4, <3>5, <4>1 DEF Rings
      <3>10. RingOK(q)
        BY <3>5, <3>8, <3>9 DEF RingOK
      <3>11. ring' = [ring EXCEPT ![g] = q]
        <4>1. ring' = [ring EXCEPT ![g].slots[s] = [@ EXCEPT !.state = "Queued", !.at = d.at]]
          BY <2>4 DEF Finish
        <4> QED BY <1>6, <2>1, <3>1, <3>2, <3>3, <3>4, <4>1 DEF RingsOK
      <3> QED BY <1>6, <2>1, <3>10, <3>11, RingsWith
    <2> QED BY <2>2, <2>3, <2>4
  <1>8. CmdsOK(cmds')
    <2>1. CASE cmds' = cmds
      BY <2>1, MarksTypes
    <2>2. CASE cmds' # cmds
      <3>1. PICK w : w = [h \in Signals |-> ring'[h].committed]
        OBVIOUS
      <3>2. PICK c : c = [kind |-> "update", ack |-> FALSE, wm |-> w]
        OBVIOUS
      <3>3. w \in Marks
        BY <1>7, <3>1, RingMarks
      <3>4. c \in Updates
        BY <3>2, <3>3 DEF Updates
      <3>5. cmds' = cmds \union {c}
        BY <2>2, <3>1, <3>2 DEF Finish
      <3> QED BY <3>4, <3>5, MarksTypes, CmdsWith
    <2> QED BY <2>1, <2>2
  <1>9. mode = "running"
    BY <1>1, MarksTypes
  <1> QED BY <1>1, <1>3, <1>4, <1>5, <1>7, <1>8, <1>9, MarksTypes, MarksStep

LEMMA WriteWatermarkMarks ==
    ASSUME MarksInv, WriteWatermark
    PROVE  MarksInv'
  <1>1. writer.phase = "finish" /\ UNCHANGED <<files, ring, cmds, mode, hist>>
    BY DEF WriteWatermark
  <1>2. /\ WriterShape(writer') /\ writer'.phase = "reply" /\ writer'.todo = writer.todo
        /\ writer'.done = writer.done /\ writer'.failed \in BOOLEAN
        /\ writer'.wms = writer.wms /\ writer'.dirty = writer.dirty /\ writer'.active = writer.active
        /\ writer'.sealed = writer.sealed /\ writer'.next = writer.next
        /\ writer'.staged = writer'.persisted
        /\ \/ /\ ~writer.dirty /\ writer'.persisted = writer.staged /\ wmFile' = writer.staged
           \/ /\ writer'.persisted = writer.staged /\ wmFile' = writer.staged
           \/ /\ writer'.persisted = writer.persisted /\ wmFile' = wmFile /\ writer'.failed
    <2>1. (~writer.dirty => writer.staged = writer.persisted) /\ writer.failed \in BOOLEAN
      BY MarksTypes DEF GroupInOrder
    <2>2. CASE ~writer.dirty /\ writer' = [writer EXCEPT !.phase = "reply", !.failed = FALSE] /\ wmFile' = wmFile
      BY <2>1, <2>2, MarksTypes DEF WriterShape
    <2>3. CASE /\ writer.dirty /\ ~writer.failed /\ wmFile' = writer.staged
               /\ writer' = [writer EXCEPT !.phase = "reply", !.persisted = writer.staged]
      BY <2>1, <2>3, MarksTypes DEF WriterShape
    <2>4. CASE /\ writer.dirty /\ wmFile' = wmFile
               /\ writer' = [writer EXCEPT !.phase = "reply", !.failed = TRUE, !.staged = writer.persisted]
      BY <2>1, <2>4, MarksTypes DEF WriterShape
    <2> QED BY <2>2, <2>3, <2>4 DEF WriteWatermark, Restaged
  <1>3. wmFile' = writer'.persisted /\ AtMost(wmFile, wmFile') /\ writer'.persisted \in Marks
    BY <1>2, MarksTypes DEF GroupInOrder
  <1>4. AtMost(writer'.persisted, writer'.staged)
    BY <1>2, <1>3 DEF AtMost, Marks
  <1>5. GroupInOrder(writer')
    BY <1>1, <1>2, <1>3, <1>4, MarksTypes DEF GroupInOrder
  <1>6. mode = "running"
    BY <1>1, MarksTypes
  <1> QED BY <1>1, <1>2, <1>3, <1>5, <1>6, MarksTypes, MarksStep


(* A write that ends with the disk e, the active segment a and the next id i. *)
LEMMA WriteMarks ==
    ASSUME MarksInv, writer.phase = "write", NEW c \in writer.todo, NEW e, NEW a, NEW i, NEW ok \in BOOLEAN,
           LooseDisk(e.files, e.sealed, a, i), Written(c, ok) \in Outcomes, WriteEnds(c, e, a, i, ok),
           UNCHANGED <<wmFile, ring, cmds, mode, hist>>
    PROVE  MarksInv'
  <1>1. PICK T, D : T = writer.todo \ {c} /\ D = writer.done \union {Written(c, ok)}
    OBVIOUS
  <1>2. T \subseteq Appends /\ D \subseteq Outcomes
    BY <1>1, MarksTypes DEF GroupInOrder
  <1>3. writer' = [writer EXCEPT !.todo = T, !.done = D, !.sealed = e.sealed, !.active = a, !.next = i]
    BY <1>1 DEF WriteEnds
  <1>4. PICK W : W = e.sealed
    OBVIOUS
  <1>5. /\ WriterShape(writer') /\ writer'.phase = "write" /\ writer'.wms = writer.wms
        /\ writer'.dirty = writer.dirty /\ writer'.failed = writer.failed
        /\ writer'.persisted = writer.persisted /\ writer'.staged = writer.staged
        /\ writer'.todo = T /\ writer'.done = D
        /\ writer'.sealed = W /\ writer'.active = a /\ writer'.next = i
    BY <1>3, <1>4, MarksTypes DEF WriterShape
  <1>6. GroupInOrder(writer')
    BY <1>2, <1>5, MarksTypes DEF GroupInOrder
  <1>7. mode = "running" /\ files' = e.files
    BY MarksTypes DEF WriteEnds
  <1>8. DiskShape'
    BY <1>4, <1>5, <1>7 DEF DiskShape, LooseDisk
  <1>9. AckDurable'
    BY DEF MarksInv, AckDurable
  <1> QED BY <1>5, <1>6, <1>8, <1>9 DEF MarksInv

LEMMA LooseInactive ==
    ASSUME NEW F, NEW W, NEW a, NEW i, LooseDisk(F, W, a, i)
    PROVE  LooseDisk(F, W, 0, i)
  BY DEF LooseDisk

LEMMA WriteFrameMarks ==
    ASSUME MarksInv, NEW c \in writer.todo, WriteFrame(c)
    PROVE  MarksInv'
  <1> DEFINE f == EncodedFrame(c)
             a == Target(c)
             i == NextId(c)
             z == Wrote(c, f)
             now == [files |-> files, synced |-> synced, sealed |-> writer.sealed]
             frame == UNCHANGED <<wmFile, ring, cmds, mode, hist>>
  <1>1. writer.phase = "write" /\ frame
    BY DEF WriteFrame
  <1>2. mode = "running"
    BY <1>1, MarksTypes
  <1>3. LooseDisk(files, writer.sealed, writer.active, writer.next) /\ c \in Appends
    BY <1>2, MarksTypes DEF MarksInv, DiskShape, GroupInOrder
  <1>4. /\ LooseDisk(Rolled(c).files, Rolled(c).sealed, 0, i)
        /\ LooseDisk(Opened(c).files, Opened(c).sealed, a, i)
        /\ \A x \in AnyFrames : LooseDisk(Wrote(c, x).files, Wrote(c, x).sealed, a, i)
        /\ LooseDisk(Seal(z, a).files, Seal(z, a).sealed, 0, i)
        /\ \A ok \in BOOLEAN : Written(c, ok) \in Outcomes
    BY <1>3, LooseWrites
  <1>5. f \in AnyFrames /\ Garbage \in AnyFrames
    BY <1>3 DEF EncodedFrame, AnyFrames, Frames, Appends
  <1>6. LooseDisk(z.files, z.sealed, a, i) /\ LooseDisk(Wrote(c, Garbage).files, Wrote(c, Garbage).sealed, a, i)
    BY <1>4, <1>5
  <1>7. LooseDisk(z.files, z.sealed, 0, i)
    BY <1>6, LooseInactive
  <1>8. LooseDisk(now.files, now.sealed, 0, writer.next)
    BY <1>3, LooseInactive
  <1> HIDE DEF f, a, i, z, now
  <1>9. \/ WriteEnds(c, z, a, i, TRUE) \/ WriteEnds(c, Seal(z, a), 0, i, TRUE)
        \/ WriteEnds(c, now, 0, writer.next, FALSE) \/ WriteEnds(c, Rolled(c), 0, i, FALSE)
        \/ WriteEnds(c, Opened(c), a, i, FALSE) \/ WriteEnds(c, Wrote(c, Garbage), a, i, FALSE)
        \/ WriteEnds(c, z, 0, i, FALSE)
    BY DEF WriteFrame, f, a, i, z, now
  <1>10. CASE WriteEnds(c, z, a, i, TRUE)
    BY <1>1, <1>4, <1>6, <1>10, WriteMarks
  <1>11. CASE WriteEnds(c, Seal(z, a), 0, i, TRUE)
    BY <1>1, <1>4, <1>11, WriteMarks
  <1>12. CASE WriteEnds(c, now, 0, writer.next, FALSE)
    BY <1>1, <1>4, <1>8, <1>12, WriteMarks
  <1>13. CASE WriteEnds(c, Rolled(c), 0, i, FALSE)
    BY <1>1, <1>4, <1>13, WriteMarks
  <1>14. CASE WriteEnds(c, Opened(c), a, i, FALSE)
    BY <1>1, <1>4, <1>14, WriteMarks
  <1>15. CASE WriteEnds(c, Wrote(c, Garbage), a, i, FALSE)
    BY <1>1, <1>4, <1>6, <1>15, WriteMarks
  <1>16. CASE WriteEnds(c, z, 0, i, FALSE)
    BY <1>1, <1>4, <1>7, <1>16, WriteMarks
  <1> QED BY <1>9, <1>10, <1>11, <1>12, <1>13, <1>14, <1>15, <1>16

LEMMA CollectMarks ==
    ASSUME MarksInv, CollectAndReply
    PROVE  MarksInv'
  <1> DEFINE gone == IF writer.dirty /\ ~writer.failed
                     THEN Reclaimable(writer.sealed, writer.persisted) ELSE {}
             acks == {c \in writer.wms : c.ack}
             left == {seg \in writer.sealed : seg.id \notin gone}
             told == IF writer.failed THEN hist.acked ELSE Merge(hist.acked, acks)
  <1>1. /\ writer.phase = "reply" /\ files' = Without(files, gone)
        /\ UNCHANGED <<wmFile, ring, cmds, mode>>
    BY DEF CollectAndReply
  <1>2. mode = "running"
    BY <1>1, MarksTypes
  <1>3. gone \subseteq SealedIds(writer.sealed)
    BY DEF Reclaimable, SealedIds
  <1>4. writer' = [writer EXCEPT !.phase = "idle", !.wms = {}, !.dirty = FALSE, !.failed = FALSE, !.sealed = left]
    BY DEF CollectAndReply
  <1>5. hist' = [hist EXCEPT !.acked = told]
    BY MarksTypes DEF CollectAndReply, HistShape
  <1>6. told \in Marks /\ AtMost(told, wmFile)
    <2>1. AtMost(hist.acked, wmFile)
      BY DEF MarksInv, AckDurable, AtMost
    <2>2. CASE writer.failed
      BY <2>1, <2>2, MarksTypes
    <2>3. CASE ~writer.failed
      <3>1. acks \in SUBSET Updates /\ acks \subseteq writer.wms /\ IsFiniteSet(acks)
        BY MarksTypes, FS_Subset DEF GroupInOrder
      <3>2. \A c \in writer.wms : AtMost(c.wm, wmFile)
        BY <1>1, <2>3, MarksTypes DEF GroupInOrder
      <3> HIDE DEF acks
      <3>3. PICK w : w = Merge(hist.acked, acks)
        OBVIOUS
      <3>4. w \in Marks /\ \A g \in Signals : w[g] = hist.acked[g] \/ \E c \in acks : w[g] = c.wm[g]
        BY <3>1, <3>3, MarksTypes, MergeFacts
      <3>5. AtMost(w, wmFile)
        BY <2>1, <3>1, <3>2, <3>4 DEF AtMost
      <3> QED BY <2>3, <3>3, <3>4, <3>5
    <2> QED BY <2>2, <2>3
  <1>7. LooseFiles(files) /\ LooseDisk(files, writer.sealed, writer.active, writer.next)
    BY <1>2 DEF MarksInv, DiskShape
  <1> HIDE DEF gone, told
  <1>8. LooseFiles(files') /\ DOMAIN files' = DOMAIN files \ gone
    BY <1>1, <1>7, LooseWithout
  <1>9. SealedIds(left) \subseteq DOMAIN files' /\ SealedIds(left) \subseteq SealedIds(writer.sealed)
    BY <1>7, <1>8 DEF SealedIds, LooseDisk
  <1> HIDE DEF left
  <1>10. LooseDisk(files', left, writer.active, writer.next)
    BY <1>3, <1>7, <1>8, <1>9 DEF LooseDisk
  <1>11. /\ WriterShape(writer') /\ writer'.phase = "idle" /\ writer'.todo = writer.todo
         /\ writer'.done = writer.done /\ writer'.failed = FALSE
         /\ writer'.wms = {} /\ writer'.dirty = FALSE /\ writer'.active = writer.active
         /\ writer'.sealed = left /\ writer'.next = writer.next
         /\ writer'.staged = writer.staged /\ writer'.persisted = writer.persisted
    BY <1>4, MarksTypes DEF WriterShape
  <1>12. GroupInOrder(writer')
    BY <1>1, <1>11, MarksTypes, FS_EmptySet DEF GroupInOrder
  <1>13. DiskShape'
    BY <1>1, <1>2, <1>8, <1>9, <1>10, <1>11 DEF DiskShape
  <1>14. HistShape(hist') /\ hist'.sent = hist.sent /\ hist'.acked = told
    BY <1>5, MarksTypes DEF HistShape
  <1>15. AckDurable'
    BY <1>1, <1>6, <1>14 DEF AckDurable, AtMost
  <1> QED BY <1>1, <1>6, <1>11, <1>12, <1>13, <1>14, <1>15, MarksTypes DEF MarksInv


(* The writer thread before its first command. *)
LEMMA IdleMarks ==
    ASSUME NEW wm \in Marks, NEW n, NEW W, NEW w, w = IdleWriter(wm, n, W)
    PROVE  /\ WriterShape(w) /\ GroupInOrder(w) /\ w.phase = "idle" /\ w.active = 0 /\ w.persisted = wm
           /\ w.sealed = W /\ w.next = n
  <1>1. /\ WriterShape(w) /\ w.phase = "idle" /\ w.todo = {} /\ w.done = {} /\ w.wms = {} /\ w.dirty = FALSE
        /\ w.failed = FALSE /\ w.active = 0 /\ w.sealed = W /\ w.next = n /\ w.persisted = wm /\ w.staged = wm
    BY DEF IdleWriter, WriterShape
  <1>2. AtMost(wm, wm)
    BY DEF AtMost, Marks
  <1> QED BY <1>1, <1>2, FS_EmptySet DEF GroupInOrder

LEMMA StopMarks ==
    ASSUME MarksInv, Stop, LooseFiles(files')
    PROVE  MarksInv'
  <1>1. /\ mode' = "down" /\ cmds' = {} /\ writer' = IdleWriter(wmFile, 1, {}) /\ wmFile' = wmFile /\ hist' = hist
        /\ ring' = [g \in Signals |-> EmptyRing]
    BY DEF Stop
  <1>2. /\ WriterShape(writer') /\ GroupInOrder(writer') /\ writer'.phase = "idle" /\ writer'.active = 0
        /\ writer'.persisted = wmFile /\ writer'.sealed = {}
    BY <1>1, MarksTypes, IdleMarks
  <1>3. RingsOK(ring')
    BY <1>1, EmptyRingFacts DEF RingsOK
  <1>4. CmdsOK(cmds')
    BY <1>1, FS_EmptySet DEF CmdsOK
  <1>5. DiskShape'
    BY <1>1, <1>2 DEF DiskShape, SealedIds
  <1>6. AckDurable'
    BY <1>1 DEF MarksInv, AckDurable
  <1> QED BY <1>1, <1>2, <1>3, <1>4, <1>5, <1>6 DEF MarksInv

LEMMA CrashMarks ==
    ASSUME MarksInv, Crash
    PROVE  MarksInv'
  <1>1. mode # "down" /\ Stop
    BY DEF Crash
  <1>2. LooseFiles(files) /\ LooseDisk(files, writer.sealed, writer.active, writer.next)
    BY <1>1 DEF MarksInv, DiskShape
  <1>3. CASE files' = files
    BY <1>1, <1>2, <1>3, StopMarks
  <1>4. CASE writer.active # 0 /\ files' = [files EXCEPT ![writer.active] = Append(@, Garbage)]
    <2>1. PICK a, s : a = writer.active /\ s = files[a]
      OBVIOUS
    <2>2. a \in DOMAIN files /\ s \in Seq(AnyFrames)
      BY <1>2, <1>4, <2>1 DEF LooseDisk, LooseFiles
    <2>3. PICK t : t = Append(s, Garbage)
      OBVIOUS
    <2>4. t \in Seq(AnyFrames)
      BY <2>2, <2>3, AppendProperties DEF AnyFrames
    <2>5. files' = [files EXCEPT ![a] = t]
      BY <1>4, <2>1, <2>3
    <2>6. /\ DOMAIN files' = DOMAIN files /\ files'[a] = t /\ \A id \in DOMAIN files : id # a => files'[id] = files[id]
          /\ files' = [id \in DOMAIN files' |-> files'[id]]
      BY <2>2, <2>5
    <2>7. LooseFiles(files')
      BY <1>2, <2>4, <2>6 DEF LooseFiles
    <2> QED BY <1>1, <2>7, StopMarks
  <1> QED BY <1>3, <1>4 DEF Crash

LEMMA LosePowerMarks ==
    ASSUME MarksInv, LosePower
    PROVE  MarksInv'
  <1>1. Stop /\ LooseFiles(files)
    BY DEF LosePower, MarksInv, DiskShape
  <1>2. PICK kept \in [DOMAIN files -> 0..MaxOf({Len(files[id]) : id \in DOMAIN files})] :
            /\ \A id \in DOMAIN files : synced[id] <= kept[id] /\ kept[id] <= Len(files[id])
            /\ files' = [id \in DOMAIN files |-> SubSeq(files[id], 1, kept[id])]
            /\ synced' = kept
    BY DEF LosePower
  <1>3. ASSUME NEW id \in DOMAIN files PROVE files'[id] \in Seq(AnyFrames)
    <2>1. PICK s, k : s = files[id] /\ k = kept[id]
      OBVIOUS
    <2>2. s \in Seq(AnyFrames) /\ k <= Len(s)
      BY <1>1, <1>2, <2>1 DEF LooseFiles
    <2>3. k \in 0..MaxOf({Len(files[j]) : j \in DOMAIN files})
      BY <1>2, <2>1
    <2>4. k \in Nat
      BY <2>3
    <2>5. SubSeq(s, 1, k) \in Seq(AnyFrames)
      BY <2>2, <2>4, PrefixFacts
    <2> QED BY <1>2, <2>1, <2>5
  <1>4. DOMAIN files' = DOMAIN files /\ files' = [id \in DOMAIN files' |-> files'[id]]
    BY <1>2
  <1>5. LooseFiles(files')
    BY <1>1, <1>3, <1>4 DEF LooseFiles
  <1> QED BY <1>1, <1>5, StopMarks

LEMMA ShutdownMarks ==
    ASSUME MarksInv, Shutdown
    PROVE  MarksInv'
  <1>1. Stop /\ files' = files /\ LooseFiles(files)
    BY DEF Shutdown, MarksInv, DiskShape
  <1> QED BY <1>1, StopMarks

(* Recovery reads up to the first torn frame. *)
LEMMA LooseDecodable ==
    ASSUME NEW s \in Seq(AnyFrames)
    PROVE  /\ Decodable(s) \in Seq(Frames)
           /\ \A i \in DOMAIN Decodable(s) : i \in Nat /\ s[i] \in Frames
  <1> DEFINE bad == {i \in DOMAIN s : s[i] = Garbage}
             n == Len(s)
  <1>1. n \in Nat /\ DOMAIN s = 1..n /\ \A i \in 1..n : s[i] \in AnyFrames
    BY SeqFacts
  <1>2. \E k \in Nat : /\ k <= n /\ (\A i \in 1..k : s[i] # Garbage)
                       /\ Decodable(s) = SubSeq(s, 1, k)
    <2>1. CASE bad = {}
      <3>1. Decodable(s) = s /\ \A i \in 1..n : s[i] # Garbage
        BY <1>1, <2>1 DEF Decodable
      <3>2. SubSeq(s, 1, n) = s
        <4>1. PICK u : u = SubSeq(s, 1, n)
          OBVIOUS
        <4>2. u \in Seq(AnyFrames) /\ Len(u) = n /\ \A i \in 1..n : u[i] = s[i]
          BY <1>1, <4>1, PrefixFacts
        <4> HIDE DEF n
        <4>3. u = [i \in 1..n |-> u[i]] /\ s = [i \in 1..n |-> s[i]]
          BY <4>2, SeqFacts DEF n
        <4> QED BY <4>1, <4>2, <4>3
      <3>3. PICK k : k = n
        OBVIOUS
      <3>4. /\ k \in Nat /\ k <= n /\ (\A i \in 1..k : s[i] # Garbage)
            /\ Decodable(s) = SubSeq(s, 1, k)
        BY <1>1, <3>1, <3>2, <3>3
      <3> QED BY <3>4
    <2>2. CASE bad # {}
      <3>1. PICK m : m = Min(bad)
        OBVIOUS
      <3>2. Decodable(s) = SubSeq(s, 1, m - 1)
        BY <2>2, <3>1 DEF Decodable
      <3>3. \A i \in 1..n : s[i] = Garbage => i \in bad
        BY <1>1
      <3>4. bad \in SUBSET (1..n)
        BY <1>1
      <3> HIDE DEF bad, n
      <3>5. m \in bad /\ \A j \in bad : m <= j
        BY <1>1, <2>2, <3>1, <3>4, MinFacts
      <3>6. m - 1 \in Nat /\ m - 1 <= n
        BY <1>1, <3>4, <3>5
      <3>7. \A i \in 1..(m - 1) : i \in 1..n /\ ~(m <= i)
        BY <1>1, <3>4, <3>5
      <3>8. \A i \in 1..(m - 1) : s[i] # Garbage
        BY <3>3, <3>5, <3>7
      <3> QED BY <3>2, <3>6, <3>8
    <2> QED BY <2>1, <2>2
  <1>3. PICK k \in Nat : k <= n /\ (\A i \in 1..k : s[i] # Garbage) /\ Decodable(s) = SubSeq(s, 1, k)
    BY <1>2
  <1>4. PICK u : u = SubSeq(s, 1, k)
    OBVIOUS
  <1>5. u \in Seq(AnyFrames) /\ Len(u) = k /\ DOMAIN u = 1..k /\ \A i \in 1..k : u[i] = s[i]
    BY <1>3, <1>4, PrefixFacts
  <1>6. \A i \in 1..k : i \in 1..n
    BY <1>1, <1>3
  <1>7. \A i \in 1..k : i \in Nat /\ s[i] \in Frames
    BY <1>1, <1>3, <1>6 DEF AnyFrames
  <1>8. u \in Seq(Frames)
    <2>1. u = [i \in 1..k |-> u[i]]
      BY <1>5, SeqFacts
    <2>2. u \in [1..k -> Frames]
      BY <1>5, <1>7, <2>1
    <2> QED BY <2>2, SeqDef
  <1> QED BY <1>3, <1>4, <1>5, <1>7, <1>8


(* It finds finitely many frames. *)
LEMMA LooseFound ==
    ASSUME LooseFiles(files)
    PROVE  /\ IsFiniteSet(FoundPlaces)
           /\ \A p \in FoundPlaces : p \in Places /\ FrameAt(p) \in Frames
           /\ \A id \in DOMAIN files : Scanned(id) \in Seq(Frames)
  <1>1. ASSUME NEW id \in DOMAIN files
        PROVE  /\ Scanned(id) \in Seq(Frames) /\ id \in Nat
               /\ \A i \in DOMAIN Scanned(id) : i \in Nat /\ files[id][i] \in Frames
    <2>1. files[id] \in Seq(AnyFrames) /\ id \in Nat
      BY DEF LooseFiles
    <2> QED BY <2>1, LooseDecodable DEF Scanned
  <1> HIDE DEF Scanned
  <1>2. ASSUME NEW p \in FoundPlaces PROVE p \in Places /\ FrameAt(p) \in Frames
    <2>1. PICK id \in DOMAIN files : p \in {id} \X DOMAIN Scanned(id)
      BY DEF FoundPlaces
    <2>2. PICK i \in DOMAIN Scanned(id) : p = <<id, i>>
      BY <2>1
    <2>3. i \in Nat /\ files[id][i] \in Frames /\ id \in Nat
      BY <1>1
    <2> QED BY <2>2, <2>3 DEF Places, FrameAt
  <1>3. IsFiniteSet(FoundPlaces)
    <2> DEFINE h == [id \in DOMAIN files |-> {id} \X DOMAIN Scanned(id)]
               H == {h[id] : id \in DOMAIN h}
    <2>1. IsFiniteSet(H)
      <3>1. IsFiniteSet(DOMAIN h)
        BY DEF LooseFiles
      <3> HIDE DEF h
      <3> QED BY <3>1, FiniteImage
    <2>2. \A T \in H : IsFiniteSet(T)
      <3>1. ASSUME NEW id \in DOMAIN files PROVE IsFiniteSet({id} \X DOMAIN Scanned(id))
        <4>1. Len(Scanned(id)) \in Nat /\ DOMAIN Scanned(id) = 1..Len(Scanned(id))
          BY <1>1, SeqFacts
        <4>2. IsFiniteSet(1..Len(Scanned(id)))
          BY <4>1, FS_Interval
        <4>3. IsFiniteSet({id})
          BY FS_Singleton
        <4> QED BY <4>1, <4>2, <4>3, FS_Product
      <3> QED BY <3>1
    <2>3. FoundPlaces = UNION H
      BY DEF FoundPlaces
    <2> HIDE DEF H
    <2>4. IsFiniteSet(UNION H)
      BY <2>1, <2>2, FS_UNION
    <2> QED BY <2>3, <2>4
  <1> QED BY <1>1, <1>2, <1>3

(* And makes rings of them whose numbers are in order. *)
LEMMA LooseRecovered ==
    ASSUME LooseFiles(files), wmFile \in Marks, NEW g \in Signals, NEW r, r = RecoveredRing(g)
    PROVE  RingOK(r)
  <1> DEFINE found == {p \in FoundPlaces : FrameAt(p).signal = g}
             live == {p \in found : FrameAt(p).seq > wmFile[g]}
             seqs == {FrameAt(p).seq : p \in found}
             held == {FrameAt(p).seq : p \in live}
             pick(s) == CHOOSE q \in live : FrameAt(q).seq = s
             slots == [s \in held |-> [state |-> "Queued", msg |-> FrameAt(pick(s)).msg, at |-> pick(s)]]
             top == Max({wmFile[g]} \union seqs)
  <1>1. /\ IsFiniteSet(FoundPlaces)
        /\ \A p \in FoundPlaces : p \in Places /\ FrameAt(p) \in Frames
    BY LooseFound
  <1>2. r = [next |-> top + 1, slots |-> slots, committed |-> wmFile[g]]
    BY DEF RecoveredRing, NextSeq
  <1>3. wmFile[g] \in Nat
    BY DEF Marks
  <1>4. seqs \subseteq Nat \ {0} /\ held \subseteq Nat \ {0} /\ held \subseteq seqs
    BY <1>1 DEF Frames
  <1>5. top \in Nat /\ wmFile[g] <= top /\ \A x \in seqs : x <= top
    <2> DEFINE h == [p \in found |-> FrameAt(p).seq]
    <2>1. IsFiniteSet(found)
      BY <1>1, FS_Subset
    <2>2. IsFiniteSet({h[p] : p \in DOMAIN h})
      <3>1. IsFiniteSet(DOMAIN h)
        BY <2>1
      <3> HIDE DEF h
      <3> QED BY <3>1, FiniteImage
    <2>3. {h[p] : p \in DOMAIN h} = seqs
      OBVIOUS
    <2> HIDE DEF seqs
    <2>4. IsFiniteSet({wmFile[g]} \union seqs)
      <3>1. IsFiniteSet({wmFile[g]})
        BY FS_Singleton
      <3> QED BY <2>2, <2>3, <3>1, FS_Union
    <2>5. {wmFile[g]} \union seqs \in SUBSET Nat /\ {wmFile[g]} \union seqs # {}
      BY <1>3, <1>4
    <2>6. top \in {wmFile[g]} \union seqs /\ \A x \in {wmFile[g]} \union seqs : x <= top
      BY <2>4, <2>5, MaxFacts
    <2> QED BY <2>5, <2>6
  <1>6. ASSUME NEW s \in held PROVE pick(s) \in live
    BY <1>6
  <1>7. ASSUME NEW s \in held
        PROVE  s > wmFile[g] /\ pick(s) \in Places /\ FrameAt(pick(s)) \in Frames
    <2>1. pick(s) \in live
      BY <1>6
    <2> HIDE DEF pick
    <2> QED BY <1>1, <2>1
  <1> HIDE DEF found, live, seqs, held, pick, top
  <1>8. DOMAIN slots = held
    OBVIOUS
  <1>9. slots \in UNION {[S -> Slots] : S \in SUBSET Nat}
    <2>1. \A s \in held : [state |-> "Queued", msg |-> FrameAt(pick(s)).msg, at |-> pick(s)] \in Slots
      <3>1. \A s \in held : FrameAt(pick(s)).msg \in Nat /\ pick(s) \in Nat \X Nat
        BY <1>7 DEF Frames, Places
      <3> QED BY <3>1 DEF Slots
    <2>2. slots \in [held -> Slots] /\ held \in SUBSET Nat
      BY <1>4, <2>1
    <2> QED BY <2>2
  <1> HIDE DEF slots
  <1>10. r \in Rings /\ r.slots = slots /\ r.next = top + 1 /\ r.committed = wmFile[g]
    <2>1. PICK n : n = top + 1
      OBVIOUS
    <2>2. n \in Nat \ {0} /\ r = [next |-> n, slots |-> slots, committed |-> wmFile[g]]
      BY <1>2, <1>5, <2>1
    <2>3. r \in Rings /\ r.slots = slots /\ r.next = n /\ r.committed = wmFile[g]
      BY <1>3, <1>9, <2>2 DEF Rings
    <2> QED BY <2>1, <2>3
  <1>11. wmFile[g] < top + 1 /\ \A s \in held : wmFile[g] < s /\ s < top + 1
    BY <1>3, <1>4, <1>5, <1>7
  <1> QED BY <1>8, <1>10, <1>11 DEF RingOK

LEMMA RecoverMarks ==
    ASSUME MarksInv, Recover
    PROVE  MarksInv'
  <1> DEFINE rings == [g \in Signals |-> Advance(RecoveredRing(g))]
             c == FlushWatermark([g \in Signals |-> rings[g].committed])
             wm == Merge(wmFile, {c})
             Live(id) == \E f \in ToSet(Scanned(id)) : f.seq > wmFile[f.signal]
             sealed == {[id |-> id, maxSeq |-> MaxSeqs(Scanned(id))] : id \in {id \in DOMAIN files : Live(id)}}
             n == MaxOf(DOMAIN files) + 1
  <1>1. /\ mode' = "recovering" /\ wmFile' = wm /\ ring' = rings
        /\ files' = [id \in DOMAIN files |-> Scanned(id)]
        /\ writer' = IdleWriter(wm, n, sealed)
        /\ UNCHANGED <<cmds, hist>>
    BY DEF Recover
  <1>2. LooseFiles(files) /\ wmFile \in Marks
    BY MarksTypes DEF MarksInv, DiskShape
  <1>3. SealedIds(sealed) \subseteq DOMAIN files
    BY DEF SealedIds
  <1>4. /\ DOMAIN files' = DOMAIN files /\ files' = [id \in DOMAIN files' |-> files'[id]]
        /\ \A id \in DOMAIN files : files'[id] = Scanned(id)
    BY <1>1
  <1>5. LooseFiles(files')
    <2>1. ASSUME NEW id \in DOMAIN files PROVE Scanned(id) \in Seq(AnyFrames)
      <3>1. PICK s : s = Scanned(id)
        OBVIOUS
      <3>2. s \in Seq(Frames)
        BY <1>2, <3>1, LooseFound
      <3>3. Len(s) \in Nat /\ s = [i \in 1..Len(s) |-> s[i]] /\ \A i \in 1..Len(s) : s[i] \in Frames
        BY <3>2, SeqFacts
      <3>4. s \in [1..Len(s) -> AnyFrames]
        BY <3>3 DEF AnyFrames
      <3> QED BY <3>1, <3>3, <3>4, SeqDef
    <2> QED BY <1>2, <1>4, <2>1 DEF LooseFiles
  <1>6. n \in Nat \ {0} /\ \A id \in DOMAIN files : id < n
    <2>1. PICK S : S = DOMAIN files \union {0}
      OBVIOUS
    <2>2. S \in SUBSET Nat /\ S # {} /\ DOMAIN files \subseteq S
      BY <1>2, <2>1 DEF LooseFiles
    <2>3. IsFiniteSet(S)
      BY <1>2, <2>1, FS_AddElement DEF LooseFiles
    <2>4. PICK m : m = Max(S)
      OBVIOUS
    <2>5. m \in S /\ \A x \in S : x <= m
      BY <2>2, <2>3, <2>4, MaxFacts
    <2>6. n = m + 1
      BY <2>1, <2>4 DEF MaxOf
    <2>7. m \in Nat /\ \A x \in S : x \in Nat /\ x <= m
      BY <2>2, <2>5
    <2>8. m + 1 \in Nat \ {0} /\ \A x \in S : x < m + 1
      BY <2>7
    <2> HIDE DEF n
    <2> QED BY <2>2, <2>6, <2>8
  <1>7. RingsOK(rings)
    <2>1. ASSUME NEW g \in Signals PROVE RingOK(rings[g])
      <3>1. PICK r : r = RecoveredRing(g)
        OBVIOUS
      <3>2. RingOK(r)
        BY <1>2, <3>1, LooseRecovered
      <3>3. RingOK(Advance(r))
        BY <3>2, AdvanceFacts DEF RingOK
      <3> QED BY <3>1, <3>3
    <2> QED BY <2>1 DEF RingsOK
  <1> HIDE DEF rings
  <1>8. c \in Updates
    <2>1. PICK w : w = [g \in Signals |-> rings[g].committed]
      OBVIOUS
    <2>2. w \in Marks
      BY <1>7, <2>1, RingMarks
    <2> QED BY <2>1, <2>2 DEF FlushWatermark, Updates
  <1> HIDE DEF c, sealed, n
  <1>9. wm \in Marks /\ AtMost(wmFile, wm)
    BY <1>2, <1>8, FS_Singleton, MergeFacts
  <1> HIDE DEF wm
  <1>10. /\ WriterShape(writer') /\ GroupInOrder(writer') /\ writer'.phase = "idle" /\ writer'.active = 0
         /\ writer'.persisted = wm /\ writer'.sealed = sealed /\ writer'.next = n
    BY <1>1, <1>9, IdleMarks
  <1>11. DiskShape'
    BY <1>1, <1>3, <1>4, <1>5, <1>6, <1>10 DEF DiskShape, LooseDisk
  <1>12. AckDurable'
    BY <1>1, <1>2, <1>9, MarksTypes DEF MarksInv, AckDurable, AtMost, Marks
  <1> QED BY <1>1, <1>7, <1>10, <1>11, <1>12, MarksTypes DEF MarksInv

LEMMA DeleteObsoleteMarks ==
    ASSUME MarksInv, DeleteObsolete
    PROVE  MarksInv'
  <1> DEFINE kept == SealedIds(writer.sealed)
  <1>1. /\ mode = "recovering" /\ mode' = "running" /\ files' = [id \in kept |-> files[id]]
        /\ UNCHANGED <<wmFile, ring, cmds, writer, hist>>
    BY DEF DeleteObsolete, SealedIds
  <1>2. LooseFiles(files) /\ kept \subseteq DOMAIN files
    BY DEF MarksInv, DiskShape
  <1>3. LooseDisk(files, writer.sealed, writer.active, writer.next) /\ writer.active = 0
    BY <1>1 DEF MarksInv, DiskShape
  <1> HIDE DEF kept
  <1>4. IsFiniteSet(kept)
    BY <1>2, FS_Subset DEF LooseFiles
  <1>5. DOMAIN files' = kept /\ files' = [id \in DOMAIN files' |-> files'[id]] /\ \A id \in kept : files'[id] = files[id]
    BY <1>1
  <1>6. LooseFiles(files')
    BY <1>2, <1>4, <1>5 DEF LooseFiles
  <1>7. DiskShape'
    BY <1>1, <1>2, <1>3, <1>5, <1>6 DEF DiskShape, LooseDisk, kept
  <1>8. AckDurable'
    BY <1>1 DEF MarksInv, AckDurable
  <1> QED BY <1>1, <1>7, <1>8, MarksTypes DEF MarksInv

LEMMA InitMarks ==
    ASSUME Init
    PROVE  MarksInv
  <1>1. /\ mode = "running" /\ cmds = {} /\ files = <<>>
        /\ wmFile = [g \in Signals |-> 0] /\ ring = [g \in Signals |-> EmptyRing]
        /\ writer = IdleWriter(wmFile, 1, {})
        /\ hist = [sent |-> 0, accepted |-> {}, resolved |-> {}, acked |-> [g \in Signals |-> 0], delivered |-> {},
                   finalized |-> 0]
    BY DEF Init
  <1>2. files = [id \in DOMAIN files |-> files[id]] /\ DOMAIN files = {}
    <2>1. PICK e : e = <<>>
      OBVIOUS
    <2>2. e \in Seq(Frames) /\ Len(e) = 0
      BY <2>1, EmptySeq
    <2>3. DOMAIN e = 1..Len(e) /\ e = [i \in 1..Len(e) |-> e[i]]
      BY <2>2, SeqFacts
    <2>4. DOMAIN e = {} /\ e = [i \in DOMAIN e |-> e[i]]
      BY <2>2, <2>3
    <2> QED BY <1>1, <2>1, <2>4
  <1>3. LooseFiles(files)
    BY <1>2, FS_EmptySet DEF LooseFiles
  <1>4. wmFile \in Marks /\ \A g \in Signals : wmFile[g] = 0
    BY <1>1 DEF Marks
  <1>5. /\ WriterShape(writer) /\ GroupInOrder(writer) /\ writer.phase = "idle" /\ writer.active = 0
        /\ writer.persisted = wmFile /\ writer.sealed = {} /\ writer.next = 1
    BY <1>1, <1>4, IdleMarks
  <1>6. DiskShape
    BY <1>1, <1>2, <1>3, <1>5 DEF DiskShape, LooseDisk, SealedIds
  <1>7. HistShape(hist) /\ hist.sent \in Nat /\ hist.acked = wmFile
    BY <1>1 DEF HistShape
  <1>8. AckDurable
    BY <1>4, <1>7 DEF AckDurable
  <1>9. RingsOK(ring)
    BY <1>1, EmptyRingFacts DEF RingsOK
  <1>10. CmdsOK(cmds)
    BY <1>1, FS_EmptySet DEF CmdsOK
  <1> QED BY <1>4, <1>5, <1>6, <1>7, <1>8, <1>9, <1>10 DEF MarksInv

(* Every step keeps the watermarks in order. *)
LEMMA StepKeepsMarks ==
    ASSUME MarksInv, [Next]_vars
    PROVE  MarksInv'
  <1>1. CASE \E g \in Signals : Send(g) \/ \E seq \in 1..MaxMsgs : Ack(g, seq)
    BY <1>1, SendMarks, AckMarks
  <1>2. CASE SendWatermark
    BY <1>2, SendWatermarkMarks
  <1>3. CASE FinalizeShutdown
    BY <1>3, FinalizeMarks
  <1>4. CASE TakeGroup
    BY <1>4, TakeGroupMarks
  <1>5. CASE \E c \in writer.todo : WriteFrame(c)
    BY <1>5, WriteFrameMarks
  <1>6. CASE SyncGroup
    BY <1>6, SyncGroupMarks
  <1>7. CASE \E d \in writer.done : Finish(d)
    BY <1>7, FinishMarks
  <1>8. CASE WriteWatermark
    BY <1>8, WriteWatermarkMarks
  <1>9. CASE CollectAndReply
    BY <1>9, CollectMarks
  <1>10. CASE Crash
    BY <1>10, CrashMarks
  <1>11. CASE LosePower
    BY <1>11, LosePowerMarks
  <1>12. CASE Shutdown
    BY <1>12, ShutdownMarks
  <1>13. CASE Recover
    BY <1>13, RecoverMarks
  <1>14. CASE DeleteObsolete
    BY <1>14, DeleteObsoleteMarks
  <1>15. CASE UNCHANGED vars
    <2>1. UNCHANGED <<files, wmFile, ring, cmds, writer, mode, hist>>
      BY <1>15 DEF vars
    <2> QED BY <2>1, MarksTypes, MarksStep
  <1> QED BY <1>1, <1>2, <1>3, <1>4, <1>5, <1>6, <1>7, <1>8, <1>9, <1>10, <1>11, <1>12, <1>13, <1>14, <1>15 DEF Next

(* An ack that returned Ok has its watermark on disk, whatever group it was in, whichever writes of
   frames or of the watermark failed before, half-way or not, and after any crash and loss of power:
   no recovery delivers what it covers again. *)
THEOREM AckIsDurable == Spec => []AckDurable
  <1>1. Init => MarksInv
    BY InitMarks
  <1>2. MarksInv /\ [Next]_vars => MarksInv'
    BY StepKeepsMarks
  <1>3. MarksInv => AckDurable
    BY DEF MarksInv
  <1> QED BY <1>1, <1>2, <1>3, PTL DEF Spec

=============================================================================
