------------------------------- MODULE DiskLog -------------------------------
(***************************************************************************)
(* The disk backend of a SinkBuffer: the writer thread's group commit, the *)
(* segment files it fills, seals and deletes, the watermark file, and what *)
(* open_and_recover makes of them after a crash.                           *)
(*                                                                         *)
(* The rings of all signals share the segments, so they are here too,      *)
(* reduced to what the log sees of them: which sequence numbers are held   *)
(* and where their frames are.  A command in flight comes from a task of   *)
(* its own (a sender or a lease that awaits the reply), so the channel is  *)
(* a set: the writer may meet them in any order.                           *)
(***************************************************************************)
EXTENDS Integers, Sequences, FiniteSets, FiniteSetsExt, SequencesExt

CONSTANTS
    FrameSize,      \* the signals, and the size of a frame of each
    SegmentSize,    \* segment_size_bytes
    Scenarios       \* what a behaviour may meet, and how often, one of the
                    \* records [syncOnWrite, powerLoss, faultKinds, msgs, crashes, faults, finalizes]

Signals == DOMAIN FrameSize

\* A write that fails leaves nothing of its frame, or with "partial" a part of it; "seal" is
\* the sync of a segment that is full, "sync" a group's own one, "watermark" its file.
FaultKinds == {"write", "partial", "seal", "sync", "watermark"}

ASSUME DiskAssumption ==
    /\ \A g \in Signals : FrameSize[g] \in Nat \ {0}
    /\ SegmentSize \in Nat \ {0}
    /\ \A c \in Scenarios :
        /\ {c.syncOnWrite, c.powerLoss} \subseteq BOOLEAN
        /\ c.faultKinds \subseteq FaultKinds
        /\ {c.msgs, c.crashes, c.faults, c.finalizes} \subseteq Nat

VARIABLES
    files,      \* the segment files: a sequence of frames for each segment id
    synced,     \* how many frames of each file no power loss can take
    wmFile,     \* watermark.json
    ring,       \* the signal rings: [next, slots, committed]
    fatal,      \* BufferInner.fatal_error is set
    unsent,     \* how many acks have not sent their UpdateWatermark yet
    cmds,       \* WriterCommands on their way
    writer,     \* the writer thread's locals
    mode,       \* "running", "recovering" or "down"
    hist,       \* what was sent, accepted, resolved, acknowledged and delivered
    crashes,    \* crashes and shutdowns so far
    faults,     \* failures of the file system so far
    scenario    \* the one of Scenarios this behaviour is in

vars == <<files, synced, wmFile, ring, fatal, unsent, cmds, writer, mode, hist, crashes, faults, scenario>>

SyncOnWrite == scenario.syncOnWrite      \* sync_on_write

PowerLoss == scenario.powerLoss          \* a crash may lose what was not synced

Faults == scenario.faultKinds            \* the file system calls that may fail

\* Bounds: batches sent, crashes and shutdowns, failures of the file system, and
\* finalizations after a drain that timed out.
MaxMsgs == scenario.msgs

MaxCrashes == scenario.crashes

MaxFaults == scenario.faults

MaxFinalize == scenario.finalizes

MaxOf(S) == Max(S \union {0})

\* A frame that was not written to its end.
Garbage == [signal |-> "none", seq |-> 0, msg |-> 0]

\* encode_frame for the batch of an append, with the sequence number that
\* patch_frame_seq_id puts in.
EncodedFrame(c) == [signal |-> c.signal, seq |-> c.seq, msg |-> c.msg]

Watermark == [g \in Signals |-> ring[g].committed]

\* DiskWatermark::merge_monotonic, with the watermarks of all the commands cs.
Merge(w, cs) == [g \in Signals |-> Max({w[g]} \union {c.wm[g] : c \in cs})]

Fault(kind) ==
    /\ kind \in Faults
    /\ faults < MaxFaults
    /\ faults' = faults + 1

EmptyRing == [next |-> 1, slots |-> <<>>, committed |-> 0]

-----------------------------------------------------------------------------
(* The rings, as the log sees them.                                         *)

\* SignalRing::advance_watermark
Advance(r) ==
    [r EXCEPT !.committed =
        Max({@, IF DOMAIN r.slots = {} THEN r.next - 1 ELSE Min(DOMAIN r.slots) - 1})]

DropSlots(r, S) == Advance([r EXCEPT !.slots = [s \in DOMAIN @ \ S |-> @[s]]])

PutSlot(r, seq, slot) ==
    [r EXCEPT !.slots = [s \in DOMAIN @ \union {seq} |-> IF s = seq THEN slot ELSE @[s]]]

\* reserve_or_enqueue_slot and append_encoded_frame: a sequence number, then the
\* command with its AppendReservation.
Send(g) ==
    LET seq == ring[g].next
        msg == hist.sent + 1
    IN  /\ mode = "running" /\ ~fatal
        /\ hist.sent < MaxMsgs
        /\ ring' = [ring EXCEPT ![g] =
                      PutSlot([@ EXCEPT !.next = seq + 1], seq,
                              [state |-> "Reserved", msg |-> msg, at |-> <<0, 0>>])]
        /\ cmds' = cmds \union {[kind |-> "append", signal |-> g, seq |-> seq, msg |-> msg]}
        /\ hist' = [hist EXCEPT !.sent = msg]
        /\ UNCHANGED <<files, synced, wmFile, fatal, unsent, writer, mode, crashes, faults, scenario>>

\* ack_lease's critical section, for a batch that was delivered.
Ack(g, seq) ==
    /\ mode = "running"
    /\ seq \in DOMAIN ring[g].slots
    /\ ring[g].slots[seq].state = "Queued"
    /\ ring' = [ring EXCEPT ![g] = DropSlots(@, {seq})]
    /\ unsent' = unsent + 1
    /\ hist' = [hist EXCEPT !.resolved = @ \union {ring[g].slots[seq].msg},
                            !.delivered = @ \union {<<g, seq, ring[g].slots[seq].msg>>}]
    /\ UNCHANGED <<files, synced, wmFile, fatal, cmds, writer, mode, crashes, faults, scenario>>

\* The rest of ack_lease: the watermark of all rings goes to the writer.
SendWatermark ==
    /\ unsent > 0
    /\ unsent' = unsent - 1
    /\ cmds' = cmds \union {[kind |-> "update", ack |-> TRUE, wm |-> Watermark]}
    /\ UNCHANGED <<files, synced, wmFile, ring, fatal, writer, mode, hist, crashes, faults, scenario>>

\* flush_and_sync_watermark: a command like an update, but synced at once.
FlushWatermark(wm) == [kind |-> "flush", ack |-> FALSE, wm |-> wm]

\* finalize_shutdown_timeout: with Discard every ring is emptied first, and either
\* way the watermark is flushed.
FinalizeShutdown ==
    /\ mode = "running"
    /\ hist.finalized < MaxFinalize
    /\ \E discard \in BOOLEAN :
        LET r == [g \in Signals |-> IF discard THEN DropSlots(ring[g], DOMAIN ring[g].slots)
                                               ELSE ring[g]]
            dropped == UNION {{ring[g].slots[s].msg : s \in DOMAIN ring[g].slots} : g \in Signals}
        IN  /\ ring' = r
            /\ cmds' = cmds \union {FlushWatermark([g \in Signals |-> r[g].committed])}
            /\ hist' = [hist EXCEPT !.finalized = @ + 1,
                                    !.resolved = IF discard THEN @ \union dropped ELSE @]
    /\ UNCHANGED <<files, synced, wmFile, fatal, unsent, writer, mode, crashes, faults, scenario>>

-----------------------------------------------------------------------------
(* The writer thread.                                                       *)

IdleWriter(wm, next, sealed) ==
    [phase |-> "idle", todo |-> {}, done |-> {}, wms |-> {}, dirty |-> FALSE, failed |-> FALSE,
     active |-> 0, sealed |-> sealed, next |-> next, persisted |-> wm, staged |-> wm]

SizeOf(frames) ==
    FoldSeq(LAMBDA f, sum : (IF f = Garbage THEN 0 ELSE FrameSize[f.signal]) + sum, 0, frames)

\* ActiveSegment.max_seq, for the frames whose write succeeded.
MaxSeqs(frames) ==
    [g \in Signals |-> MaxOf({f.seq : f \in {f \in ToSet(frames) : f.signal = g}})]

\* Mutant: one signal is enough.
IsAckedBySome(seg, wm) == \E g \in Signals : seg.maxSeq[g] <= wm[g]

\* SealedSegmentMeta::is_fully_acked
IsFullyAcked(seg, wm) == \A g \in Signals : seg.maxSeq[g] <= wm[g]

\* Mutant: only the oldest segment is looked at.
ReclaimableFront(sealed, wm) ==
    {seg.id : seg \in {seg \in sealed : IsFullyAcked(seg, wm) /\ \A o \in sealed : seg.id <= o.id}}

\* gc_sealed_segments: the ids of the files it deletes.
Reclaimable(sealed, wm) == {seg.id : seg \in {seg \in sealed : IsFullyAcked(seg, wm)}}

Without(f, S) == [x \in DOMAIN f \ S |-> f[x]]

With(f, x, v) == [y \in DOMAIN f \union {x} |-> IF y = x THEN v ELSE f[y]]

\* Sync and seal segment id of disk d, and collect what the persisted watermark covers.
\* A disk is [files, synced, sealed], the part of the state that sealing changes.
Seal(d, id) ==
    LET sealed == d.sealed \union {[id |-> id, maxSeq |-> MaxSeqs(d.files[id])]}
        gone   == Reclaimable(sealed, writer.persisted)
    IN  [files  |-> Without(d.files, gone),
         synced |-> Without(With(d.synced, id, Len(d.files[id])), gone),
         sealed |-> {seg \in sealed : seg.id \notin gone}]

\* recv, then try_recv: some of the commands there are.
TakeGroup ==
    /\ mode = "running"
    /\ writer.phase = "idle"
    /\ \E G \in SUBSET cmds :
        LET wms    == {c \in G : c.kind # "append"}
            staged == Merge(writer.staged, wms)
        IN  /\ G # {}
            /\ cmds' = cmds \ G
            /\ writer' = [writer EXCEPT
                            !.phase = "write", !.todo = G \ wms, !.wms = wms, !.staged = staged,
                            !.dirty = staged # writer.staged \/ \E c \in wms : c.kind = "flush"]
    /\ UNCHANGED <<files, synced, wmFile, ring, fatal, unsent, mode, hist, crashes, faults, scenario>>

\* Mutant: read after bytes_written was advanced.
OffsetAfterWrite(frames) == Cardinality({i \in DOMAIN frames : frames[i] # Garbage}) + 2

\* ActiveSegment.bytes_written, in frames: what the writer believes the next one's place to be.
OffsetIn(frames) == Cardinality({i \in DOMAIN frames : frames[i] # Garbage}) + 1

\* write_encoded_frame step by step.  A segment the frame does not fit is rolled,
Rolls(c) ==
    /\ writer.active # 0
    /\ SizeOf(files[writer.active]) > 0
    /\ SizeOf(files[writer.active]) + FrameSize[c.signal] > SegmentSize

Rolled(c) ==
    LET now == [files |-> files, synced |-> synced, sealed |-> writer.sealed]
    IN  IF Rolls(c) THEN Seal(now, writer.active) ELSE now

\* a new one is created when none is active,
Opens(c) == Rolls(c) \/ writer.active = 0

Target(c) == IF Opens(c) THEN writer.next ELSE writer.active

Opened(c) ==
    IF Opens(c)
    THEN [Rolled(c) EXCEPT !.files = With(@, Target(c), <<>>), !.synced = With(@, Target(c), 0)]
    ELSE Rolled(c)

NextId(c) == IF Opens(c) THEN Target(c) + 1 ELSE writer.next

\* the frame is written, and a full segment is sealed.
Wrote(c, frame) ==
    [Opened(c) EXCEPT !.files = With(@, Target(c), Append(@[Target(c)], frame))]

Fills(c) == SizeOf(Wrote(c, EncodedFrame(c)).files[Target(c)]) >= SegmentSize

\* What the writer remembers of an append: the result, and where it believes the frame to be.
Written(c, ok) ==
    [cmd |-> c, ok |-> ok, at |-> <<Target(c), OffsetIn(Opened(c).files[Target(c)])>>]

WriteEnds(c, disk, active, next, ok) ==
    /\ files' = disk.files
    /\ synced' = disk.synced
    /\ writer' = [writer EXCEPT
                    !.todo = @ \ {c}, !.done = @ \union {Written(c, ok)},
                    !.sealed = disk.sealed, !.active = active, !.next = next]

WriteFrame(c) ==
    LET full == Wrote(c, EncodedFrame(c))
    IN  /\ writer.phase = "write"
        /\ c \in writer.todo
        /\ \/ /\ ~Fills(c)
              /\ WriteEnds(c, full, Target(c), NextId(c), TRUE)
              /\ UNCHANGED faults
           \/ /\ Fills(c)
              /\ WriteEnds(c, Seal(full, Target(c)), 0, NextId(c), TRUE)
              /\ UNCHANGED faults
           \* The sync of the segment being rolled fails: it is neither active nor sealed.
           \/ /\ Rolls(c) /\ Fault("seal")
              /\ WriteEnds(c, [files |-> files, synced |-> synced, sealed |-> writer.sealed],
                           0, writer.next, FALSE)
           \* The new segment cannot be created.
           \/ /\ Opens(c) /\ Fault("write")
              /\ WriteEnds(c, Rolled(c), 0, NextId(c), FALSE)
           \* write_all fails, perhaps after part of the frame.
           \/ /\ Fault("write")
              /\ WriteEnds(c, Opened(c), Target(c), NextId(c), FALSE)
           \/ /\ Fault("partial")
              /\ WriteEnds(c, Wrote(c, Garbage), Target(c), NextId(c), FALSE)
           \* The frame is written and the sync of the full segment fails.
           \/ /\ Fills(c) /\ Fault("seal")
              /\ WriteEnds(c, full, 0, NextId(c), FALSE)
        /\ UNCHANGED <<wmFile, ring, fatal, unsent, cmds, mode, hist, crashes, scenario>>

Flushed == \E c \in writer.wms : c.kind = "flush"

SyncIsDue == (writer.done # {} /\ SyncOnWrite) \/ Flushed

\* The group's one sync of the active segment.
SyncGroup ==
    LET due == SyncIsDue /\ writer.active # 0
    IN  /\ writer.phase = "write"
        /\ writer.todo = {}
        /\ \/ /\ synced' = IF due THEN With(synced, writer.active, Len(files[writer.active]))
                                  ELSE synced
              /\ writer' = [writer EXCEPT !.phase = "finish"]
              /\ UNCHANGED faults
           \/ /\ due /\ Fault("sync")
              /\ writer' = [writer EXCEPT !.phase = "finish", !.failed = TRUE]
              /\ UNCHANGED synced
        /\ UNCHANGED <<files, wmFile, ring, fatal, unsent, cmds, mode, hist, crashes, scenario>>

\* final_res of an append
Succeeded(d) == d.ok /\ ~writer.failed

\* AppendReservation::finish and the reply to the sender.  A slot discarded meanwhile
\* is left alone; a failure rolls the slot back, sends the watermark and is fatal.
Finish(d) ==
    LET g    == d.cmd.signal
        seq  == d.cmd.seq
        ok   == Succeeded(d)
        held == seq \in DOMAIN ring[g].slots
    IN  /\ writer.phase = "finish"
        /\ d \in writer.done
        /\ writer' = [writer EXCEPT !.done = @ \ {d}]
        /\ ring' = IF ~held THEN ring
                   ELSE IF ok
                   THEN [ring EXCEPT ![g].slots[seq] = [@ EXCEPT !.state = "Queued", !.at = d.at]]
                   ELSE [ring EXCEPT ![g] = DropSlots(@, {seq})]
        /\ fatal' = (fatal \/ ~ok)
        /\ cmds' = IF ok \/ ~held THEN cmds
                   ELSE cmds \union {[kind |-> "update", ack |-> FALSE,
                                      wm |-> [h \in Signals |-> ring'[h].committed]]}
        /\ hist' = [hist EXCEPT !.accepted = IF ok THEN @ \union {d.cmd.msg} ELSE @]
        /\ UNCHANGED <<files, synced, wmFile, unsent, mode, crashes, faults, scenario>>

\* Mutant: what could not be written stays staged.
StagedAnyway == writer.staged

\* staged_watermark after a failure
Restaged == writer.persisted

\* write_watermark_atomic; a watermark that could not be written is staged no longer.
WriteWatermark ==
    /\ writer.phase = "finish"
    /\ writer.done = {}
    /\ \/ /\ ~writer.dirty
          /\ writer' = [writer EXCEPT !.phase = "reply", !.failed = FALSE]
          /\ UNCHANGED <<wmFile, faults>>
       \/ /\ writer.dirty /\ ~writer.failed
          /\ wmFile' = writer.staged
          /\ writer' = [writer EXCEPT !.phase = "reply", !.persisted = writer.staged]
          /\ UNCHANGED faults
       \/ /\ writer.dirty
          /\ IF writer.failed THEN UNCHANGED faults ELSE Fault("watermark")
          /\ writer' = [writer EXCEPT !.phase = "reply", !.failed = TRUE, !.staged = Restaged]
          /\ UNCHANGED wmFile
    /\ UNCHANGED <<files, synced, ring, fatal, unsent, cmds, mode, hist, crashes, scenario>>

\* Collect the sealed segments the new watermark covers, then answer: an ack whose
\* watermark was not written fails the buffer.
CollectAndReply ==
    LET gone  == IF writer.dirty /\ ~writer.failed
                 THEN Reclaimable(writer.sealed, writer.persisted) ELSE {}
        acks  == {c \in writer.wms : c.ack}
    IN  /\ writer.phase = "reply"
        /\ files' = Without(files, gone)
        /\ synced' = Without(synced, gone)
        /\ writer' = [writer EXCEPT
                        !.phase = "idle", !.wms = {}, !.dirty = FALSE, !.failed = FALSE,
                        !.sealed = {seg \in @ : seg.id \notin gone}]
        /\ fatal' = (fatal \/ (writer.failed /\ acks # {}))
        /\ hist' = [hist EXCEPT !.acked = IF writer.failed THEN @
                                             ELSE Merge(@, acks)]
        /\ UNCHANGED <<wmFile, ring, unsent, cmds, mode, crashes, faults, scenario>>

-----------------------------------------------------------------------------
(* Crash and recovery.                                                      *)

\* What a process leaves behind: the files, and nothing of its memory.
Stop ==
    /\ mode' = "down"
    /\ ring' = [g \in Signals |-> EmptyRing]
    /\ fatal' = FALSE
    /\ unsent' = 0
    /\ cmds' = {}
    /\ writer' = IdleWriter(wmFile, 1, {})
    /\ UNCHANGED <<wmFile, hist, faults, scenario>>

\* The process dies, in the middle of anything: of a write too, which leaves a torn
\* frame at the end of the active segment.
Crash ==
    /\ mode # "down"
    /\ crashes < MaxCrashes
    /\ crashes' = crashes + 1
    /\ \/ files' = files
       \/ /\ writer.todo # {} /\ writer.active # 0
          /\ files' = [files EXCEPT ![writer.active] = Append(@, Garbage)]
    /\ Stop
    /\ UNCHANGED synced

\* The machine dies: each file keeps what was synced, and any number of the frames after it.
LosePower ==
    /\ PowerLoss
    /\ crashes < MaxCrashes
    /\ crashes' = crashes + 1
    /\ \E kept \in [DOMAIN files -> 0..MaxOf({Len(files[id]) : id \in DOMAIN files})] :
        /\ \A id \in DOMAIN files : synced[id] <= kept[id] /\ kept[id] <= Len(files[id])
        /\ files' = [id \in DOMAIN files |-> SubSeq(files[id], 1, kept[id])]
        /\ synced' = kept
    /\ Stop

\* WriterCommand::Shutdown: commands still in the channel are dropped with it, and the
\* active segment is synced.
Shutdown ==
    /\ mode = "running"
    /\ writer.phase = "idle"
    /\ crashes < MaxCrashes
    /\ crashes' = crashes + 1
    /\ synced' = IF writer.active = 0 THEN synced
                 ELSE With(synced, writer.active, Len(files[writer.active]))
    /\ Stop
    /\ UNCHANGED files

\* recover_single_segment reads up to the first frame it cannot decode.
Decodable(frames) ==
    LET bad == {i \in DOMAIN frames : frames[i] = Garbage}
    IN  IF bad = {} THEN frames ELSE SubSeq(frames, 1, Min(bad) - 1)

Scanned(id) == Decodable(files[id])

\* The places of the frames it finds, by segment and frame.
FoundPlaces == UNION {{id} \X DOMAIN Scanned(id) : id \in DOMAIN files}

FrameAt(p) == files[p[1]][p[2]]

\* Mutant: the frames that were found are not looked at.
NextSeqAfterWatermark(g, seqs) == wmFile[g] + 1

NextSeq(g, seqs) == Max({wmFile[g]} \union seqs) + 1

\* load_initial_watermark and record_recovered_frame for every frame of a signal.
RecoveredRing(g) ==
    LET found == {p \in FoundPlaces : FrameAt(p).signal = g}
        live  == {p \in found : FrameAt(p).seq > wmFile[g]}
    IN  [next  |-> NextSeq(g, {FrameAt(p).seq : p \in found}),
         slots |-> [s \in {FrameAt(p).seq : p \in live} |->
                      LET p == CHOOSE q \in live : FrameAt(q).seq = s
                      IN  [state |-> "Queued", msg |-> FrameAt(p).msg, at |-> p]],
         committed |-> wmFile[g]]

\* open_and_recover, to the point where the recovered watermark is on disk.  A torn
\* tail is truncated; a segment with nothing to replay is left for the next step.
Recover ==
    LET rings == [g \in Signals |-> Advance(RecoveredRing(g))]
        wm    == Merge(wmFile, {FlushWatermark([g \in Signals |-> rings[g].committed])})
        Live(id) == \E f \in ToSet(Scanned(id)) : f.seq > wmFile[f.signal]
    IN  /\ mode = "down"
        /\ files' = [id \in DOMAIN files |-> Scanned(id)]
        /\ synced' = [id \in DOMAIN files |-> IF Scanned(id) = files[id] THEN synced[id]
                                              ELSE Len(Scanned(id))]
        /\ wmFile' = wm
        /\ ring' = rings
        /\ writer' = IdleWriter(wm, MaxOf(DOMAIN files) + 1,
                        {[id |-> id, maxSeq |-> MaxSeqs(Scanned(id))] :
                           id \in {id \in DOMAIN files : Live(id)}})
        /\ mode' = "recovering"
        /\ UNCHANGED <<fatal, unsent, cmds, hist, crashes, faults, scenario>>

\* The obsolete segments are deleted and the writer thread starts.
DeleteObsolete ==
    LET kept == {seg.id : seg \in writer.sealed}
    IN  /\ mode = "recovering"
        /\ files' = [id \in kept |-> files[id]]
        /\ synced' = [id \in kept |-> synced[id]]
        /\ mode' = "running"
        /\ UNCHANGED <<wmFile, ring, fatal, unsent, cmds, writer, hist, crashes, faults, scenario>>

Init ==
    /\ files = <<>>
    /\ synced = <<>>
    /\ wmFile = [g \in Signals |-> 0]
    /\ ring = [g \in Signals |-> EmptyRing]
    /\ fatal = FALSE
    /\ unsent = 0
    /\ cmds = {}
    /\ writer = IdleWriter(wmFile, 1, {})
    /\ mode = "running"
    /\ hist = [sent |-> 0, accepted |-> {}, resolved |-> {}, acked |-> [g \in Signals |-> 0], delivered |-> {},
               finalized |-> 0]
    /\ crashes = 0
    /\ faults = 0
    /\ scenario \in Scenarios

Next ==
    \/ \E g \in Signals : Send(g) \/ \E seq \in 1..MaxMsgs : Ack(g, seq)
    \/ SendWatermark
    \/ FinalizeShutdown
    \/ TakeGroup
    \/ \E c \in writer.todo : WriteFrame(c)
    \/ SyncGroup
    \/ \E d \in writer.done : Finish(d)
    \/ WriteWatermark
    \/ CollectAndReply
    \/ Crash
    \/ LosePower
    \/ Shutdown
    \/ Recover
    \/ DeleteObsolete

Spec == Init /\ [][Next]_vars

-----------------------------------------------------------------------------
(* Properties                                                               *)

\* The state is well formed: the writer's active segment exists and is not sealed, what is
\* sealed exists while the process runs, no watermark is ahead of the sequence numbers
\* given out, and the persisted one is the file's (write_watermark_atomic, writer_loop).
TypeOK ==
    /\ mode \in {"running", "recovering", "down"}
    /\ fatal \in BOOLEAN
    /\ unsent \in Nat
    /\ DOMAIN synced = DOMAIN files
    /\ \A id \in DOMAIN files : synced[id] \in 0..Len(files[id])
    /\ writer.active = 0 \/ writer.active \in DOMAIN files \ {seg.id : seg \in writer.sealed}
    /\ {seg.id : seg \in writer.sealed} \subseteq DOMAIN files
    /\ writer.persisted = wmFile
    /\ \A g \in Signals :
        /\ ring[g].committed \in 0..(ring[g].next - 1)
        /\ DOMAIN ring[g].slots \subseteq (ring[g].committed + 1)..(ring[g].next - 1)
        /\ writer.persisted[g] <= writer.staged[g]
        /\ mode = "running" => writer.staged[g] <= ring[g].committed

\* The frame of batch m would be found by a recovery that starts now.
Replayable(m) ==
    \E id \in DOMAIN files : \E i \in DOMAIN Scanned(id) :
        /\ files[id][i].msg = m
        /\ files[id][i].seq > wmFile[files[id][i].signal]
        /\ PowerLoss => i <= synced[id]

\* At every instant, also between a group's write, its sync, the watermark file and
\* the deletion of segments, and again during recovery, a crash loses no batch whose
\* send returned Ok and that nothing has resolved yet: "survives process crash and
\* restart on the same volume", and with sync_on_write a power loss too.
CrashSafe == \A m \in hist.accepted \ hist.resolved : Replayable(m)

\* A batch that waits can be read back: its slot names a file that still exists and the
\* place in it where the batch's own frame is.  And no segment is kept for nothing:
\* while the buffer works and the writer is idle, every file is the active one or holds
\* a frame above the watermark.
SegmentsMatchRings ==
    /\ mode = "running" =>
        \A g \in Signals : \A seq \in DOMAIN ring[g].slots :
            LET slot == ring[g].slots[seq]
            IN  slot.state = "Queued" =>
                    /\ slot.at[1] \in DOMAIN files
                    /\ slot.at[2] \in DOMAIN files[slot.at[1]]
                    /\ files[slot.at[1]][slot.at[2]] =
                          [signal |-> g, seq |-> seq, msg |-> slot.msg]
    /\ mode = "running" /\ ~fatal /\ writer.phase = "idle" =>
        \A id \in DOMAIN files :
            \/ id = writer.active
            \/ \E f \in ToSet(files[id]) : f.seq > wmFile[f.signal]

\* An ack that returned Ok has its watermark on disk, whichever group it was in, whether
\* or not an earlier group failed to write it: what it covers is not delivered again.
AckDurable == \A g \in Signals : hist.acked[g] <= wmFile[g]

\* A sequence number under which a batch was delivered names no other batch, ever: the
\* sinks' labels and delivery tokens are made of it.  docs/buffer.md: "monotonic per
\* buffer, persisted across restarts".
SeqNamesOneBatch ==
    \A g \in Signals : \A d1, d2 \in hist.delivered :
        d1[1] = g /\ d2[1] = g /\ d1[2] = d2[2] => d1[3] = d2[3]

\* Crashes and shutdowns of the process alone never make it name another batch.
SeqSurvivesCrash == ~PowerLoss => SeqNamesOneBatch

=============================================================================
