------------------------------ MODULE GuestCall ------------------------------
(* One call of the guest's datalake_transform: what WasmWorker::execute_batch  *)
(* makes of the guest's response, which of the guest's buffers it gives back,  *)
(* and what the schema guard lets through.  A batch is a sequence of columns   *)
(* with a row count and schema metadata; of a column's values the guard sees   *)
(* only whether all of them are null.                                          *)
EXTENDS Naturals, Sequences, FiniteSets, SequencesExt, Jobs, Places, Sums

CONSTANTS
    Immutable,        \* IMMUTABLE_COLUMNS.
    ComplianceKeys,   \* Metadata keys with the prefix otel::compliance::.
    GuestBatchLimit,  \* MAX_GUEST_BATCH_COUNT.
    OutputLimit,      \* The 64 MiB limit on what one response may hold.
    GuestJobs         \* Batches, with a guest's response to each.

\* A batch, and a descriptor of an output with the batches that decode from it.
GuestColumns == [name : STRING, type : STRING, nullable : BOOLEAN, empty : BOOLEAN]
IsGuestBatch(b) == b.cols \in Seq(GuestColumns) /\ b.rows \in Nat
IsDescriptor(d) ==
    /\ d.buf \in STRING /\ d.size \in Nat /\ d.corrupt \in BOOLEAN
    /\ d.batches \in Seq({d.batches[i] : i \in 1..Len(d.batches)})
    /\ \A i \in 1..Len(d.batches) : IsGuestBatch(d.batches[i])

\* A buffer reference is a name; these are no buffers, and "ipc" is the input's.  A guest
\* may put any reference anywhere, and the same one in several places; references that
\* differ but overlap are different ones to the host.
NoBuffers == {"null", "outside"}

ASSUME GuestJobsAssumption ==
    \A j \in GuestJobs :
        /\ j.kind = "guest" /\ j.mode \in {"strict", "defensive"}
        /\ IsGuestBatch(j.batch)
        /\ \A a, b \in 1..Len(j.batch.cols) : j.batch.cols[a].name = j.batch.cols[b].name => a = b
        /\ j.response.descs \in Seq({j.response.descs[i] : i \in 1..Len(j.response.descs)})
        /\ \A i \in 1..Len(j.response.descs) : IsDescriptor(j.response.descs[i])
        /\ j.response.status \in Nat
        /\ {j.response.header, j.response.message, j.response.table} \subseteq STRING

GuestErr == [result |-> "Err", batches |-> << >>]

-----------------------------------------------------------------------------
(* The schema guard                                                           *)

Names(cols) == {cols[i].name : i \in 1..Len(cols)}

\* A guest may repeat a name: index_of finds the first column that has it, and the
\* map of backfill_missing_columns holds the last.
PlacesNamed(cols, name) == {i \in 1..Len(cols) : cols[i].name = name}
FirstColumn(cols, name) == cols[Min(PlacesNamed(cols, name))]
LastColumn(cols, name) == cols[Max(PlacesNamed(cols, name))]

\* A field and its children made nullable; "list" has children that are not.
MakeNullable(col) ==
    [col EXCEPT !.nullable = TRUE, !.type = IF @ = "list" THEN "listOfNullable" ELSE @]

\* Mutant: only dropped columns are noticed, not wiped ones.
VerifyImmutabilityNames(in, out) ==
    \A name \in Immutable \cap Names(in.cols) :
        name \in Names(out.cols) \/ out.rows = 0

\* A core column that held data is still there, of its type, and not wiped.
VerifyImmutability(in, out) ==
    \A name \in Immutable :
        LET had == name \in Names(in.cols) /\ ~FirstColumn(in.cols, name).empty
        IN  IF name \in Names(out.cols)
            THEN /\ name \in Names(in.cols) =>
                        FirstColumn(out.cols, name).type = FirstColumn(in.cols, name).type
                 /\ had /\ out.rows > 0 => ~FirstColumn(out.cols, name).empty
            ELSE had => out.rows = 0

Fields(cols) == [i \in 1..Len(cols) |->
    [name |-> cols[i].name, type |-> cols[i].type, nullable |-> cols[i].nullable]]

VerifyStrict(in, out) == Fields(in.cols) = Fields(out.cols) /\ in.meta = out.meta

\* The column that is taken for one of the input has its type and nullability, every
\* column under a new name is nullable, and compliance metadata that came in is not
\* changed.  What else stands under the input's names is not looked at.
BackfillAccepts(in, out) ==
    /\ \A i \in 1..Len(in.cols) : in.cols[i].name \in Names(out.cols) =>
          LET c == LastColumn(out.cols, in.cols[i].name)
          IN  c.type = in.cols[i].type /\ c.nullable = in.cols[i].nullable
    /\ \A i \in 1..Len(out.cols) : out.cols[i].name \notin Names(in.cols) => out.cols[i].nullable
    /\ \A k \in ComplianceKeys \cap DOMAIN in.meta \cap DOMAIN out.meta : out.meta[k] = in.meta[k]

\* Mutant: the guest's metadata wins.
MergeMetadataOver(in, out) == out.meta @@ in.meta

\* Metadata of the input, and what the guest added outside the compliance keys.
MergeMetadata(in, out) ==
    [k \in DOMAIN in.meta \cup (DOMAIN out.meta \ ComplianceKeys) |->
        IF k \in DOMAIN in.meta THEN in.meta[k] ELSE out.meta[k]]

\* The input's columns in their order, missing ones as nulls, then new ones.
Backfill(in, out) ==
    LET kept == [i \in 1..Len(in.cols) |->
            IF in.cols[i].name \in Names(out.cols) THEN LastColumn(out.cols, in.cols[i].name)
            ELSE [MakeNullable(in.cols[i]) EXCEPT !.empty = TRUE]]
        new == AtPlaces(out.cols, {i \in 1..Len(out.cols) : out.cols[i].name \notin Names(in.cols)})
    IN  [cols |-> kept \o new, rows |-> out.rows, meta |-> MergeMetadata(in, out)]

\* What dispatch_outcome does with one output batch; Err carries no batch.
Guarded(guardMode, in, out) ==
    LET accepted == IF guardMode = "strict" THEN VerifyStrict(in, out) ELSE BackfillAccepts(in, out)
    IN  IF ~VerifyImmutability(in, out) \/ ~accepted THEN GuestErr
        ELSE [result |-> "Ok",
              batches |-> <<IF guardMode = "strict" THEN out ELSE Backfill(in, out)>>]

\* The SDK's nullify_column, with the schema the caller asks for.
NullifyColumn(in, target, name) ==
    IF \/ name \in Immutable \/ name \notin Names(in.cols)
       \/ Len(target.cols) # Len(in.cols)
       \/ \E i \in 1..Len(in.cols) :
             \/ target.cols[i].name # in.cols[i].name
             \/ target.cols[i].type # in.cols[i].type
             \/ in.cols[i].name # name /\ target.cols[i].nullable # in.cols[i].nullable
       \/ ~FirstColumn(target.cols, name).nullable
    THEN GuestErr
    ELSE [result |-> "Ok", batches |-> <<[in EXCEPT
            !.cols = [i \in 1..Len(in.cols) |-> [in.cols[i] EXCEPT
                !.nullable = target.cols[i].nullable, !.empty = @ \/ i = Min(PlacesNamed(in.cols, name))]],
            !.meta = target.meta @@ in.meta]>>]

-----------------------------------------------------------------------------
(* The response                                                               *)

\* push_in_bounds_alloc leaves out what is no buffer.
Freeable(refs) == AtPlaces(refs, {i \in 1..Len(refs) : refs[i] \notin NoBuffers})

\* The V1 packed pointer and length; the legacy call returns a pointer only.
HeaderIsReadable(resp) ==
    IF resp.abi = "V1" THEN resp.header \notin NoBuffers /\ ~resp.short ELSE resp.header # "outside"

\* Bytes and batches of the first n descriptors.
SizeOf(descs, n) == SumOf([i \in 1..n |-> descs[i].size])
Decoded(descs, n) == FlattenSeq([i \in 1..n |-> descs[i].batches])

\* A descriptor that ends the extraction, and whether its buffer counts as taken.
DescriptorFails(descs, i) ==
    \/ descs[i].buf \in NoBuffers
    \/ SizeOf(descs, i) > OutputLimit
    \/ descs[i].corrupt
    \/ Len(Decoded(descs, i)) > GuestBatchLimit

\* Mutant: a buffer is freed once for each descriptor, the input's too.
OutputsTakenAll(descs) == [i \in 1..Len(descs) |-> descs[i].buf]

\* extract_output_batches: the buffers it takes over.  An output written over the
\* input is freed as the input.
OutputsTaken(descs) ==
    LET n == CHOOSE n \in 0..Len(descs) :
                /\ \A i \in 1..n : ~DescriptorFails(descs, i)
                /\ n = Len(descs) \/ DescriptorFails(descs, n + 1)
        last == IF n < Len(descs) /\ SizeOf(descs, n + 1) <= OutputLimit THEN n + 1 ELSE n
    IN  AtPlaces([i \in 1..last |-> descs[i].buf], {i \in 1..last : descs[i].buf # "ipc"})

OutputsExtract(resp) ==
    /\ Len(resp.descs) <= GuestBatchLimit
    /\ resp.table # "outside"
    /\ \A i \in 1..Len(resp.descs) : ~DescriptorFails(resp.descs, i)

\* dispatch_outcome.
DispatchOutcome(guardMode, in, resp) ==
    LET outs == Decoded(resp.descs, Len(resp.descs))
        done == [i \in 1..Len(outs) |-> Guarded(guardMode, in, outs[i])]
    IN  CASE resp.status = 1 -> [result |-> "Discarded", batches |-> << >>]
          [] resp.status = 2 -> [result |-> "Rejected", batches |-> << >>]
          [] resp.status >= 3 -> [result |-> "Errored", batches |-> << >>]
          [] resp.status = 0 /\ resp.descs = << >> -> [result |-> "Emitted", batches |-> << >>]
          [] OTHER ->
                IF \/ resp.table = "null" \/ ~OutputsExtract(resp)
                   \/ \E i \in 1..Len(outs) : done[i].result = "Err"
                THEN GuestErr
                ELSE [result |-> "Emitted", batches |-> [i \in 1..Len(outs) |-> done[i].batches[1]]]

\* Buffers given back to the guest, in order; a response that cannot be read
\* gives back the input only, and a trap nothing.
FreedBuffers(resp) ==
    IF resp.trap THEN << >>
    ELSE IF ~HeaderIsReadable(resp) THEN <<"ipc">>
    ELSE Freeable(<<"ipc", resp.header, resp.message>>
            \o (IF resp.descs = << >> THEN << >> ELSE <<resp.table>>)
            \o (IF resp.status = 0 /\ resp.descs # << >> /\ resp.table \notin NoBuffers
                   /\ Len(resp.descs) <= GuestBatchLimit
                THEN OutputsTaken(resp.descs) ELSE << >>))

\* execute_batch, from the guest's answer on; an Err replaces the instance.
ExecuteBatch(guardMode, in, resp) ==
    LET outcome == IF resp.trap \/ ~HeaderIsReadable(resp) \/ resp.deallocTraps
                   THEN GuestErr ELSE DispatchOutcome(guardMode, in, resp)
    IN  [result |-> outcome.result, batches |-> outcome.batches, freed |-> FreedBuffers(resp)]

AnswerGuest == Answer("guest", {ExecuteBatch(job.mode, job.batch, job.response)})

GuestSpec == Asked(GuestJobs) /\ [][AnswerGuest]_jobVars

-----------------------------------------------------------------------------
(* What the host can rely on                                                  *)

\* A batch that is sent on still is the one that came in: its columns lead, with
\* their names and types, and what it says about compliance is what it said.  The
\* columns of Immutable have not lost their data, unless the guest gave several
\* columns of the name: then the guard looked at the first and took the last.
KeepsIdentity(guardMode, in, given, out) ==
    /\ guardMode = "strict" => Fields(out.cols) = Fields(in.cols) /\ out.meta = in.meta
    /\ \A i \in 1..Len(in.cols) :
          LET name == in.cols[i].name
          IN  /\ i <= Len(out.cols) /\ out.cols[i].name = name
              /\ out.cols[i].type \in {in.cols[i].type, MakeNullable(in.cols[i]).type}
              /\ name \in Immutable /\ ~in.cols[i].empty /\ out.rows > 0
                    /\ (\A a, b \in PlacesNamed(given.cols, name) : a = b) => ~out.cols[i].empty
    /\ \A k \in ComplianceKeys :
          /\ k \in DOMAIN in.meta <=> k \in DOMAIN out.meta
          /\ k \in DOMAIN in.meta => out.meta[k] = in.meta[k]

\* The buffers an answer hands over, each with its place.  The input's is back with any
\* answer, so an output that was written over it is no second place.
HandedOver(resp) ==
    {<<"input", 0, "ipc">>, <<"header", 0, resp.header>>, <<"message", 0, resp.message>>}
        \cup (IF resp.descs = << >> THEN {} ELSE {<<"table", 0, resp.table>>})
        \cup (IF resp.status = 0
              THEN {<<"output", i, resp.descs[i].buf>> :
                        i \in {i \in 1..Len(resp.descs) : resp.descs[i].buf # "ipc"}}
              ELSE {})

\* Only batches that keep their identity are sent on, one for each that the guest gave;
\* and an instance that is used again got back every buffer it handed over, exactly once
\* if it handed it over in one place.  (One that is named in several places is freed as
\* often: the host does not compare the pointers of an answer.)
GuestIsHeld(guardMode, in, resp, out) ==
    LET given == Decoded(resp.descs, Len(resp.descs))
        timesFreed(b) == Cardinality({i \in 1..Len(out.freed) : out.freed[i] = b})
    IN  /\ out.batches # << >> => Len(out.batches) = Len(given)
        /\ \A i \in 1..Len(out.batches) : KeepsIdentity(guardMode, in, given[i], out.batches[i])
        /\ out.result # "Err" =>
              \A h \in HandedOver(resp) : h[3] \notin NoBuffers =>
                  /\ timesFreed(h[3]) >= 1
                  /\ (\A g \in HandedOver(resp) : g[3] = h[3] => g = h) => timesFreed(h[3]) = 1

\* With pointers and columns of the guest's own choosing, repeated, missing or out of
\* bounds, what is sent on keeps its identity, and the guest's memory is given back.
GuestIsContained ==
    Done("guest") => GuestIsHeld(job.mode, job.batch, job.response, answer[1])

=============================================================================
