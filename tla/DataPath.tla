------------------------------ MODULE DataPath ------------------------------
(* What happens to a batch apart from buffering and delivery: the transformer  *)
(* with its workers, guests and host functions, the Elasticsearch client, and  *)
(* the conversions on the way, from the decoded request to the layout a sink   *)
(* writes.  They share no state, so a behaviour runs one of them: the workers  *)
(* of a transformer, the host calls of its guests, one bulk call, or one       *)
(* conversion or start of the program, called a job.                           *)
EXTENDS WasmDispatcher, GuestCall, HostCalls, BulkClient, OtlpCodec,
        VariantEncoding, RowLayout, Startup

CONSTANTS
    DecodeJobs,     \* Requests, with the compliance mode they meet.
    VariantJobs     \* Columns of attributes to be encoded.

pathVars == <<vars, hostVars, bulkVars, jobVars>>

-----------------------------------------------------------------------------
(* The jobs                                                                   *)

\* The decoder's batch goes through the compliance engine.
Assess(j, decoded) ==
    IF decoded.result = "Err" THEN [kind |-> "Err", rows |-> << >>, verified |-> FALSE]
    ELSE AssessAndRemap(j.mode, j.mappings, [rows |-> decoded.rows, verified |-> FALSE])

DecodeAnswer(j) ==
    LET decoded == Decode(j.signal, j.request)
    IN  [decoded |-> decoded, assessed |-> Assess(j, decoded)]

AnswerDecode == Answer("decode", {DecodeAnswer(job)})
AnswerVariant == Answer("variant", {TransformColumn(job.cells, job.nullable)})

AnswerJob ==
    \/ AnswerDecode /\ UNCHANGED <<vars, hostVars, bulkVars>>
    \/ AnswerVariant /\ UNCHANGED <<vars, hostVars, bulkVars>>
    \/ AnswerGuest /\ UNCHANGED <<vars, hostVars, bulkVars>>
    \/ AnswerLayout /\ UNCHANGED <<vars, hostVars, bulkVars>>
    \/ AnswerDocument /\ UNCHANGED <<vars, hostVars, bulkVars>>
    \/ AnswerStart /\ UNCHANGED <<vars, hostVars, bulkVars>>

-----------------------------------------------------------------------------
(* One part runs, the others are done                                         *)

\* The transformer's construction was refused.
TransformerDone ==
    /\ WorkerInit /\ ~Acceptable(config)
    /\ phase = "returned" /\ result = "Err"
    /\ taken = 0 /\ hand = None
    /\ nextWorker = 0 /\ offset = 0 /\ from = 0 /\ firstFull = -1

\* No guest calls the host.
HostDone == HostInit /\ \A g \in Guests : program[g] = << >>
HostRuns == HostInit /\ \E g \in Guests : program[g] # << >>

\* The client is built, and no call is made.
BulkDone ==
    /\ TryNewClient
    /\ call = [state |-> "idle", payload |-> << >>, active |-> << >>, items |-> << >>,
               attempt |-> 0, endpoint |-> 0, result |-> "none"]
    /\ verdict = [d \in 1..Documents |-> "none"]

JobsDone == job = NoJob /\ answer = << >>
JobAsked ==
    \/ Asked(DecodeJobs) \/ Asked(VariantJobs) \/ Asked(GuestJobs)
    \/ Asked(LayoutJobs) \/ Asked(DocumentJobs) \/ Asked(StartJobs)

PathInit ==
    \/ Init /\ HostDone /\ BulkDone /\ JobsDone
    \/ TransformerDone /\ HostRuns /\ BulkDone /\ JobsDone
    \/ TransformerDone /\ HostDone /\ BulkInit /\ JobsDone
    \/ TransformerDone /\ HostDone /\ BulkDone /\ JobAsked

PathNext ==
    \/ Next /\ UNCHANGED <<hostVars, bulkVars, jobVars>>
    \/ HostNext /\ UNCHANGED <<vars, bulkVars, jobVars>>
    \/ call.state # "idle" /\ BulkNext /\ UNCHANGED <<vars, hostVars, jobVars>>
    \/ AnswerJob

\* The scheduling of module WasmDispatcher.
PathSpec == PathInit /\ [][PathNext]_pathVars /\ Fairness

-----------------------------------------------------------------------------
(* Properties                                                                 *)

\* What is read from a request reaches the rows unmixed and in order, a batch is
\* called verified only if its rows are, and attributes that are packed into a
\* Variant column can be read back as they were, except that an integer above
\* i64::MAX comes back as the nearest double.
ReadsAsSent ==
    /\ Done("decode") => /\ DecodesAsSent(job.signal, job.request, answer[1].decoded)
                         /\ VerifiedIsNamed(job.mode, answer[1].assessed)
    /\ Done("variant") => ReadsBack(job.cells, answer[1])

=============================================================================
