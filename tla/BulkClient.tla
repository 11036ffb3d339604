----------------------------- MODULE BulkClient -----------------------------
(* HttpClient::send_bulk of the Elasticsearch sink: one bulk payload, sent to  *)
(* the endpoints in turn until every document has a final answer or the        *)
(* retries are used up; a retry holds only the documents the cluster was too   *)
(* busy for.  Documents are named by their place in the payload.               *)
EXTENDS Places

CONSTANTS
    Endpoints,     \* Number of configured endpoints.
    Documents,     \* Documents of the payload.
    BulkRetries    \* max_retries.

ASSUME BulkClientAssumption ==
    Endpoints \in Nat \ {0} /\ Documents \in Nat \ {0} /\ BulkRetries \in Nat

VARIABLES
    call,       \* Locals of send_bulk.
    cooling,    \* Endpoints in cooldown: endpoint_cooldowns.
    current,    \* current_endpoint, modulo the number of endpoints.
    verdict     \* Last answer the cluster gave for each document.

bulkVars == <<call, cooling, current, verdict>>

\* Statuses of an item: 2xx, 429/500/503, and every other code from 400 on.
Statuses == {"created", "busy", "refused"}
IsRecoverable(status) == status = "busy"
IsUnrecoverable(status) == status = "refused"

TryNewClient ==
    /\ cooling = {} /\ current = 0

BulkInit ==
    /\ TryNewClient
    /\ call = [state |-> "pick", payload |-> [i \in 1..Documents |-> i], active |-> << >>,
               items |-> << >>, attempt |-> 0, endpoint |-> 0, result |-> "none"]
    /\ verdict = [d \in 1..Documents |-> "none"]

BulkTypeOK ==
    /\ call.state \in {"pick", "posting", "backoff", "returned"}
    /\ call.attempt \in 0..(BulkRetries + 1)
    /\ call.result \in {"none", "Ok", "OkWithErrors", "BulkFailed", "AuthenticationFailed", "Http"}
    /\ cooling \subseteq 0..(Endpoints - 1)
    /\ current \in 0..(Endpoints - 1)

-----------------------------------------------------------------------------
(* Endpoints, which all calls of the sink share                                *)

\* The first endpoint from start on that is not in cooldown, or start itself.
NextEndpoint(start) ==
    LET at(offset) == (start + offset) % Endpoints
        free == {offset \in 0..(Endpoints - 1) : at(offset) \notin cooling}
    IN  IF free = {} THEN start ELSE at(CHOOSE o \in free : \A p \in free : o <= p)

MarkEndpointFailed(e) == cooling' = cooling \cup {e}

\* A single endpoint is used without looking at its cooldown.
PickEndpoint ==
    /\ call.state = "pick"
    /\ \/ Endpoints = 1 /\ UNCHANGED current
          /\ call' = [call EXCEPT !.state = "posting", !.endpoint = 0]
       \/ Endpoints > 1 /\ current' = (current + 1) % Endpoints
          /\ call' = [call EXCEPT !.state = "posting", !.endpoint = NextEndpoint(current)]
    /\ UNCHANGED <<cooling, verdict>>

CooldownEnds(e) ==
    /\ e \in cooling /\ cooling' = cooling \ {e}
    /\ UNCHANGED <<call, current, verdict>>

\* Another call of the sink uses an endpoint, and it may fail.
OtherCall ==
    /\ Endpoints > 1
    /\ current' = (current + 1) % Endpoints
    /\ UNCHANGED cooling \/ MarkEndpointFailed(NextEndpoint(current))
    /\ UNCHANGED <<call, verdict>>

-----------------------------------------------------------------------------
(* The answer to one request                                                   *)

Return(result) == call' = [call EXCEPT !.state = "returned", !.result = result]

\* The retry counter of every kind of transient failure.
RetryOrFail(next) ==
    IF call.attempt + 1 >= BulkRetries + 1
    THEN call' = [call EXCEPT !.attempt = @ + 1, !.state = "returned", !.result = "BulkFailed"]
    ELSE call' = [next EXCEPT !.attempt = @ + 1, !.state = "backoff"]

\* No answer, an error before the request is sent, or a transient HTTP status.
PostFails ==
    /\ call.state = "posting"
    /\ MarkEndpointFailed(call.endpoint)
    /\ RetryOrFail(call)
    /\ UNCHANGED <<current, verdict>>

\* check_bulk_status and the parsing of the body: these are not retried.
PostRefused ==
    /\ call.state = "posting"
    /\ \E result \in {"AuthenticationFailed", "BulkFailed", "Http"} : Return(result)
    /\ UNCHANGED <<cooling, current, verdict>>

\* merge_retry_items: the answers of a retry replace those at its indices.
MergeRetryItems(items, active, answers) ==
    [i \in 1..Len(items) |->
        IF \E k \in 1..Len(answers) : active[k] = i
        THEN answers[CHOOSE k \in 1..Len(answers) : active[k] = i]
        ELSE items[i]]

\* inspect_active_items: positions in the request that may be retried.
InspectActiveItems(items, active) ==
    Ascending({k \in 1..Len(active) : IsRecoverable(items[active[k]])})

ExtractSubPayload(payload, positions) ==
    [k \in 1..Len(positions) |-> payload[positions[k]]]

\* Mutant: the positions in the last request are taken for places in the payload.
NextIndicesUnmapped(active, positions) == positions

\* Places in the payload of the items that are sent again.
NextIndices(active, positions) == [k \in 1..Len(positions) |-> active[positions[k]]]

\* A parsed answer; "errors" is the cluster's summary of the items.
Answered ==
    /\ call.state = "posting"
    /\ \E answers \in [1..Len(call.payload) -> Statuses] :
         LET errors == \E k \in 1..Len(answers) : answers[k] # "created"
             first == call.items = << >>
             items == IF first THEN answers ELSE MergeRetryItems(call.items, call.active, answers)
             active == IF first THEN [i \in 1..Len(answers) |-> i] ELSE call.active
             positions == InspectActiveItems(items, active)
         IN  /\ verdict' = [d \in 1..Documents |->
                    IF \E k \in 1..Len(answers) : call.payload[k] = d
                    THEN answers[CHOOSE k \in 1..Len(answers) : call.payload[k] = d]
                    ELSE verdict[d]]
             /\ \/ /\ first /\ ~errors
                   /\ call' = [call EXCEPT !.state = "returned", !.items = answers, !.result = "Ok"]
                \/ /\ ~(first /\ ~errors) /\ positions = << >>
                   /\ call' = [call EXCEPT !.state = "returned", !.items = items, !.active = active,
                         !.result = IF \E i \in 1..Len(items) : IsUnrecoverable(items[i])
                                    THEN "OkWithErrors" ELSE "Ok"]
                \/ /\ positions # << >>
                   /\ RetryOrFail([call EXCEPT !.items = items,
                         !.payload = ExtractSubPayload(@, positions),
                         !.active = NextIndices(active, positions)])
    /\ UNCHANGED <<cooling, current>>

\* handle_bulk_transient_delay, sleep_backoff: the delay ends.
BackoffEnds ==
    /\ call.state = "backoff"
    /\ call' = [call EXCEPT !.state = "pick"]
    /\ UNCHANGED <<cooling, current, verdict>>

BulkNext ==
    \/ PickEndpoint \/ PostFails \/ PostRefused \/ Answered \/ BackoffEnds
    \/ \E e \in 0..(Endpoints - 1) : CooldownEnds(e)
    \/ OtherCall

BulkSpec == BulkInit /\ [][BulkNext]_bulkVars

-----------------------------------------------------------------------------
\* A document the cluster has answered for good is not sent again by the same
\* call, and a call that returns Ok reports for every document the answer that
\* the cluster gave for that document last, over retries of retries.
BulkAnswersMatch ==
    /\ call.state \in {"pick", "posting", "backoff"} =>
           \A k \in 1..Len(call.payload) : verdict[call.payload[k]] \in {"none", "busy"}
    /\ call.result \in {"Ok", "OkWithErrors"} =>
           /\ call.items = verdict
           /\ \A d \in 1..Documents : verdict[d] \in {"created", "refused"}
           /\ call.result = "Ok" <=> \A d \in 1..Documents : verdict[d] = "created"

=============================================================================
