--------------------------- MODULE DataPathProofs ---------------------------
(***************************************************************************)
(* The Elasticsearch client's bulk call, for any number of documents,      *)
(* endpoints and retries; the transformer's workers, for any number of     *)
(* them, of batches and of reloads; and the conversions on the way of a    *)
(* batch, for any batch and configuration: what a guest may hand back and  *)
(* emit, how a start is validated, and where a sink puts the rows.         *)
EXTENDS WasmDispatcher, BulkClient, HostCalls, GuestCall, RowLayout, Startup, HelperTheorems,
        NaturalsInduction, SequenceTheorems

-----------------------------------------------------------------------------
(* The bulk call                                                            *)

Docs == 1..Documents

(* The locals of send_bulk. *)
BulkCalls ==
    [state : {"pick", "posting", "backoff", "returned"}, payload : Seq(Docs), active : Seq(Docs),
     items : {<< >>} \union [Docs -> Statuses], attempt : Nat, endpoint : 0..(Endpoints - 1),
     result : {"none", "Ok", "OkWithErrors", "BulkFailed", "AuthenticationFailed", "Http"}]

BulkShapes ==
    /\ call \in BulkCalls
    /\ verdict \in [Docs -> Statuses \union {"none"}]
    /\ current \in 0..(Endpoints - 1)
    /\ cooling \subseteq 0..(Endpoints - 1)

(* The next request holds the whole payload before the first answer, and then just  *)
(* the documents whose last answer was busy, each once and at the place its answer  *)
(* will be looked for.                                                              *)
SendsTheBusy ==
    call.state # "returned" =>
        /\ call.result = "none"
        /\ \A j, k \in 1..Len(call.payload) : call.payload[j] = call.payload[k] => j = k
        /\ call.items = << >> =>
              call.payload = [i \in Docs |-> i] /\ \A d \in Docs : verdict[d] = "none"
        /\ call.items # << >> =>
              /\ call.active = call.payload
              /\ call.items = verdict
              /\ \A k \in 1..Len(call.payload) : verdict[call.payload[k]] = "busy"
              /\ \A d \in Docs : verdict[d] = "busy" => \E k \in 1..Len(call.payload) : call.payload[k] = d

BulkInv == BulkShapes /\ SendsTheBusy /\ BulkAnswersMatch

(* A request's answers go to the documents of its payload, on the first and on      *)
(* every later request: merge_retry_items.                                          *)
LEMMA AnswersMerge ==
    ASSUME BulkInv, call.state = "posting",
           NEW answers \in [1..Len(call.payload) -> Statuses]
    PROVE  LET first == call.items = << >>
               items == IF first THEN answers ELSE MergeRetryItems(call.items, call.active, answers)
               active == IF first THEN [i \in 1..Len(answers) |-> i] ELSE call.active
               now == [d \in 1..Documents |->
                          IF \E k \in 1..Len(answers) : call.payload[k] = d
                          THEN answers[CHOOSE k \in 1..Len(answers) : call.payload[k] = d]
                          ELSE verdict[d]]
           IN  /\ Len(answers) = Len(call.payload)
               /\ items = now /\ now \in [Docs -> Statuses] /\ Len(items) = Documents
               /\ active = call.payload
               /\ \A k \in 1..Len(call.payload) : now[call.payload[k]] = answers[k]
               /\ \A d \in Docs : now[d] = "busy" => \E k \in 1..Len(call.payload) : call.payload[k] = d
  <1> DEFINE n == Len(call.payload)
             first == call.items = << >>
             items == IF first THEN answers ELSE MergeRetryItems(call.items, call.active, answers)
             active == IF first THEN [i \in 1..Len(answers) |-> i] ELSE call.active
             now == [d \in 1..Documents |->
                        IF \E k \in 1..Len(answers) : call.payload[k] = d
                        THEN answers[CHOOSE k \in 1..Len(answers) : call.payload[k] = d]
                        ELSE verdict[d]]
  <1>1. /\ call \in BulkCalls /\ verdict \in [Docs -> Statuses \union {"none"}]
        /\ SendsTheBusy /\ Documents \in Nat \ {0}
    BY BulkClientAssumption DEF BulkInv, BulkShapes
  <1>2. /\ call.payload \in Seq(Docs) /\ n \in Nat /\ DOMAIN call.payload = 1..n
        /\ \A k \in 1..n : call.payload[k] \in Docs
    BY <1>1 DEF BulkCalls
  <1>3. Len(answers) = n
    <2>1. answers \in Seq(Statuses)
      BY <1>2
    <2> QED BY <1>2, <2>1
  <1>4. ASSUME NEW k \in 1..n PROVE now[call.payload[k]] = answers[k]
    <2>1. \A j \in 1..n : call.payload[j] = call.payload[k] => j = k
      BY <1>1 DEF SendsTheBusy
    <2>2. now[call.payload[k]] = answers[CHOOSE j \in 1..n : call.payload[j] = call.payload[k]]
      BY <1>2, <1>3 DEF Docs
    <2>3. (CHOOSE j \in 1..n : call.payload[j] = call.payload[k]) = k
      BY <2>1
    <2> QED BY <2>2, <2>3
  <1>5. ASSUME NEW d \in Docs, ~\E k \in 1..n : call.payload[k] = d PROVE now[d] = verdict[d]
    BY <1>3, <1>5 DEF Docs
  <1>6. CASE first
    <2>1. call.payload = [i \in Docs |-> i]
      BY <1>1, <1>6 DEF SendsTheBusy
    <2>2. n = Documents
      <3>1. DOMAIN call.payload = 1..Documents
        BY <2>1 DEF Docs
      <3> QED BY <1>1, <1>2, <3>1
    <2>3. \A d \in Docs : call.payload[d] = d /\ d \in 1..n
      BY <2>1, <2>2 DEF Docs
    <2>4. \A d \in Docs : now[d] = answers[d]
      BY <1>4, <2>3
    <2>5. answers = now
      <3> HIDE DEF n
      <3>1. answers \in [Docs -> Statuses] /\ now = [d \in Docs |-> now[d]]
        BY <2>2 DEF n, Docs
      <3> HIDE DEF now
      <3> QED BY <2>4, <3>1
    <2>6. items = now /\ now \in [Docs -> Statuses] /\ Len(items) = Documents
      BY <1>3, <1>6, <2>2, <2>5 DEF Docs
    <2>7. active = call.payload
      BY <1>3, <1>6, <2>1, <2>2 DEF Docs
    <2>8. \A d \in Docs : \E k \in 1..n : call.payload[k] = d
      BY <2>3
    <2> QED BY <1>3, <1>4, <2>6, <2>7, <2>8
  <1>7. CASE ~first
    <2>1. /\ call.active = call.payload /\ call.items = verdict /\ verdict \in [Docs -> Statuses]
          /\ \A d \in Docs : verdict[d] = "busy" => \E k \in 1..n : call.payload[k] = d
      BY <1>1, <1>7 DEF SendsTheBusy, BulkCalls
    <2>2. Len(call.items) = Documents
      <3>1. call.items \in Seq(Statuses) /\ DOMAIN call.items = 1..Documents
        BY <1>1, <2>1 DEF Docs
      <3> QED BY <1>1, <3>1
    <2>3. items = now
      BY <1>7, <2>1, <2>2 DEF MergeRetryItems
    <2>4. ASSUME NEW d \in Docs PROVE now[d] \in Statuses
      <3>1. CASE \E k \in 1..n : call.payload[k] = d
        BY <1>4, <3>1, SMTT(60)
      <3>2. CASE ~\E k \in 1..n : call.payload[k] = d
        BY <1>5, <2>1, <3>2
      <3> QED BY <3>1, <3>2
    <2>5. now \in [Docs -> Statuses] /\ DOMAIN now = 1..Documents
      <3>1. DOMAIN now = Docs
        BY DEF Docs
      <3> QED BY <2>4, <3>1 DEF Docs
    <2>6. Len(now) = Documents
      <3> HIDE DEF now
      <3>1. now \in Seq(Statuses)
        BY <1>1, <2>5 DEF Docs
      <3> QED BY <1>1, <2>5, <3>1
    <2>7. active = call.payload
      BY <1>7, <2>1
    <2>8. \A d \in Docs : now[d] = "busy" => \E k \in 1..n : call.payload[k] = d
      BY <1>5, <2>1
    <2>9. Len(items) = Documents
      BY <2>3, <2>6
    <2> QED BY <1>3, <1>4, <2>3, <2>5, <2>7, <2>8, <2>9
  <1> QED BY <1>6, <1>7

(* A request that is answered: what it says is final for the documents it does not  *)
(* call busy, and the others are sent again.                                        *)
LEMMA AnsweredStep ==
    ASSUME BulkInv, Answered
    PROVE  BulkInv'
  <1>0. /\ call.state = "posting" /\ call \in BulkCalls /\ UNCHANGED <<cooling, current>>
        /\ BulkShapes /\ SendsTheBusy
    BY SMTT(60) DEF Answered, BulkInv, BulkShapes
  <1> DEFINE n == Len(call.payload)
             first == call.items = << >>
             Items(a) == IF first THEN a ELSE MergeRetryItems(call.items, call.active, a)
             Active(a) == IF first THEN [i \in 1..Len(a) |-> i] ELSE call.active
             Errors(a) == \E k \in 1..Len(a) : a[k] # "created"
             Positions(a) == InspectActiveItems(Items(a), Active(a))
             Now(a) == [d \in 1..Documents |->
                        IF \E k \in 1..Len(a) : call.payload[k] = d
                        THEN a[CHOOSE k \in 1..Len(a) : call.payload[k] = d]
                        ELSE verdict[d]]
  <1>1. PICK a \in [1..n -> Statuses] :
          /\ verdict' = Now(a)
          /\ \/ /\ first /\ ~Errors(a)
                /\ call' = [call EXCEPT !.state = "returned", !.items = a, !.result = "Ok"]
             \/ /\ ~(first /\ ~Errors(a)) /\ Positions(a) = << >>
                /\ call' = [call EXCEPT !.state = "returned", !.items = Items(a), !.active = Active(a),
                      !.result = IF \E i \in 1..Len(Items(a)) : IsUnrecoverable(Items(a)[i])
                                 THEN "OkWithErrors" ELSE "Ok"]
             \/ /\ Positions(a) # << >>
                /\ RetryOrFail([call EXCEPT !.items = Items(a),
                      !.payload = ExtractSubPayload(@, Positions(a)),
                      !.active = NextIndices(Active(a), Positions(a))])
    BY DEF Answered
  <1> DEFINE items == Items(a)
             active == Active(a)
             positions == Positions(a)
             busy == {k \in 1..n : items[call.payload[k]] = "busy"}
  <1>2. /\ Len(a) = n
        /\ items = verdict' /\ verdict' \in [Docs -> Statuses] /\ Len(items) = Documents
        /\ active = call.payload
        /\ \A k \in 1..n : verdict'[call.payload[k]] = a[k]
        /\ \A d \in Docs : verdict'[d] = "busy" => \E k \in 1..n : call.payload[k] = d
    BY <1>0, <1>1, AnswersMerge, ZenonT(60)
  <1>3. /\ n \in Nat /\ call.payload \in Seq(Docs) /\ \A k \in 1..n : call.payload[k] \in Docs
        /\ Documents \in Nat \ {0}
    BY <1>0, BulkClientAssumption DEF BulkCalls
  <1>4. positions = Ascending(busy)
    BY <1>2 DEF InspectActiveItems, IsRecoverable
  <1> HIDE DEF items, active, positions, Errors
  <1>5. /\ Cardinality(busy) \in Nat /\ (Cardinality(busy) = 0 <=> busy = {})
        /\ positions = [k \in 1..Cardinality(busy) |-> positions[k]]
        /\ \A k \in 1..Cardinality(busy) : positions[k] \in busy
        /\ \A j, k \in 1..Cardinality(busy) : positions[j] = positions[k] => j = k
        /\ \A x \in busy : \E k \in 1..Cardinality(busy) : positions[k] = x
    <2>1. busy \in SUBSET (1..n)
      OBVIOUS
    <2> HIDE DEF busy, n
    <2> QED BY <1>3, <1>4, <2>1, AscendingOnce, SMTT(60)
  <1>6. /\ positions = [k \in 1..Cardinality(busy) |-> positions[k]]
        /\ Len(positions) = Cardinality(busy)
        /\ (positions = << >> => busy = {})
    <2> HIDE DEF busy
    <2>1. positions = [k \in 1..Cardinality(busy) |-> positions[k]]
      BY <1>5
    <2>2. Len(positions) = Cardinality(busy) /\ DOMAIN positions = 1..Cardinality(busy)
      BY <1>5, <2>1
    <2>3. positions = << >> => Cardinality(busy) = 0
      BY <1>5, <2>2
    <2> QED BY <1>5, <2>1, <2>2, <2>3
  <1>7. \A d \in Docs : verdict'[d] = "busy" => \E k \in busy : call.payload[k] = d
    BY <1>2
  <1>8. items # << >>
    <2>1. DOMAIN items = Docs /\ 1 \in Docs
      BY <1>2, <1>3 DEF Docs
    <2> QED BY <2>1
  <1>9. CASE first /\ ~Errors(a)
    <2>1. \A k \in 1..n : a[k] = "created"
      BY <1>2, <1>9 DEF Errors
    <2>2. \A d \in Docs : \E k \in 1..n : call.payload[k] = d
      <3>1. call.payload = [i \in Docs |-> i]
        BY <1>0, <1>9 DEF SendsTheBusy
      <3>2. n = Documents
        BY <1>3, <3>1 DEF Docs
      <3> QED BY <3>1, <3>2 DEF Docs
    <2>3. \A d \in Docs : verdict'[d] = "created"
      BY <1>2, <2>1, <2>2
    <2>4. items = a
      BY <1>9 DEF items
    <2>6. busy = {}
      BY <1>2, <1>3, <2>3
    <2>7. positions = << >>
      <3>1. DOMAIN positions = {}
        BY <1>5, <1>6, <2>6
      <3> QED BY <1>5, <1>6, <2>6, <3>1
    <2>8. call' = [call EXCEPT !.state = "returned", !.items = items, !.result = "Ok"]
      BY <1>1, <1>9, <2>4, <2>7 DEF positions
    <2>9. call' \in BulkCalls /\ call'.state = "returned" /\ call'.result = "Ok" /\ call'.items = verdict'
      BY <1>0, <1>2, <2>8 DEF BulkCalls
    <2>10. BulkShapes' /\ SendsTheBusy'
      BY <1>0, <1>2, <2>9 DEF BulkShapes, SendsTheBusy
    <2>11. BulkAnswersMatch'
      BY <2>3, <2>9 DEF BulkAnswersMatch, Docs
    <2> QED BY <2>10, <2>11 DEF BulkInv
  <1>10. CASE ~(first /\ ~Errors(a)) /\ positions = << >>
    <2> DEFINE refused == \E i \in 1..Len(items) : IsUnrecoverable(items[i])
    <2>1. call' = [call EXCEPT !.state = "returned", !.items = items, !.active = active,
                      !.result = IF refused THEN "OkWithErrors" ELSE "Ok"]
      BY <1>1, <1>10 DEF items, active, positions
    <2>2. refused <=> \E d \in Docs : verdict'[d] = "refused"
      BY <1>2 DEF IsUnrecoverable, Docs
    <2>3. \A d \in Docs : verdict'[d] \in {"created", "refused"}
      <3>1. \A d \in Docs : verdict'[d] # "busy"
        BY <1>6, <1>7, <1>10
      <3> QED BY <1>2, <3>1 DEF Statuses
    <2> HIDE DEF refused
    <2>4. /\ call' \in BulkCalls /\ call'.state = "returned" /\ call'.items = verdict'
          /\ call'.result = IF refused THEN "OkWithErrors" ELSE "Ok"
      BY <1>0, <1>2, <2>1 DEF BulkCalls
    <2>5. BulkShapes' /\ SendsTheBusy'
      BY <1>0, <1>2, <2>4 DEF BulkShapes, SendsTheBusy
    <2>6. BulkAnswersMatch'
      BY <2>2, <2>3, <2>4 DEF BulkAnswersMatch, Docs
    <2> QED BY <2>5, <2>6 DEF BulkInv
  <1>11. CASE positions # << >> /\ ~(first /\ ~Errors(a))
    <2> DEFINE next == [call EXCEPT !.items = items,
                           !.payload = ExtractSubPayload(@, positions),
                           !.active = NextIndices(active, positions)]
               c == Cardinality(busy)
               sub == [k \in 1..c |-> call.payload[positions[k]]]
    <2>1. RetryOrFail(next)
      BY <1>1, <1>11 DEF items, active, positions
    <2>2. ExtractSubPayload(call.payload, positions) = sub /\ NextIndices(active, positions) = sub
      BY <1>2, <1>6 DEF ExtractSubPayload, NextIndices
    <2>3. sub \in Seq(Docs) /\ Len(sub) = c /\ c \in Nat
      <3>1. c \in Nat /\ \A k \in 1..c : call.payload[positions[k]] \in Docs
        BY <1>3, <1>5
      <3> HIDE DEF c
      <3> QED BY <3>1
    <2>4. /\ next \in BulkCalls /\ next.payload = sub /\ next.active = sub /\ next.items = verdict'
          /\ next.result = "none" /\ next.attempt = call.attempt
      BY <1>0, <1>2, <2>2, <2>3, ZenonT(60) DEF BulkCalls, SendsTheBusy
    <2> HIDE DEF next
    <2>5. CASE call.attempt + 1 >= BulkRetries + 1
      <3>1. call' \in BulkCalls /\ call'.state = "returned" /\ call'.result = "BulkFailed"
        <4>1. call' = [call EXCEPT !.attempt = @ + 1, !.state = "returned", !.result = "BulkFailed"]
          BY <2>1, <2>5 DEF RetryOrFail
        <4>2. call.attempt + 1 \in Nat
          BY <1>0 DEF BulkCalls
        <4> QED BY <1>0, <4>1, <4>2 DEF BulkCalls
      <3>2. BulkShapes' /\ SendsTheBusy' /\ BulkAnswersMatch'
        BY <1>0, <1>2, <3>1 DEF BulkShapes, SendsTheBusy, BulkAnswersMatch
      <3> QED BY <3>2 DEF BulkInv
    <2>6. CASE ~(call.attempt + 1 >= BulkRetries + 1)
      <3>1. /\ call' \in BulkCalls /\ call'.state = "backoff" /\ call'.result = "none"
            /\ call'.payload = sub /\ call'.active = sub /\ call'.items = verdict'
        <4>1. call' = [next EXCEPT !.attempt = @ + 1, !.state = "backoff"]
          BY <2>1, <2>6 DEF RetryOrFail
        <4>2. next.attempt + 1 \in Nat
          BY <2>4 DEF BulkCalls
        <4> HIDE DEF sub
        <4> QED BY <2>4, <4>1, <4>2 DEF BulkCalls
      <3>2. \A k \in 1..c : verdict'[sub[k]] = "busy"
        BY <1>2, <1>5
      <3>3. \A j, k \in 1..c : sub[j] = sub[k] => j = k
        <4>1. \A j, k \in 1..n : call.payload[j] = call.payload[k] => j = k
          BY <1>0 DEF SendsTheBusy
        <4> QED BY <1>5, <4>1, ZenonT(60)
      <3>4. \A d \in Docs : verdict'[d] = "busy" => \E k \in 1..c : sub[k] = d
        <4>1. SUFFICES ASSUME NEW d \in Docs, verdict'[d] = "busy" PROVE \E k \in 1..c : sub[k] = d
          OBVIOUS
        <4>2. PICK k \in busy : call.payload[k] = d
          BY <1>7, <4>1
        <4>3. PICK j \in 1..c : positions[j] = k
          BY <1>5, <4>2
        <4>4. sub[j] = d
          BY <4>2, <4>3
        <4> QED BY <4>4
      <3> HIDE DEF sub, c
      <3>5. BulkShapes' /\ SendsTheBusy'
        BY <1>0, <1>2, <1>8, <2>3, <3>1, <3>2, <3>3, <3>4 DEF BulkShapes, SendsTheBusy
      <3>6. BulkAnswersMatch'
        BY <2>3, <3>1, <3>2 DEF BulkAnswersMatch
      <3> QED BY <3>5, <3>6 DEF BulkInv
    <2> QED BY <2>5, <2>6
  <1> QED BY <1>9, <1>10, <1>11

(* next_endpoint names a configured endpoint, or leaves its argument. *)
LEMMA NextEndpointType ==
    ASSUME NEW e \in 0..(Endpoints - 1)
    PROVE  NextEndpoint(e) \in 0..(Endpoints - 1)
  <1> DEFINE turn(o) == (e + o) % Endpoints
             free == {o \in 0..(Endpoints - 1) : turn(o) \notin cooling}
             least == CHOOSE o \in free : \A p \in free : o <= p
  <1>1. Endpoints \in Nat /\ Endpoints > 0
    BY BulkClientAssumption
  <1>2. CASE free = {}
    BY <1>2 DEF NextEndpoint
  <1>3. CASE free # {}
    <2>1. free \subseteq Nat
      OBVIOUS
    <2>2. \E o \in free : \A p \in free : o <= p
      <3> HIDE DEF free
      <3>1. PICK x \in free : TRUE
        BY <1>3
      <3>2. \E o \in free : \A p \in free : ~(<<p, o>> \in OpToRel(<, Nat))
        BY <2>1, <3>1, NatLessThanWellFounded, WFMin
      <3>3. \A p, o \in free : p < o => <<p, o>> \in OpToRel(<, Nat)
        BY <2>1 DEF OpToRel
      <3>4. \A p, o \in free : ~(p < o) => o <= p
        BY <2>1
      <3> QED BY <3>2, <3>3, <3>4
    <2>3. least \in free
      BY <2>2
    <2>4. least \in Nat /\ e \in Nat
      BY <2>1, <2>3
    <2>5. NextEndpoint(e) = (e + least) % Endpoints
      BY <1>3 DEF NextEndpoint
    <2> HIDE DEF least
    <2> QED BY <1>1, <2>4, <2>5
  <1> QED BY <1>2, <1>3

(* A failed request: the counter alone tells a retry from the end of the call, and  *)
(* neither touches what has been answered so far.                                   *)
LEMMA FailedStep ==
    ASSUME BulkInv, call.state = "posting", RetryOrFail(call),
           UNCHANGED <<current, verdict>>, cooling' \subseteq 0..(Endpoints - 1)
    PROVE  BulkInv'
  <1>1. call \in BulkCalls /\ BulkShapes /\ SendsTheBusy /\ BulkAnswersMatch
    BY DEF BulkInv, BulkShapes
  <1>2. call.attempt \in Nat /\ call.attempt + 1 \in Nat
    BY <1>1 DEF BulkCalls
  <1>3. \/ call' = [call EXCEPT !.attempt = @ + 1, !.state = "returned", !.result = "BulkFailed"]
        \/ call' = [call EXCEPT !.attempt = @ + 1, !.state = "backoff"]
    BY DEF RetryOrFail
  <1>4. /\ call' \in BulkCalls /\ call'.payload = call.payload /\ call'.active = call.active
        /\ call'.items = call.items
        /\ \/ call'.state = "returned" /\ call'.result = "BulkFailed"
           \/ call'.state = "backoff" /\ call'.result = call.result
    BY <1>1, <1>2, <1>3, ZenonT(60) DEF BulkCalls
  <1>5. BulkShapes'
    BY <1>1, <1>4 DEF BulkShapes
  <1>6. SendsTheBusy' /\ BulkAnswersMatch'
    BY <1>1, <1>4 DEF SendsTheBusy, BulkAnswersMatch
  <1> QED BY <1>5, <1>6 DEF BulkInv

(* A step that leaves the payload, the answers and the result of the call. *)
LEMMA QuietStep ==
    ASSUME BulkInv, call.state # "returned", UNCHANGED verdict,
           NEW s \in {"pick", "posting", "backoff"}, NEW e \in 0..(Endpoints - 1),
           call' = [call EXCEPT !.state = s, !.endpoint = e],
           current' \in 0..(Endpoints - 1), cooling' \subseteq 0..(Endpoints - 1)
    PROVE  BulkInv'
  <1>1. call \in BulkCalls /\ BulkShapes /\ SendsTheBusy /\ BulkAnswersMatch
        /\ call.state \in {"pick", "posting", "backoff"}
    BY DEF BulkInv, BulkShapes, BulkCalls
  <1>2. /\ call' \in BulkCalls /\ call'.payload = call.payload /\ call'.active = call.active
        /\ call'.items = call.items /\ call'.state = s /\ call'.result = call.result
    BY <1>1 DEF BulkCalls
  <1>3. BulkShapes'
    BY <1>1, <1>2 DEF BulkShapes
  <1>4. SendsTheBusy' /\ BulkAnswersMatch'
    BY <1>1, <1>2 DEF SendsTheBusy, BulkAnswersMatch
  <1> QED BY <1>3, <1>4 DEF BulkInv

(* A step of the other calls that share the endpoints. *)
LEMMA SharedStep ==
    ASSUME BulkInv, UNCHANGED <<call, verdict>>,
           current' \in 0..(Endpoints - 1), cooling' \subseteq 0..(Endpoints - 1)
    PROVE  BulkInv'
  <1>1. BulkShapes /\ SendsTheBusy /\ BulkAnswersMatch
    BY DEF BulkInv
  <1>2. BulkShapes'
    BY <1>1 DEF BulkShapes
  <1>3. SendsTheBusy' /\ BulkAnswersMatch'
    BY <1>1 DEF SendsTheBusy, BulkAnswersMatch
  <1> QED BY <1>2, <1>3 DEF BulkInv

(* Every answer of send_bulk, in every order of failures, refusals, busy documents  *)
(* and endpoints of other calls.                                                    *)
LEMMA BulkStep ==
    ASSUME BulkInv, [BulkNext]_bulkVars
    PROVE  BulkInv'
  <1>1. /\ call \in BulkCalls /\ current \in 0..(Endpoints - 1)
        /\ cooling \subseteq 0..(Endpoints - 1)
    BY DEF BulkInv, BulkShapes
  <1>2. Endpoints \in Nat /\ Endpoints > 0 /\ current \in Nat
    BY <1>1, BulkClientAssumption
  <1>3. /\ (current + 1) % Endpoints \in 0..(Endpoints - 1)
        /\ NextEndpoint(current) \in 0..(Endpoints - 1) /\ NextEndpoint(current) \in Nat
    BY <1>1, <1>2, NextEndpointType
  <1>4. CASE PickEndpoint
    <2>1. /\ call.state = "pick" /\ cooling' = cooling /\ verdict' = verdict
          /\ current' \in 0..(Endpoints - 1)
          /\ \E e \in 0..(Endpoints - 1) : call' = [call EXCEPT !.state = "posting", !.endpoint = e]
      <3>1. 0 \in 0..(Endpoints - 1)
        BY <1>2
      <3> QED BY <1>1, <1>3, <1>4, <3>1 DEF PickEndpoint
    <2> QED BY <1>1, <2>1, QuietStep
  <1>5. CASE PostFails
    <2>1. call.endpoint \in 0..(Endpoints - 1)
      BY <1>1 DEF BulkCalls
    <2> QED BY <1>1, <1>5, <2>1, FailedStep DEF PostFails, MarkEndpointFailed
  <1>6. CASE PostRefused
    <2>1. PICK r \in {"AuthenticationFailed", "BulkFailed", "Http"} :
            call' = [call EXCEPT !.state = "returned", !.result = r]
      BY <1>6 DEF PostRefused, Return
    <2>2. call' \in BulkCalls /\ call'.state = "returned" /\ call'.result = r
      BY <1>1, <2>1 DEF BulkCalls
    <2>3. BulkShapes' /\ SendsTheBusy' /\ BulkAnswersMatch'
      BY <1>6, <2>2 DEF PostRefused, BulkInv, BulkShapes, SendsTheBusy, BulkAnswersMatch
    <2> QED BY <2>3 DEF BulkInv
  <1>7. CASE Answered
    BY <1>7, AnsweredStep
  <1>8. CASE BackoffEnds
    <2>1. /\ call.state = "backoff" /\ UNCHANGED <<cooling, current, verdict>>
          /\ call.endpoint \in 0..(Endpoints - 1)
          /\ call' = [call EXCEPT !.state = "pick", !.endpoint = call.endpoint]
      BY <1>1, <1>8 DEF BackoffEnds, BulkCalls
    <2> QED BY <1>1, <2>1, QuietStep
  <1>9. CASE \E e \in 0..(Endpoints - 1) : CooldownEnds(e)
    BY <1>1, <1>9, SharedStep DEF CooldownEnds
  <1>10. CASE OtherCall
    BY <1>1, <1>3, <1>10, SharedStep DEF OtherCall, MarkEndpointFailed
  <1>11. CASE UNCHANGED bulkVars
    BY <1>1, <1>11, SharedStep DEF bulkVars
  <1> QED BY <1>4, <1>5, <1>6, <1>7, <1>8, <1>9, <1>10, <1>11 DEF BulkNext

(* send_bulk does not send again what the cluster has answered for good, and a call *)
(* that returns Ok reports the cluster's last answer for every document, whatever   *)
(* the number of documents, endpoints and retries.                                  *)
THEOREM BulkAnswersAreTheClusters == BulkSpec => []BulkAnswersMatch
  <1>1. BulkInit => BulkInv
    <2>1. SUFFICES ASSUME BulkInit PROVE BulkInv
      OBVIOUS
    <2>2. Documents \in Nat /\ Endpoints \in Nat \ {0}
      BY BulkClientAssumption
    <2> DEFINE whole == [i \in 1..Documents |-> i]
    <2>3. whole \in Seq(Docs) /\ Len(whole) = Documents /\ << >> \in Seq(Docs)
      BY <2>2 DEF Docs
    <2>4. call = [state |-> "pick", payload |-> whole, active |-> << >>,
                  items |-> << >>, attempt |-> 0, endpoint |-> 0, result |-> "none"]
      BY <2>1 DEF BulkInit
    <2>5. \A j, k \in 1..Documents : whole[j] = whole[k] => j = k
      OBVIOUS
    <2>6. \A k \in 1..Documents : whole[k] \in Docs
      BY DEF Docs
    <2>7. whole = [i \in Docs |-> i]
      BY DEF Docs
    <2> HIDE DEF whole
    <2>8. /\ call \in BulkCalls /\ call.payload = whole /\ call.items = << >>
          /\ call.state = "pick" /\ call.result = "none"
      BY <2>2, <2>3, <2>4 DEF BulkCalls
    <2>9. verdict \in [Docs -> Statuses \union {"none"}] /\ \A d \in Docs : verdict[d] = "none"
      BY <2>1 DEF BulkInit, Docs
    <2>10. BulkShapes
      BY <2>1, <2>2, <2>8, <2>9 DEF BulkShapes, BulkInit, TryNewClient
    <2>11. SendsTheBusy
      BY <2>3, <2>5, <2>7, <2>8, <2>9 DEF SendsTheBusy
    <2>12. BulkAnswersMatch
      BY <2>3, <2>6, <2>8, <2>9 DEF BulkAnswersMatch
    <2> QED BY <2>10, <2>11, <2>12 DEF BulkInv
  <1>2. BulkInv /\ [BulkNext]_bulkVars => BulkInv'
    BY BulkStep
  <1>3. BulkInv => BulkAnswersMatch
    BY DEF BulkInv
  <1> QED BY <1>1, <1>2, <1>3, PTL DEF BulkSpec

-----------------------------------------------------------------------------
(* The workers and their dispatcher                                         *)

(* What WasmWorker's task, its channel and its instance may look like. *)
Tasks ==
    [state : WorkerStates, queue : Seq(Batches), batch : Batches \union {None}, seen : Nat,
     module : Int, local : Nat, target : [module : Int, generation : Nat],
     stale : BOOLEAN, processed : Nat, alive : BOOLEAN]

WasmShapes ==
    /\ config \in Policies /\ guest \in Seq(GuestAnswers)
    /\ file \in Nat /\ published \in Seq(Nat) /\ Len(published) > 0
    /\ reload \in [Reloaders -> Int]
    /\ worker \in [Workers -> Tasks]
    /\ fate \in [Batches -> Fates]
    /\ {sendersOpen, outputOpen} \subseteq BOOLEAN

DispatchShapes ==
    /\ phase \in Phases /\ result \in {"Ok", "Err"}
    /\ taken \in 0..Len(guest) /\ hand \in Batches \union {None}
    /\ nextWorker \in Workers /\ from \in Workers /\ offset \in 0..Concurrency
    /\ firstFull \in Workers \union {-1}

(* The instance of a worker is of the module its generation number stands for; a    *)
(* snapshot it is about to adopt is not older than the one that was published when  *)
(* it took its batch.                                                               *)
RunsItsModule(x) ==
    /\ x.local <= Len(published) /\ x.seen <= Len(published)
    /\ x.target # NoModule =>
          /\ x.state \in {"reloading", "ended"}
          /\ x.target.generation \in 1..Len(published) /\ x.target.generation >= x.seen
          /\ x.target.module = published[x.target.generation]
    /\ x.local > 0 /\ ~x.stale => x.module = published[x.local]
    /\ x.state = "executing" => x.local >= x.seen

(* The batches of a task, and that it holds each once. *)
Kept(x) == {x.queue[i] : i \in 1..Len(x.queue)} \union ({x.batch} \ {None})

HoldsOnce(x) ==
    /\ Len(x.queue) <= ChannelCapacity
    /\ \A i, j \in 1..Len(x.queue) : x.queue[i] = x.queue[j] => i = j
    /\ \A i \in 1..Len(x.queue) : x.queue[i] # x.batch
    /\ x.batch # None => x.state \in {"reloading", "executing", "routing"}
    /\ x.state \in {"executing", "routing"} => x.batch # None
    /\ x.state = "starting" => x.queue = << >>

(* Every batch that was taken from the input is with the dispatcher, with one       *)
(* worker, or settled.                                                              *)
Custody ==
    /\ \A w \in Workers : HoldsOnce(worker[w])
    /\ \A v, w \in Workers : v # w => Kept(worker[v]) \intersect Kept(worker[w]) = {}
    /\ \A w \in Workers : \A b \in Kept(worker[w]) : fate[b] = "none" /\ b # hand /\ b <= taken
    /\ hand # None => fate[hand] = "none" /\ hand <= taken
    /\ \A b \in Batches : fate[b] # "none" => b <= taken
    /\ \A b \in 1..taken :
          hand = b \/ fate[b] # "none" \/ \E w \in Workers : b \in Kept(worker[w])

Holding == {"scan", "send", "rescan", "resend"}
Dispatching == Holding \union {"recv"}

(* Where run and dispatch_batch are says what they hold. *)
Control ==
    /\ phase \in Holding <=> hand # None
    /\ phase \in Dispatching \union {"validate", "init"} => sendersOpen
    /\ phase \in {"send", "resend"} => firstFull # -1
    /\ phase \in Dispatching \union {"drain"} => \A w \in Workers : worker[w].state # "starting"
    /\ phase \notin {"validate", "returned"} => Acceptable(config)
    /\ phase \in {"drain", "returned"} /\ result = "Ok" => taken = Len(guest)

(* No destination, panic, failed replacement or drain timeout has interfered. *)
Calm == causes \subseteq {"init", "candidate"}

(* Then a worker ends only because it never started or because its input has ended. *)
CalmTask(x) ==
    /\ x.state \notin {"draining", "dying", "ending"}
    /\ ~x.alive => x.state = "ended"
    /\ x.state = "ended" => x.queue = << >> /\ x.batch = None /\ (x.alive => ~sendersOpen)

CalmWorkers ==
    /\ outputOpen
    /\ \A w \in Workers : CalmTask(worker[w])
    /\ \A b \in Batches : fate[b] \in {"none", Due(b)}

(* And dispatch_batch always finds a worker that is not closed. *)
CalmDispatch ==
    /\ phase \in Dispatching => \E w \in Workers : worker[w].alive
    /\ phase \notin {"rescan", "resend"}
    /\ phase \in {"scan", "send"} /\ firstFull # -1 => worker[firstFull].state # "ended"
    /\ phase = "scan" /\ firstFull = -1 =>
          \A o \in 0..(offset - 1) : worker[(from + o) % Concurrency].state = "ended"
    /\ phase = "returned" /\ result = "Ok" => \A w \in Workers : worker[w].state = "ended"

WasmInv ==
    /\ WasmShapes /\ DispatchShapes
    /\ \A w \in Workers : RunsItsModule(worker[w])
    /\ Custody /\ Control
    /\ Calm => CalmWorkers /\ CalmDispatch

(* One worker's record changes, and the batches of S leave it with fate f: all that *)
(* a step of WasmWorker's task does.                                                *)
LEMMA OneTask ==
    ASSUME WasmInv, WorkersRun, Same, UNCHANGED dispatchVars, causes \subseteq causes',
           NEW w \in Workers, NEW r \in Tasks, worker' = [worker EXCEPT ![w] = r],
           NEW S \in SUBSET Kept(worker[w]), NEW f \in Fates \ {"none"},
           fate' = [b \in Batches |-> IF b \in S THEN f ELSE fate[b]],
           Kept(r) = Kept(worker[w]) \ S,
           RunsItsModule(r), HoldsOnce(r),
           r.state = "starting" => worker[w].state = "starting",
           Calm' => /\ CalmTask(r)
                    /\ \A b \in S : f = Due(b)
                    /\ phase \in Dispatching =>
                          /\ r.state = "ended" <=> worker[w].state = "ended"
                          /\ worker[w].alive => r.alive
    PROVE  WasmInv'
  <1>1. /\ WasmShapes /\ DispatchShapes /\ Custody /\ Control
        /\ \A v \in Workers : RunsItsModule(worker[v])
    BY DEF WasmInv
  <1>2. /\ config' = config /\ guest' = guest /\ file' = file /\ published' = published
        /\ reload' = reload /\ sendersOpen' = sendersOpen /\ outputOpen' = outputOpen
        /\ phase' = phase /\ taken' = taken /\ hand' = hand /\ nextWorker' = nextWorker
        /\ offset' = offset /\ from' = from /\ firstFull' = firstFull /\ result' = result
    BY DEF Same, engineVars, dispatchVars
  <1>3. Batches' = Batches /\ Tasks' = Tasks
    BY <1>2 DEF Batches, Tasks
  <1>4. worker \in [Workers -> Tasks] /\ fate \in [Batches -> Fates]
    BY <1>1 DEF WasmShapes
  <1>5. /\ worker' \in [Workers -> Tasks] /\ worker'[w] = r
        /\ \A v \in Workers : v # w => worker'[v] = worker[v]
    BY <1>4
  <1>6. /\ fate' \in [Batches -> Fates] /\ \A b \in S : b \in Batches => fate'[b] = f
        /\ \A b \in Batches : b \notin S => fate'[b] = fate[b]
    BY <1>4
  <1>7. WasmShapes' /\ DispatchShapes'
    BY <1>1, <1>2, <1>3, <1>5, <1>6 DEF WasmShapes, DispatchShapes
  <1>8. \A v \in Workers : RunsItsModule(worker[v])'
    BY <1>1, <1>2, <1>5 DEF RunsItsModule
  <1>9. \A v \in Workers : Kept(worker[v]) \subseteq Batches
    <2>1. SUFFICES ASSUME NEW v \in Workers PROVE Kept(worker[v]) \subseteq Batches
      OBVIOUS
    <2>2. worker[v].queue \in Seq(Batches) /\ worker[v].batch \in Batches \union {None}
      BY <1>4 DEF Tasks
    <2> QED BY <2>2 DEF Kept
  <1>10. Custody'
    <2>1. \A v \in Workers : HoldsOnce(worker'[v])
      BY <1>1, <1>5 DEF Custody
    <2>2. \A v \in Workers : Kept(worker'[v]) \subseteq Kept(worker[v])
      BY <1>5
    <2>3. \A v \in Workers : \A b \in Kept(worker'[v]) : b \in Batches /\ b \notin S
      BY <1>1, <1>5, <1>9 DEF Custody
    <2>4. \A v, u \in Workers : v # u => Kept(worker'[v]) \intersect Kept(worker'[u]) = {}
      BY <1>1, <2>2 DEF Custody
    <2>5. \A v \in Workers : \A b \in Kept(worker'[v]) : fate'[b] = "none" /\ b # hand /\ b <= taken
      BY <1>1, <1>6, <2>2, <2>3 DEF Custody
    <2>6. hand # None => fate'[hand] = "none" /\ hand <= taken
      BY <1>1, <1>6 DEF Custody, DispatchShapes
    <2>7. \A b \in Batches : fate'[b] # "none" => b <= taken
      BY <1>1, <1>6 DEF Custody
    <2>8. ASSUME NEW b \in 1..taken
          PROVE  hand = b \/ fate'[b] # "none" \/ \E v \in Workers : b \in Kept(worker'[v])
      <3>1. CASE hand = b
        BY <3>1
      <3>2. CASE fate[b] # "none" /\ b \in Batches
        BY <1>6, <3>2
      <3>3. CASE \E v \in Workers : b \in Kept(worker[v])
        <4>1. PICK v \in Workers : b \in Kept(worker[v])
          BY <3>3
        <4>2. CASE b \in S
          BY <1>6, <1>9, <4>1, <4>2
        <4>3. CASE b \notin S
          BY <1>5, <4>1, <4>3
        <4> QED BY <4>2, <4>3
      <3>4. b \in Batches
        <4>1. guest \in Seq(GuestAnswers) /\ taken \in 0..Len(guest) /\ DOMAIN guest = 1..Len(guest)
          BY <1>1 DEF WasmShapes, DispatchShapes
        <4>2. Len(guest) \in Nat
          BY <4>1
        <4> QED BY <4>1, <4>2 DEF Batches
      <3> QED BY <1>1, <3>1, <3>2, <3>3, <3>4 DEF Custody
    <2>9. \A v \in Workers : HoldsOnce(worker[v])'
      BY <2>1 DEF HoldsOnce
    <2>10. \A v \in Workers : Kept(worker[v])' = Kept(worker'[v])
      BY DEF Kept
    <2> HIDE DEF HoldsOnce, Kept
    <2> QED BY <1>2, <1>3, <2>4, <2>5, <2>6, <2>7, <2>8, <2>9, <2>10 DEF Custody
  <1>11. Control'
    <2>1. \A v \in Workers : worker'[v].state = "starting" => worker[v].state = "starting"
      BY <1>5
    <2> QED BY <1>1, <1>2, <2>1 DEF Control, Acceptable
  <1>12. ASSUME Calm' PROVE CalmWorkers' /\ CalmDispatch'
    <2>1. Calm /\ CalmWorkers /\ CalmDispatch
      BY <1>12 DEF Calm, WasmInv
    <2>2. CalmWorkers'
      <3>1. \A v \in Workers : CalmTask(worker'[v])
        BY <1>5, <1>12, <2>1 DEF CalmWorkers
      <3>2. \A v \in Workers : CalmTask(worker[v])'
        BY <1>2, <3>1 DEF CalmTask
      <3>3. \A b \in Batches : Due(b)' = Due(b)
        BY <1>2 DEF Due
      <3>4. \A b \in Batches : fate'[b] \in {"none", Due(b)}
        BY <1>6, <1>12, <2>1 DEF CalmWorkers
      <3> QED BY <1>2, <1>3, <2>1, <3>2, <3>3, <3>4 DEF CalmWorkers
    <2>3. CalmDispatch'
      <3>1. phase # "returned"
        BY DEF WorkersRun
      <3>2. phase \in Dispatching =>
              /\ \A v \in Workers : worker'[v].state = "ended" <=> worker[v].state = "ended"
              /\ \A v \in Workers : worker[v].alive => worker'[v].alive
        BY <1>5, <1>12
      <3>3. \A o \in 0..(offset - 1) : (from + o) % Concurrency \in Workers
        BY <1>1, WasmAssumption, SMTT(60) DEF DispatchShapes, Workers
      <3>4. firstFull # -1 => firstFull \in Workers
        BY <1>1 DEF DispatchShapes
      <3> QED BY <1>2, <2>1, <3>1, <3>2, <3>3, <3>4 DEF CalmDispatch, Dispatching, Holding
    <2> QED BY <2>2, <2>3
  <1> QED BY <1>7, <1>8, <1>10, <1>11, <1>12 DEF WasmInv

(* The facts about one worker that every step of its task starts from. *)
LEMMA TaskFacts ==
    ASSUME WasmInv, NEW w \in Workers
    PROVE  /\ worker[w] \in Tasks /\ worker \in [Workers -> Tasks] /\ fate \in [Batches -> Fates]
           /\ worker[w].queue \in Seq(Batches) /\ worker[w].batch \in Batches \union {None}
           /\ Len(worker[w].queue) \in Nat /\ None \notin Batches
           /\ published \in Seq(Nat) /\ Len(published) \in Nat /\ Len(published) > 0
           /\ guest \in Seq(GuestAnswers) /\ \A b \in Batches : guest[b] \in GuestAnswers
           /\ config \in Policies
           /\ worker[w].local \in Nat /\ worker[w].seen \in Nat
           /\ RunsItsModule(worker[w]) /\ HoldsOnce(worker[w])
           /\ WorkersRun => Acceptable(config)
           /\ Calm => CalmTask(worker[w]) /\ outputOpen
           /\ phase \in Dispatching => sendersOpen /\ worker[w].state # "starting"
  <1>1. WasmShapes /\ Custody /\ Control /\ RunsItsModule(worker[w])
    BY DEF WasmInv
  <1>2. Calm => CalmTask(worker[w]) /\ outputOpen
    BY DEF WasmInv, CalmWorkers
  <1>3. worker[w] \in Tasks /\ worker \in [Workers -> Tasks] /\ fate \in [Batches -> Fates]
    BY <1>1 DEF WasmShapes
  <1>4. /\ worker[w].queue \in Seq(Batches) /\ worker[w].batch \in Batches \union {None}
        /\ worker[w].local \in Nat /\ worker[w].seen \in Nat
    BY <1>3 DEF Tasks
  <1>5. guest \in Seq(GuestAnswers) /\ published \in Seq(Nat) /\ Len(published) > 0
    BY <1>1 DEF WasmShapes
  <1>6. Batches = 1..Len(guest) /\ None \notin Batches
    BY <1>5 DEF Batches, None
  <1>7. HoldsOnce(worker[w])
    BY <1>1 DEF Custody
  <1>8. WorkersRun => Acceptable(config)
    BY <1>1 DEF Control, WorkersRun
  <1>9. phase \in Dispatching => sendersOpen /\ worker[w].state # "starting"
    BY <1>1 DEF Control
  <1>10. config \in Policies
    BY <1>1 DEF WasmShapes
  <1> QED BY <1>1, <1>2, <1>3, <1>4, <1>5, <1>6, <1>7, <1>8, <1>9, <1>10

(* A step that leaves the batches where they are. *)
LEMMA QuietTask ==
    ASSUME WasmInv, WorkersRun, Same, UNCHANGED dispatchVars, UNCHANGED fate,
           causes \subseteq causes',
           NEW w \in Workers, NEW r \in Tasks, worker' = [worker EXCEPT ![w] = r],
           r.queue = worker[w].queue, r.batch = worker[w].batch,
           RunsItsModule(r), HoldsOnce(r),
           r.state = "starting" => worker[w].state = "starting",
           Calm' => /\ CalmTask(r)
                    /\ phase \in Dispatching =>
                          /\ r.state = "ended" <=> worker[w].state = "ended"
                          /\ worker[w].alive => r.alive
    PROVE  WasmInv'
  <1>1. Kept(r) = Kept(worker[w]) \ {} /\ {} \in SUBSET Kept(worker[w])
    BY DEF Kept
  <1>2. fate' = [b \in Batches |-> IF b \in {} THEN "lost" ELSE fate[b]]
    <2>1. fate \in [Batches -> Fates]
      BY DEF WasmInv, WasmShapes
    <2> QED BY <2>1
  <1>3. "lost" \in Fates \ {"none"}
    BY DEF Fates
  <1> QED BY <1>1, <1>2, <1>3, OneTask

(* A fault is remembered. *)
LEMMA FaultsStay ==
    ASSUME NEW k, Fault(k)
    PROVE  causes \subseteq causes' /\ k \in causes'
  BY DEF Fault

(* WasmWorker::new, with the snapshot's module or without an instance. *)
LEMMA NewWorkerStep ==
    ASSUME WasmInv, WorkersRun, UNCHANGED dispatchVars, NEW w \in Workers, NewWorker(w)
    PROVE  WasmInv'
  <1> DEFINE old == worker[w]
             started == [old EXCEPT !.state = "reloading", !.module = CurrentSnapshot.module,
                                    !.local = Generation]
             failed == [old EXCEPT !.state = "ended", !.alive = FALSE]
  <1>1. /\ old \in Tasks /\ worker \in [Workers -> Tasks] /\ published \in Seq(Nat)
        /\ Len(published) \in Nat /\ Len(published) > 0 /\ RunsItsModule(old) /\ HoldsOnce(old)
        /\ old.local \in Nat /\ old.seen \in Nat
        /\ Calm => CalmTask(old)
        /\ phase \notin Dispatching
    BY TaskFacts DEF NewWorker
  <1>2. old.state = "starting" /\ Same /\ fate' = fate
    BY DEF NewWorker
  <1>3. old.queue = << >> /\ old.batch = None
    BY <1>1, <1>2 DEF HoldsOnce
  <1>4. CASE worker' = [worker EXCEPT ![w] = started] /\ UNCHANGED causes
    <2>1. /\ CurrentSnapshot.module = published[Len(published)] /\ CurrentSnapshot.module \in Int
          /\ Generation = Len(published) /\ Generation \in Nat
      BY <1>1 DEF CurrentSnapshot, Generation
    <2>2. /\ started \in Tasks /\ started.queue = old.queue /\ started.batch = old.batch
          /\ started.state = "reloading" /\ started.alive = old.alive /\ started.target = old.target
          /\ started.seen = old.seen
          /\ started.local = Len(published) /\ started.module = published[Len(published)]
      BY <1>1, <2>1 DEF Tasks, WorkerStates
    <2> HIDE DEF started
    <2>3. RunsItsModule(started)
      BY <1>1, <1>2, <2>2 DEF RunsItsModule
    <2>4. HoldsOnce(started)
      BY <1>1, <1>2, <1>3, <2>2 DEF HoldsOnce
    <2>5. Calm' => CalmTask(started)
      BY <1>1, <1>2, <1>4, <2>2 DEF Calm, CalmTask
    <2> QED BY <1>1, <1>2, <1>4, <2>2, <2>3, <2>4, <2>5, QuietTask
  <1>5. CASE worker' = [worker EXCEPT ![w] = failed] /\ Fault("init")
    <2>1. /\ failed \in Tasks /\ failed.queue = old.queue /\ failed.batch = old.batch
          /\ failed.state = "ended" /\ failed.alive = FALSE /\ failed.target = old.target
          /\ failed.seen = old.seen /\ failed.local = old.local /\ failed.module = old.module
          /\ failed.stale = old.stale
      BY <1>1 DEF Tasks, WorkerStates
    <2> HIDE DEF failed
    <2>2. RunsItsModule(failed)
      BY <1>1, <1>2, <2>1 DEF RunsItsModule
    <2>3. HoldsOnce(failed)
      BY <1>1, <1>2, <1>3, <2>1 DEF HoldsOnce
    <2>4. CalmTask(failed)
      BY <1>3, <2>1 DEF CalmTask
    <2> QED BY <1>1, <1>2, <1>5, <2>1, <2>2, <2>3, <2>4, QuietTask, FaultsStay
  <1>6. \/ worker' = [worker EXCEPT ![w] = started] /\ UNCHANGED causes
        \/ worker' = [worker EXCEPT ![w] = failed] /\ Fault("init")
    BY <1>1 DEF NewWorker
  <1> QED BY <1>4, <1>5, <1>6

(* recv: the head of the channel becomes the batch in hand, at the generation that  *)
(* is published now.                                                                *)
LEMMA ReceiveStep ==
    ASSUME WasmInv, WorkersRun, UNCHANGED dispatchVars, NEW w \in Workers, Receive(w)
    PROVE  WasmInv'
  <1> DEFINE old == worker[w]
             r == [old EXCEPT !.state = "reloading", !.batch = Head(old.queue),
                              !.queue = Tail(old.queue), !.seen = Generation]
  <1>1. /\ old \in Tasks /\ worker \in [Workers -> Tasks] /\ old.queue \in Seq(Batches)
        /\ Len(old.queue) \in Nat /\ None \notin Batches /\ fate \in [Batches -> Fates]
        /\ Len(published) \in Nat /\ RunsItsModule(old) /\ HoldsOnce(old)
        /\ Calm => CalmTask(old)
    BY TaskFacts
  <1>2. /\ old.state = "idle" /\ old.queue # << >> /\ Same /\ UNCHANGED <<fate, causes>>
        /\ worker' = [worker EXCEPT ![w] = r]
    BY <1>1 DEF Receive
  <1>3. old.batch = None
    BY <1>1, <1>2 DEF HoldsOnce
  <1>4. /\ Head(old.queue) = old.queue[1] /\ Head(old.queue) \in Batches /\ Len(old.queue) > 0
        /\ Tail(old.queue) \in Seq(Batches) /\ Len(Tail(old.queue)) = Len(old.queue) - 1
        /\ \A i \in 1..(Len(old.queue) - 1) : Tail(old.queue)[i] = old.queue[i + 1]
    BY <1>1, <1>2
  <1>5. /\ r \in Tasks /\ r.queue = Tail(old.queue) /\ r.batch = old.queue[1]
        /\ r.state = "reloading" /\ r.alive = old.alive /\ r.target = old.target
        /\ r.seen = Len(published) /\ r.local = old.local /\ r.module = old.module
        /\ r.stale = old.stale
    BY <1>1, <1>4 DEF Tasks, WorkerStates, Generation
  <1> HIDE DEF r
  <1>6. RunsItsModule(r)
    BY <1>1, <1>2, <1>5 DEF RunsItsModule
  <1>7. HoldsOnce(r)
    <2>1. \A i, j \in 1..Len(r.queue) : r.queue[i] = r.queue[j] => i = j
      <3>1. \A i, j \in 1..Len(old.queue) : old.queue[i] = old.queue[j] => i = j
        BY <1>1 DEF HoldsOnce
      <3>2. \A i \in 1..Len(r.queue) : i + 1 \in 1..Len(old.queue) /\ r.queue[i] = old.queue[i + 1]
        BY <1>1, <1>4, <1>5
      <3>3. SUFFICES ASSUME NEW i \in 1..Len(r.queue), NEW j \in 1..Len(r.queue),
                            r.queue[i] = r.queue[j]
                     PROVE  i = j
        OBVIOUS
      <3>4. i + 1 = j + 1
        BY <3>1, <3>2, <3>3
      <3> QED BY <3>4
    <2>2. \A i \in 1..Len(r.queue) : r.queue[i] # r.batch
      <3>1. \A i, j \in 1..Len(old.queue) : old.queue[i] = old.queue[j] => i = j
        BY <1>1 DEF HoldsOnce
      <3>2. \A i \in 1..Len(r.queue) :
              i + 1 \in 1..Len(old.queue) /\ i + 1 # 1 /\ r.queue[i] = old.queue[i + 1]
        BY <1>1, <1>4, <1>5
      <3>3. 1 \in 1..Len(old.queue)
        BY <1>1, <1>4
      <3> QED BY <1>5, <3>1, <3>2, <3>3
    <2>3. Len(r.queue) <= ChannelCapacity
      <3>1. Len(old.queue) <= ChannelCapacity /\ ChannelCapacity \in Nat
        BY <1>1, WasmAssumption DEF HoldsOnce
      <3> QED BY <1>1, <1>4, <1>5, <3>1
    <2> QED BY <1>5, <2>1, <2>2, <2>3 DEF HoldsOnce
  <1>8. Kept(r) = Kept(old) \ {}
    <2>1. \A x : (\E i \in 1..Len(old.queue) : old.queue[i] = x)
                 <=> x = old.queue[1] \/ \E i \in 1..(Len(old.queue) - 1) : old.queue[i + 1] = x
      <3>1. ASSUME NEW x, NEW i \in 1..Len(old.queue), old.queue[i] = x, x # old.queue[1]
            PROVE  \E j \in 1..(Len(old.queue) - 1) : old.queue[j + 1] = x
        <4>1. i - 1 \in 1..(Len(old.queue) - 1) /\ (i - 1) + 1 = i
          BY <1>1, <3>1
        <4> QED BY <3>1, <4>1
      <3>2. 1 \in 1..Len(old.queue) /\ \A i \in 1..(Len(old.queue) - 1) : i + 1 \in 1..Len(old.queue)
        BY <1>1, <1>4
      <3> QED BY <3>1, <3>2
    <2>2. old.queue[1] # None
      BY <1>1, <1>4
    <2> QED BY <1>3, <1>4, <1>5, <2>1, <2>2 DEF Kept
  <1>9. Calm' => CalmTask(r)
    BY <1>1, <1>2, <1>5 DEF Calm, CalmTask
  <1>10. fate' = [b \in Batches |-> IF b \in {} THEN "lost" ELSE fate[b]] /\ "lost" \in Fates \ {"none"}
    BY <1>1, <1>2 DEF Fates
  <1>11. {} \in SUBSET Kept(old) /\ causes \subseteq causes' /\ UNCHANGED causes
    BY <1>2
  <1>12. r.state # "starting" /\ (r.state = "ended" <=> old.state = "ended") /\ (old.alive => r.alive)
    BY <1>2, <1>5
  <1> QED BY <1>1, <1>2, <1>6, <1>5, <1>7, <1>8, <1>9, <1>10, <1>11, <1>12, OneTask, ZenonT(60)

(* check_hot_reload's snapshot is never older than the batch in hand. *)
LEMMA ReadSnapshotStep ==
    ASSUME WasmInv, WorkersRun, UNCHANGED dispatchVars, NEW w \in Workers, ReadSnapshot(w)
    PROVE  WasmInv'
  <1> DEFINE old == worker[w]
             r == [old EXCEPT !.target = CurrentSnapshot]
  <1>1. /\ old \in Tasks /\ worker \in [Workers -> Tasks] /\ published \in Seq(Nat)
        /\ Len(published) \in Nat /\ Len(published) > 0 /\ RunsItsModule(old) /\ HoldsOnce(old)
        /\ old.local \in Nat /\ old.seen \in Nat
        /\ Calm => CalmTask(old)
    BY TaskFacts
  <1>2. /\ old.state = "reloading" /\ Same /\ UNCHANGED <<fate, causes>>
        /\ worker' = [worker EXCEPT ![w] = r]
    BY <1>1 DEF ReadSnapshot
  <1>3. /\ CurrentSnapshot \in [module : Int, generation : Nat]
        /\ CurrentSnapshot.generation = Len(published)
        /\ CurrentSnapshot.module = published[Len(published)]
    BY <1>1 DEF CurrentSnapshot, Generation
  <1>4. /\ r \in Tasks /\ r.queue = old.queue /\ r.batch = old.batch /\ r.state = old.state
        /\ r.alive = old.alive /\ r.target = CurrentSnapshot /\ r.seen = old.seen
        /\ r.local = old.local /\ r.module = old.module /\ r.stale = old.stale
    BY <1>1, <1>3 DEF Tasks
  <1> HIDE DEF r
  <1>5. RunsItsModule(r)
    BY <1>1, <1>2, <1>3, <1>4 DEF RunsItsModule
  <1>6. HoldsOnce(r)
    BY <1>1, <1>4 DEF HoldsOnce
  <1>7. Calm' => CalmTask(r)
    BY <1>1, <1>2, <1>4 DEF Calm, CalmTask
  <1> QED BY <1>1, <1>2, <1>4, <1>5, <1>6, <1>7, QuietTask

(* A candidate is adopted under the generation it was read with, or noted as failed. *)
LEMMA TryCandidateStep ==
    ASSUME WasmInv, WorkersRun, UNCHANGED dispatchVars, NEW w \in Workers, TryCandidate(w)
    PROVE  WasmInv'
  <1> DEFINE old == worker[w]
             adopted == [old EXCEPT !.module = old.target.module, !.local = old.target.generation,
                                    !.target = NoModule, !.stale = FALSE, !.processed = 0]
             kept == [old EXCEPT !.local = old.target.generation, !.target = NoModule,
                                 !.stale = TRUE, !.state = AfterReload(w)]
  <1>1. /\ old \in Tasks /\ worker \in [Workers -> Tasks]
        /\ Len(published) \in Nat /\ RunsItsModule(old) /\ HoldsOnce(old)
        /\ old.local \in Nat /\ old.seen \in Nat /\ old.batch \in Batches \union {None}
        /\ Calm => CalmTask(old)
    BY TaskFacts
  <1>2. /\ old.state = "reloading" /\ old.target # NoModule /\ Same /\ fate' = fate
    BY DEF TryCandidate
  <1>3. /\ old.target.module \in Int /\ old.target.generation \in Nat
        /\ old.target.generation \in 1..Len(published) /\ old.target.generation >= old.seen
        /\ old.target.module = published[old.target.generation]
    BY <1>1, <1>2 DEF Tasks, RunsItsModule
  <1>4. NoModule \in [module : Int, generation : Nat]
    BY DEF NoModule
  <1>5. CASE worker' = [worker EXCEPT ![w] = adopted] /\ UNCHANGED causes
    <2>1. /\ adopted \in Tasks /\ adopted.queue = old.queue /\ adopted.batch = old.batch
          /\ adopted.state = old.state /\ adopted.alive = old.alive /\ adopted.target = NoModule
          /\ adopted.seen = old.seen /\ adopted.local = old.target.generation
          /\ adopted.module = old.target.module
      BY <1>1, <1>3, <1>4 DEF Tasks
    <2> HIDE DEF adopted
    <2>2. RunsItsModule(adopted)
      BY <1>1, <1>2, <1>3, <2>1 DEF RunsItsModule
    <2>3. HoldsOnce(adopted)
      BY <1>1, <2>1 DEF HoldsOnce
    <2>4. Calm' => CalmTask(adopted)
      BY <1>1, <1>5, <2>1 DEF Calm, CalmTask
    <2> QED BY <1>1, <1>2, <1>5, <2>1, <2>2, <2>3, <2>4, QuietTask
  <1>6. CASE worker' = [worker EXCEPT ![w] = kept] /\ Fault("candidate")
    <2>1. AfterReload(w) \in {"idle", "executing"} /\ (AfterReload(w) = "executing" <=> old.batch # None)
      BY DEF AfterReload
    <2>2. /\ kept \in Tasks /\ kept.queue = old.queue /\ kept.batch = old.batch
          /\ kept.state = AfterReload(w) /\ kept.alive = old.alive /\ kept.target = NoModule
          /\ kept.seen = old.seen /\ kept.local = old.target.generation /\ kept.stale = TRUE
      BY <1>1, <1>3, <1>4, <2>1 DEF Tasks, WorkerStates
    <2> HIDE DEF kept
    <2>3. RunsItsModule(kept)
      BY <1>1, <1>2, <1>3, <2>1, <2>2 DEF RunsItsModule
    <2>4. HoldsOnce(kept)
      BY <1>1, <2>1, <2>2 DEF HoldsOnce
    <2>5. Calm' => CalmTask(kept)
      BY <1>1, <1>2, <1>6, <2>1, <2>2, FaultsStay DEF Calm, CalmTask
    <2>6. causes \subseteq causes'
      BY <1>6, FaultsStay
    <2>7. kept.state # "starting" /\ (kept.state = "ended" <=> old.state = "ended")
      BY <1>2, <2>1, <2>2
    <2> QED BY <1>1, <1>2, <1>6, <2>2, <2>3, <2>4, <2>5, <2>6, <2>7, QuietTask
  <1>7. \/ worker' = [worker EXCEPT ![w] = adopted] /\ UNCHANGED causes
        \/ worker' = [worker EXCEPT ![w] = kept] /\ Fault("candidate")
    BY <1>1 DEF TryCandidate, Adopt
  <1> QED BY <1>5, <1>6, <1>7

(* A step that changes only where the task is, its counter and its health: the end  *)
(* of a reload, of a guest call, of a drain, or of the input.                       *)
LEMMA MoveTask ==
    ASSUME WasmInv, WorkersRun, UNCHANGED dispatchVars, Same, fate' = fate,
           causes \subseteq causes',
           NEW w \in Workers, NEW s \in WorkerStates \ {"starting"}, NEW n \in Nat,
           NEW a \in BOOLEAN, a => worker[w].alive,
           worker' = [worker EXCEPT ![w] = [worker[w] EXCEPT !.state = s, !.processed = n, !.alive = a]],
           worker[w].target # NoModule => s = "reloading",
           s = "executing" => worker[w].local >= worker[w].seen,
           worker[w].batch # None <=> s \in {"executing", "routing"},
           worker[w].state # "ended",
           Calm' => /\ a = worker[w].alive
                    /\ s \notin {"draining", "dying", "ending"}
                    /\ s = "ended" => ~sendersOpen /\ worker[w].queue = << >>
    PROVE  WasmInv'
  <1> DEFINE old == worker[w]
             r == [old EXCEPT !.state = s, !.processed = n, !.alive = a]
  <1>1. /\ old \in Tasks /\ worker \in [Workers -> Tasks] /\ old.alive \in BOOLEAN
        /\ Len(published) \in Nat /\ RunsItsModule(old) /\ HoldsOnce(old)
        /\ old.local \in Nat /\ old.seen \in Nat
        /\ Calm => CalmTask(old)
        /\ phase \in Dispatching => sendersOpen
    BY TaskFacts DEF Tasks
  <1>2. /\ r \in Tasks /\ r.queue = old.queue /\ r.batch = old.batch /\ r.state = s
        /\ r.alive = a /\ r.target = old.target /\ r.seen = old.seen
        /\ r.local = old.local /\ r.module = old.module /\ r.stale = old.stale
    BY <1>1 DEF Tasks
  <1> HIDE DEF r
  <1>3. RunsItsModule(r)
    BY <1>1, <1>2 DEF RunsItsModule
  <1>4. HoldsOnce(r)
    BY <1>1, <1>2 DEF HoldsOnce
  <1>5. ASSUME Calm' PROVE /\ CalmTask(r)
                           /\ phase \in Dispatching =>
                                /\ r.state = "ended" <=> old.state = "ended"
                                /\ old.alive => r.alive
    <2>1. Calm
      BY <1>5 DEF Calm
    <2>2. a = old.alive /\ (old.alive \/ old.state = "ended")
      BY <1>1, <1>5, <2>1 DEF CalmTask
    <2>3. CalmTask(r)
      BY <1>2, <1>5, <2>2 DEF CalmTask
    <2> QED BY <1>1, <1>2, <1>5, <2>2, <2>3
  <1>6. worker' = [worker EXCEPT ![w] = r] /\ r.state # "starting"
    BY <1>2 DEF r
  <1> QED BY <1>2, <1>3, <1>4, <1>5, <1>6, QuietTask

(* recv returns None; check_hot_reload finds nothing newer; execute_batch returns;  *)
(* try_recv finds nothing more.                                                     *)
LEMMA MovingSteps ==
    ASSUME WasmInv, WorkersRun, UNCHANGED dispatchVars, NEW w \in Workers,
           EndOfInput(w) \/ HotReloaded(w) \/ Execute(w) \/ DrainedEmpty(w)
    PROVE  WasmInv'
  <1> DEFINE old == worker[w]
             Moved(s, n, a) == worker' = [worker EXCEPT ![w] =
                                   [old EXCEPT !.state = s, !.processed = n, !.alive = a]]
  <1>1. /\ old \in Tasks /\ worker \in [Workers -> Tasks] /\ old.alive \in BOOLEAN
        /\ old.processed \in Nat /\ old.local \in Nat /\ old.seen \in Nat
        /\ Len(published) \in Nat /\ RunsItsModule(old) /\ HoldsOnce(old)
        /\ Calm => CalmTask(old)
    BY TaskFacts DEF Tasks
  <1>2. Same /\ fate' = fate /\ old.state \notin {"starting", "ended"}
    BY DEF EndOfInput, HotReloaded, Execute, DrainedEmpty
  <1>3. /\ old.state # "reloading" => old.target = NoModule
        /\ old.batch # None => old.state \in {"reloading", "executing", "routing"}
        /\ old.state \in {"executing", "routing"} => old.batch # None
    BY <1>1, <1>2 DEF RunsItsModule, HoldsOnce
  <1>4. \A s \in WorkerStates : Become(w, s) => Moved(s, old.processed, old.alive)
    BY <1>1 DEF Become, Tasks
  <1>5. CASE EndOfInput(w)
    <2>1. /\ Moved("ended", old.processed, old.alive) /\ UNCHANGED causes
          /\ old.state = "idle" /\ old.queue = << >> /\ ~sendersOpen
      BY <1>4, <1>5 DEF EndOfInput, WorkerStates
    <2>2. "ended" \in WorkerStates \ {"starting"}
      BY DEF WorkerStates
    <2> QED BY <1>1, <1>2, <1>3, <2>1, <2>2, MoveTask
  <1>6. CASE HotReloaded(w)
    <2> DEFINE s == AfterReload(w)
    <2>1. s \in {"idle", "executing"} /\ (s = "executing" <=> old.batch # None)
      BY DEF AfterReload
    <2>2. s \in WorkerStates \ {"starting"} /\ s \notin {"draining", "dying", "ending", "ended"}
      BY <2>1 DEF WorkerStates
    <2>3. /\ Moved(s, old.processed, old.alive) /\ UNCHANGED causes
          /\ old.target = NoModule /\ old.local >= Len(published)
      BY <1>4, <1>6, <2>2 DEF HotReloaded, Generation
    <2>4. old.local >= old.seen
      BY <1>1, <2>3 DEF RunsItsModule
    <2> HIDE DEF s
    <2> QED BY <1>1, <1>2, <2>1, <2>2, <2>3, <2>4, MoveTask
  <1>7. CASE Execute(w)
    <2>1. old.state = "executing" /\ old.batch # None /\ old.target = NoModule
      BY <1>3, <1>7 DEF Execute
    <2>2. CountBatch(old.processed) \in Nat
      BY <1>1 DEF CountBatch
    <2>3. \/ \E n \in Nat : Moved("routing", n, old.alive) /\ UNCHANGED causes
          \/ Moved("routing", 0, FALSE) /\ Fault("rejuvenation")
      <3>1. Become(w, "routing") => Moved("routing", old.processed, old.alive)
        BY <1>4 DEF WorkerStates
      <3>2. ASSUME NEW n, worker' = [worker EXCEPT ![w].state = "routing", ![w].processed = n]
            PROVE  Moved("routing", n, old.alive)
        BY <1>1, <3>2 DEF Tasks
      <3>3. ASSUME worker' = [worker EXCEPT ![w].state = "routing", ![w].processed = 0, ![w].alive = FALSE]
            PROVE  Moved("routing", 0, FALSE)
        BY <1>1, <3>3 DEF Tasks
      <3>4. worker' = [worker EXCEPT ![w].state = "routing", ![w].processed = CountBatch(@)]
            => worker' = [worker EXCEPT ![w].state = "routing", ![w].processed = CountBatch(old.processed)]
        BY <1>1 DEF Tasks
      <3> HIDE DEF Moved
      <3> QED BY <1>1, <1>7, <2>2, <3>1, <3>2, <3>3, <3>4 DEF Execute
    <2>4. "routing" \in WorkerStates \ {"starting"}
      BY DEF WorkerStates
    <2>5. CASE \E n \in Nat : Moved("routing", n, old.alive) /\ UNCHANGED causes
      BY <1>1, <1>2, <2>1, <2>4, <2>5, MoveTask
    <2>6. CASE Moved("routing", 0, FALSE) /\ Fault("rejuvenation")
      <3>1. causes \subseteq causes' /\ ~Calm'
        BY <2>6, FaultsStay DEF Calm
      <3> QED BY <1>1, <1>2, <2>1, <2>4, <2>6, <3>1, MoveTask
    <2> QED BY <2>3, <2>5, <2>6
  <1>8. CASE DrainedEmpty(w)
    <2>1. /\ Moved("ending", old.processed, old.alive) /\ UNCHANGED causes
          /\ old.state \in {"draining", "dying"}
      BY <1>4, <1>8 DEF DrainedEmpty, WorkerStates
    <2>2. "ending" \in WorkerStates \ {"starting"}
      BY DEF WorkerStates
    <2>3. ~Calm'
      BY <1>1, <2>1 DEF CalmTask, Calm
    <2> QED BY <1>1, <1>2, <1>3, <2>1, <2>2, <2>3, MoveTask
  <1> QED BY <1>5, <1>6, <1>7, <1>8

(* Where a guest's answer may lead, and that it leads where it is due unless the    *)
(* destination fails.                                                               *)
LEMMA RouteFates ==
    ASSUME config \in Policies, NEW b, guest[b] \in GuestAnswers, NEW to \in RouteOf(guest[b])
    PROVE  /\ to.fate \in Fates \ {"none"}
           /\ ~to.fault /\ outputOpen /\ Acceptable(config) => to.fate = Due(b)
           /\ to.fate = "lost" => to.fault \/ ~outputOpen
  <1>1. /\ config.onError \in {"reroute", "passthrough", "drop"}
        /\ config.onReject \in {"reroute", "drop"} /\ config.allowUnmasked \in BOOLEAN
    BY DEF Policies
  <1>2. CASE guest[b] = "emitted"
    BY <1>1, <1>2 DEF RouteOf, ToOutput, Certain, Due, Fates
  <1>3. CASE guest[b] = "discarded"
    BY <1>1, <1>3 DEF RouteOf, ToOutput, Certain, Due, Fates
  <1>4. CASE guest[b] \in {"rejected", "tooLarge"}
    <2>1. to \in HandleRejected
      BY <1>4 DEF RouteOf
    <2>2. Due(b) = IF config.onReject = "reroute" THEN "dlqReject" ELSE "dropped"
      BY <1>4 DEF Due
    <2> QED BY <1>1, <2>1, <2>2 DEF HandleRejected, ToDlq, Certain, Fates
  <1>5. CASE guest[b] \in {"errored", "trap"}
    <2>1. to \in HandleErrored
      BY <1>5 DEF RouteOf
    <2>2. Due(b) = IF config.onError = "reroute" THEN "dlqError"
                   ELSE IF config.onError = "passthrough" THEN "emitted" ELSE "dropped"
      BY <1>5 DEF Due
    <2>3. CASE config.onError = "reroute"
      BY <2>1, <2>2, <2>3 DEF HandleErrored, ToDlq, Fates
    <2>4. CASE config.onError = "passthrough"
      <3>1. to \in IF config.allowUnmasked THEN ToOutput ELSE Certain("dropped")
        BY <2>1, <2>4 DEF HandleErrored
      <3>2. Acceptable(config) => config.allowUnmasked
        BY <2>4 DEF Acceptable
      <3> QED BY <1>1, <2>2, <2>4, <3>1, <3>2 DEF ToOutput, Certain, Fates
    <2>5. CASE config.onError = "drop"
      BY <2>1, <2>2, <2>5 DEF HandleErrored, Certain, Fates
    <2> QED BY <1>1, <2>3, <2>4, <2>5
  <1> QED BY <1>2, <1>3, <1>4, <1>5 DEF GuestAnswers

(* The result of a batch is sent on, and the batch is settled. *)
LEMMA RouteStep ==
    ASSUME WasmInv, WorkersRun, UNCHANGED dispatchVars, NEW w \in Workers, Route(w)
    PROVE  WasmInv'
  <1> DEFINE old == worker[w]
             b == old.batch
             After(f) == IF ~old.alive THEN "dying" ELSE IF f = "lost" THEN "draining" ELSE "idle"
             R(f) == [old EXCEPT !.batch = None, !.state = After(f),
                                 !.alive = f # "lost" /\ old.alive]
  <1>1. /\ old \in Tasks /\ worker \in [Workers -> Tasks] /\ old.alive \in BOOLEAN
        /\ fate \in [Batches -> Fates]
        /\ None \notin Batches /\ b \in Batches \union {None} /\ config \in Policies
        /\ RunsItsModule(old) /\ HoldsOnce(old) /\ \A x \in Batches : guest[x] \in GuestAnswers
        /\ Calm => CalmTask(old) /\ outputOpen
        /\ Acceptable(config)
    BY TaskFacts DEF Tasks
  <1>2. old.state = "routing" /\ Same /\ b \in Batches
    BY <1>1 DEF Route, HoldsOnce
  <1>3. PICK to \in RouteOf(guest[b]) :
          Settle(b, to) /\ worker' = [worker EXCEPT ![w] = R(to.fate)]
    BY <1>1 DEF Route, Tasks
  <1> DEFINE r == R(to.fate)
  <1>4. /\ to.fate \in Fates \ {"none"}
        /\ ~to.fault /\ outputOpen => to.fate = Due(b)
        /\ to.fate = "lost" => to.fault \/ ~outputOpen
    BY <1>1, <1>2, RouteFates
  <1>5. causes \subseteq causes' /\ (Calm' => ~to.fault)
    BY <1>3, FaultsStay DEF Settle, Calm
  <1>6. After(to.fate) \in {"dying", "draining", "idle"}
    OBVIOUS
  <1>7. /\ r \in Tasks /\ r.queue = old.queue /\ r.batch = None /\ r.state = After(to.fate)
        /\ r.alive = (to.fate # "lost" /\ old.alive) /\ r.target = old.target /\ r.seen = old.seen
        /\ r.local = old.local /\ r.module = old.module /\ r.stale = old.stale
    <2> HIDE DEF After
    <2> QED BY <1>1, <1>6 DEF Tasks, WorkerStates
  <1>8. RunsItsModule(r)
    <2> HIDE DEF r, After
    <2> QED BY <1>1, <1>2, <1>6, <1>7 DEF RunsItsModule
  <1>9. HoldsOnce(r)
    <2>1. old.queue \in Seq(Batches)
      BY <1>1 DEF Tasks
    <2>2. \A i \in 1..Len(old.queue) : old.queue[i] # None
      BY <1>1, <2>1
    <2> HIDE DEF r, After
    <2> QED BY <1>1, <1>2, <1>6, <1>7, <2>2 DEF HoldsOnce
  <1>10. Kept(r) = Kept(old) \ {b} /\ {b} \in SUBSET Kept(old)
    <2>1. \A i \in 1..Len(old.queue) : old.queue[i] # b
      BY <1>1 DEF HoldsOnce
    <2> HIDE DEF r, After
    <2> QED BY <1>1, <1>2, <1>7, <2>1 DEF Kept
  <1>11. fate' = [x \in Batches |-> IF x \in {b} THEN to.fate ELSE fate[x]]
    BY <1>1, <1>2, <1>3 DEF Settle
  <1>12. ASSUME Calm' PROVE /\ CalmTask(r) /\ to.fate = Due(b) /\ r.state # "ended" /\ old.state # "ended"
                            /\ old.alive => r.alive
    <2>1. Calm /\ ~to.fault /\ outputOpen /\ old.alive
      BY <1>1, <1>2, <1>5, <1>12 DEF Calm, CalmTask
    <2>2. to.fate = Due(b) /\ to.fate # "lost"
      BY <1>4, <2>1
    <2>3. r.state = "idle" /\ r.alive
      BY <1>7, <2>1, <2>2
    <2> HIDE DEF r
    <2> QED BY <1>2, <2>2, <2>3 DEF CalmTask
  <1>13. r.state # "starting" /\ worker' = [worker EXCEPT ![w] = r]
    BY <1>3, <1>6, <1>7
  <1>14. Calm' => /\ CalmTask(r)
                  /\ \A x \in {b} : to.fate = Due(x)
                  /\ phase \in Dispatching =>
                        /\ r.state = "ended" <=> old.state = "ended"
                        /\ old.alive => r.alive
    <2> HIDE DEF r
    <2> QED BY <1>12
  <1>15. r \in Tasks
    BY <1>7
  <1> HIDE DEF r
  <1> QED BY <1>2, <1>4, <1>5, <1>8, <1>9, <1>10, <1>11, <1>13, <1>14, <1>15, OneTask, ZenonT(60)

(* A drain loop settles the head of the channel. *)
LEMMA DrainOneStep ==
    ASSUME WasmInv, WorkersRun, UNCHANGED dispatchVars, NEW w \in Workers, DrainOne(w)
    PROVE  WasmInv'
  <1> DEFINE old == worker[w]
             b == Head(old.queue)
             r == [old EXCEPT !.queue = Tail(old.queue)]
  <1>1. /\ old \in Tasks /\ worker \in [Workers -> Tasks] /\ old.queue \in Seq(Batches)
        /\ Len(old.queue) \in Nat /\ None \notin Batches /\ fate \in [Batches -> Fates]
        /\ config \in Policies /\ RunsItsModule(old) /\ HoldsOnce(old)
        /\ Calm => CalmTask(old)
    BY TaskFacts
  <1>2. /\ old.state \in {"draining", "dying"} /\ old.queue # << >> /\ Same
        /\ worker' = [worker EXCEPT ![w] = r]
    BY <1>1 DEF DrainOne, Tasks
  <1>3. old.batch = None
    BY <1>1, <1>2 DEF HoldsOnce
  <1>4. /\ b = old.queue[1] /\ b \in Batches /\ Len(old.queue) > 0
        /\ Tail(old.queue) \in Seq(Batches) /\ Len(Tail(old.queue)) = Len(old.queue) - 1
        /\ \A i \in 1..(Len(old.queue) - 1) : Tail(old.queue)[i] = old.queue[i + 1]
    BY <1>1, <1>2
  <1>5. PICK to \in IF old.state = "dying" THEN HandleErrored ELSE DivertQueued : Settle(b, to)
    BY DEF DrainOne
  <1>6. to.fate \in Fates \ {"none"}
    <2>1. config.onError \in {"reroute", "passthrough", "drop"}
      BY <1>1 DEF Policies
    <2>2. to \in HandleErrored \/ to \in DivertQueued
      BY <1>5
    <2>3. CASE to \in DivertQueued
      BY <2>3 DEF DivertQueued, ToDlq, Certain, Fates
    <2>4. CASE to \in HandleErrored
      BY <2>1, <2>4 DEF HandleErrored, ToDlq, Certain, ToOutput, Fates
    <2> QED BY <2>2, <2>3, <2>4
  <1>7. causes \subseteq causes' /\ ~Calm'
    BY <1>1, <1>2, <1>5, FaultsStay DEF Settle, Calm, CalmTask
  <1>8. /\ r \in Tasks /\ r.queue = Tail(old.queue) /\ r.batch = old.batch /\ r.state = old.state
        /\ r.alive = old.alive /\ r.target = old.target /\ r.seen = old.seen
        /\ r.local = old.local /\ r.module = old.module /\ r.stale = old.stale
    BY <1>1, <1>4 DEF Tasks
  <1> HIDE DEF r
  <1>9. RunsItsModule(r)
    BY <1>1, <1>8 DEF RunsItsModule
  <1>10. \A i \in 1..Len(r.queue) :
            i + 1 \in 1..Len(old.queue) /\ i + 1 # 1 /\ r.queue[i] = old.queue[i + 1]
    BY <1>1, <1>4, <1>8
  <1>11. HoldsOnce(r)
    <2>1. \A i, j \in 1..Len(r.queue) : r.queue[i] = r.queue[j] => i = j
      <3>1. SUFFICES ASSUME NEW i \in 1..Len(r.queue), NEW j \in 1..Len(r.queue),
                            r.queue[i] = r.queue[j]
                     PROVE  i = j
        OBVIOUS
      <3>2. /\ i + 1 \in 1..Len(old.queue) /\ j + 1 \in 1..Len(old.queue)
            /\ old.queue[i + 1] = old.queue[j + 1]
        BY <1>10, <3>1
      <3>3. i + 1 = j + 1
        BY <1>1, <3>2 DEF HoldsOnce
      <3> QED BY <3>3
    <2>2. \A i \in 1..Len(r.queue) : r.queue[i] # r.batch
      BY <1>1, <1>8, <1>10 DEF HoldsOnce
    <2>3. Len(r.queue) <= ChannelCapacity
      <3>1. Len(old.queue) <= ChannelCapacity /\ ChannelCapacity \in Nat
        BY <1>1, WasmAssumption DEF HoldsOnce
      <3> QED BY <1>1, <1>4, <1>8, <3>1
    <2> QED BY <1>2, <1>3, <1>8, <2>1, <2>2, <2>3 DEF HoldsOnce
  <1>12. Kept(r) = Kept(old) \ {b} /\ {b} \in SUBSET Kept(old)
    <2>1. 1 \in 1..Len(old.queue) /\ b # None
      BY <1>1, <1>4
    <2>2. \A i \in 1..Len(old.queue) : i # 1 =>
             old.queue[i] # b /\ i - 1 \in 1..Len(r.queue) /\ r.queue[i - 1] = old.queue[i]
      <3>1. \A i \in 1..Len(old.queue) : i # 1 => i - 1 \in 1..Len(r.queue) /\ (i - 1) + 1 = i
        BY <1>1, <1>4, <1>8
      <3> QED BY <1>1, <1>4, <1>10, <2>1, <3>1 DEF HoldsOnce
    <2>3. \A i \in 1..Len(r.queue) : r.queue[i] # b
      BY <1>1, <1>4, <1>10, <2>1 DEF HoldsOnce
    <2> HIDE DEF b, old
    <2>4. ASSUME NEW x, NEW i \in 1..Len(r.queue), r.queue[i] = x
          PROVE  x # b /\ \E j \in 1..Len(old.queue) : old.queue[j] = x
      BY <1>10, <2>3, <2>4
    <2>5. ASSUME NEW x, x # b, NEW i \in 1..Len(old.queue), old.queue[i] = x
          PROVE  \E j \in 1..Len(r.queue) : r.queue[j] = x
      <3>1. i # 1
        BY <1>4, <2>5
      <3> QED BY <2>2, <2>5, <3>1
    <2>6. Kept(r) = {r.queue[i] : i \in 1..Len(r.queue)}
          /\ Kept(old) = {old.queue[i] : i \in 1..Len(old.queue)}
      BY <1>3, <1>8 DEF Kept
    <2>7. ASSUME NEW x \in Kept(r) PROVE x \in Kept(old) \ {b}
      <3>1. PICK i \in 1..Len(r.queue) : r.queue[i] = x
        BY <2>6
      <3> QED BY <2>4, <2>6, <3>1
    <2>8. ASSUME NEW x \in Kept(old) \ {b} PROVE x \in Kept(r)
      <3>1. PICK i \in 1..Len(old.queue) : old.queue[i] = x
        BY <2>6
      <3> QED BY <2>5, <2>6, <3>1
    <2> QED BY <1>4, <2>1, <2>6, <2>7, <2>8
  <1>13. fate' = [x \in Batches |-> IF x \in {b} THEN to.fate ELSE fate[x]]
    BY <1>1, <1>4, <1>5 DEF Settle
  <1>14. r \in Tasks /\ r.state # "starting"
    BY <1>2, <1>8
  <1> QED BY <1>2, <1>6, <1>7, <1>9, <1>11, <1>12, <1>13, <1>14, OneTask

(* A task that ends with its batches: a panic of the blocking thread, or the        *)
(* receiver dropped after a drain.                                                  *)
LEMMA TaskEnds ==
    ASSUME WasmInv, WorkersRun, UNCHANGED dispatchVars, NEW w \in Workers,
           Panic(w) \/ DropReceiver(w)
    PROVE  WasmInv'
  <1> DEFINE old == worker[w]
             r == [old EXCEPT !.state = "ended", !.queue = << >>, !.batch = None, !.alive = FALSE]
  <1>1. /\ old \in Tasks /\ worker \in [Workers -> Tasks] /\ fate \in [Batches -> Fates]
        /\ RunsItsModule(old) /\ HoldsOnce(old)
        /\ Calm => CalmTask(old)
    BY TaskFacts
  <1>2. Same /\ EndTasks({w}) /\ causes \subseteq causes' /\ ~Calm'
    <2>1. CASE Panic(w)
      BY <2>1, FaultsStay DEF Panic, Calm
    <2>2. CASE DropReceiver(w)
      BY <1>1, <2>2 DEF DropReceiver, Calm, CalmTask
    <2> QED BY <2>1, <2>2
  <1>3. worker' = [worker EXCEPT ![w] = r]
    BY <1>1, <1>2 DEF EndTasks
  <1>4. UNION {Abandoned(v) : v \in {w}} = Kept(old)
    BY DEF Abandoned, Kept
  <1>5. fate' = [b \in Batches |-> IF b \in Kept(old) THEN "lost" ELSE fate[b]]
    BY <1>2, <1>4 DEF EndTasks
  <1>6. /\ r \in Tasks /\ r.queue = << >> /\ r.batch = None /\ r.state = "ended"
        /\ r.target = old.target /\ r.seen = old.seen
        /\ r.local = old.local /\ r.module = old.module /\ r.stale = old.stale
    <2>1. << >> \in Seq(Batches)
      OBVIOUS
    <2> QED BY <1>1, <2>1 DEF Tasks, WorkerStates
  <1> HIDE DEF r
  <1>7. RunsItsModule(r)
    BY <1>1, <1>6 DEF RunsItsModule
  <1>8. HoldsOnce(r) /\ Kept(r) = {}
    <2>1. Len(r.queue) = 0 /\ ChannelCapacity \in Nat
      BY <1>6, WasmAssumption
    <2> QED BY <1>6, <2>1 DEF HoldsOnce, Kept
  <1>9. Kept(r) = Kept(old) \ Kept(old) /\ Kept(old) \in SUBSET Kept(old)
    BY <1>8
  <1>10. "lost" \in Fates \ {"none"} /\ r \in Tasks /\ r.state # "starting"
    BY <1>6 DEF Fates
  <1> QED BY <1>2, <1>3, <1>5, <1>7, <1>8, <1>9, <1>10, OneTask

(* A reload, or a new module file: what was published stays what it was, at its     *)
(* generation.                                                                      *)
LEMMA EngineSteps ==
    ASSUME WasmInv, UNCHANGED dispatchVars, EngineStep
    PROVE  WasmInv'
  <1>1. /\ WasmShapes /\ DispatchShapes /\ Custody /\ Control
        /\ \A w \in Workers : RunsItsModule(worker[w])
        /\ Calm => CalmWorkers /\ CalmDispatch
    BY DEF WasmInv
  <1>2. /\ UNCHANGED <<config, guest, worker, fate, causes, sendersOpen, outputOpen>>
        /\ file \in Nat /\ published \in Seq(Nat) /\ Len(published) \in Nat /\ Len(published) > 0
        /\ reload \in [Reloaders -> Int] /\ worker \in [Workers -> Tasks]
    BY <1>1 DEF EngineStep, ReplaceFile, Reload, ReadModule, StageAndPublish, workerVars, WasmShapes
  <1>3. /\ file' \in Nat /\ reload' \in [Reloaders -> Int]
        /\ published' = published \/ \E m \in Nat : published' = Append(published, m)
    <2>1. CASE ReplaceFile
      BY <1>2, <2>1 DEF ReplaceFile
    <2>2. CASE \E r \in Reloaders : ReadModule(r)
      BY <1>2, <2>2 DEF ReadModule
    <2>3. CASE \E r \in Reloaders : StageAndPublish(r)
      <3>1. PICK r \in Reloaders : StageAndPublish(r)
        BY <2>3
      <3>2. reload[r] \in Nat
        BY <1>2, <3>1 DEF StageAndPublish
      <3>3. reload' \in [Reloaders -> Int] /\ file' = file
        BY <1>2, <3>1 DEF StageAndPublish
      <3> QED BY <1>2, <3>1, <3>2, <3>3 DEF StageAndPublish, Staged
    <2> QED BY <2>1, <2>2, <2>3 DEF EngineStep, Reload
  <1>4. /\ published' \in Seq(Nat) /\ Len(published') >= Len(published)
        /\ \A g \in 1..Len(published) : published'[g] = published[g]
    <2>1. CASE published' = published
      BY <1>2, <2>1
    <2>2. ASSUME NEW m \in Nat, published' = Append(published, m)
          PROVE  /\ published' \in Seq(Nat) /\ Len(published') >= Len(published)
                 /\ \A g \in 1..Len(published) : published'[g] = published[g]
      <3>1. published' \in Seq(Nat) /\ Len(published') = Len(published) + 1
        BY <1>2, <2>2
      <3>2. \A g \in 1..Len(published) : published'[g] = published[g]
        BY <1>2, <2>2
      <3> QED BY <1>2, <3>1, <3>2
    <2> QED BY <1>3, <2>1, <2>2
  <1>5. WasmShapes'
    <2>1. Tasks' = Tasks /\ Batches' = Batches
      BY <1>2 DEF Tasks, Batches
    <2>2. Len(published') > 0
      BY <1>2, <1>4
    <2> QED BY <1>1, <1>2, <1>3, <1>4, <2>1, <2>2 DEF WasmShapes
  <1>6. ASSUME NEW w \in Workers PROVE RunsItsModule(worker[w])'
    <2>1. worker[w].local \in Nat /\ worker[w].seen \in Nat /\ worker' = worker
      BY <1>2 DEF Tasks
    <2>2. Len(published') \in Nat
      BY <1>4
    <2>3. RunsItsModule(worker[w])
      BY <1>1
    <2> QED BY <1>2, <1>4, <2>1, <2>2, <2>3, SMTT(60) DEF RunsItsModule
  <1>7. DispatchShapes' /\ Custody' /\ Control' /\ (Calm' => CalmWorkers' /\ CalmDispatch')
    <2>1. UNCHANGED <<phase, taken, hand, nextWorker, offset, from, firstFull, result>>
      BY DEF dispatchVars
    <2>2. DispatchShapes'
      BY <1>1, <1>2, <2>1 DEF DispatchShapes, Batches
    <2>3. Custody'
      <3>1. \A w \in Workers : HoldsOnce(worker[w])' = HoldsOnce(worker[w])
        BY <1>2 DEF HoldsOnce
      <3>2. \A w \in Workers : Kept(worker[w])' = Kept(worker[w])
        BY <1>2 DEF Kept
      <3>3. Batches' = Batches
        BY <1>2 DEF Batches
      <3> QED BY <1>1, <1>2, <2>1, <3>1, <3>2, <3>3 DEF Custody
    <2>4. Control'
      BY <1>1, <1>2, <2>1 DEF Control, Acceptable
    <2>5. CalmWorkers => CalmWorkers'
      BY <1>2 DEF CalmWorkers, CalmTask, Due, Batches
    <2>6. CalmDispatch => CalmDispatch'
      BY <1>2, <2>1 DEF CalmDispatch
    <2> QED BY <1>1, <1>2, <2>2, <2>3, <2>4, <2>5, <2>6 DEF Calm
  <1> QED BY <1>5, <1>6, <1>7 DEF WasmInv

(* The modulus of the worker loop: offsets 0 .. n-1 from any worker reach them all. *)
LEMMA LoopReachesAll ==
    ASSUME NEW n \in Nat \ {0}, NEW f \in 0..(n - 1)
    PROVE  /\ \A o \in Nat : (f + o) % n \in 0..(n - 1)
           /\ \A v \in 0..(n - 1) : \E o \in 0..(n - 1) : (f + o) % n = v
  <1>1. \A o \in Nat : (f + o) % n \in 0..(n - 1)
    OBVIOUS
  <1>2. ASSUME NEW v \in 0..(n - 1) PROVE \E o \in 0..(n - 1) : (f + o) % n = v
    <2>1. CASE v >= f
      <3>1. v - f \in 0..(n - 1) /\ f + (v - f) = v
        BY <2>1
      <3>2. v % n = v
        OBVIOUS
      <3> QED BY <3>1, <3>2
    <2>2. CASE v < f
      <3>1. v - f + n \in 0..(n - 1) /\ f + (v - f + n) = v + n
        BY <2>2
      <3>2. (v + n) % n = v
        OBVIOUS
      <3> QED BY <3>1, <3>2
    <2> QED BY <2>1, <2>2
  <1> QED BY <1>1, <1>2

(* The workers, their batches and their modules are left as they are. *)
LEMMA SameTasks ==
    ASSUME WasmInv, UNCHANGED <<config, guest, engineVars, worker, fate, outputOpen, taken, hand>>,
           sendersOpen' \in BOOLEAN, sendersOpen' => sendersOpen, Calm' => Calm
    PROVE  /\ WasmShapes' /\ Custody'
           /\ \A w \in Workers : RunsItsModule(worker[w])'
           /\ Calm' => CalmWorkers'
           /\ Batches' = Batches
  <1>1. /\ WasmShapes /\ Custody /\ \A w \in Workers : RunsItsModule(worker[w])
        /\ Calm => CalmWorkers
    BY DEF WasmInv
  <1>2. /\ config' = config /\ guest' = guest /\ file' = file /\ published' = published
        /\ reload' = reload /\ worker' = worker /\ fate' = fate /\ outputOpen' = outputOpen
        /\ taken' = taken /\ hand' = hand
    BY DEF engineVars
  <1>3. Batches' = Batches /\ Tasks' = Tasks
    BY <1>2 DEF Batches, Tasks
  <1>4. WasmShapes'
    BY <1>1, <1>2, <1>3 DEF WasmShapes
  <1>5. Custody'
    <2>1. \A w \in Workers : HoldsOnce(worker[w])' = HoldsOnce(worker[w])
      BY <1>2 DEF HoldsOnce
    <2>2. \A w \in Workers : Kept(worker[w])' = Kept(worker[w])
      BY <1>2 DEF Kept
    <2> QED BY <1>1, <1>2, <1>3, <2>1, <2>2 DEF Custody
  <1>6. \A w \in Workers : RunsItsModule(worker[w])'
    BY <1>1, <1>2 DEF RunsItsModule
  <1>7. CalmWorkers => CalmWorkers'
    <2>1. \A w \in Workers : CalmTask(worker[w]) => CalmTask(worker[w])'
      BY <1>2 DEF CalmTask
    <2>2. \A b \in Batches : Due(b)' = Due(b)
      BY <1>2 DEF Due
    <2> QED BY <1>2, <1>3, <2>1, <2>2 DEF CalmWorkers
  <1> QED BY <1>1, <1>3, <1>4, <1>5, <1>6, <1>7

(* The facts about the dispatcher its steps start from. *)
LEMMA DispatchFacts ==
    ASSUME WasmInv
    PROVE  /\ DispatchShapes /\ Control /\ worker \in [Workers -> Tasks]
           /\ guest \in Seq(GuestAnswers) /\ Len(guest) \in Nat /\ Batches = 1..Len(guest)
           /\ taken \in 0..Len(guest) /\ hand \in Batches \union {None} /\ None \notin Batches
           /\ sendersOpen \in BOOLEAN
           /\ Concurrency \in Nat /\ Concurrency > 0 /\ Workers = 0..(Concurrency - 1)
           /\ offset \in Nat /\ from \in 0..(Concurrency - 1)
  <1>1. DispatchShapes /\ Control /\ WasmShapes
    BY DEF WasmInv
  <1>2. guest \in Seq(GuestAnswers) /\ worker \in [Workers -> Tasks] /\ sendersOpen \in BOOLEAN
    BY <1>1 DEF WasmShapes
  <1>3. Len(guest) \in Nat /\ Batches = 1..Len(guest) /\ None \notin Batches
    BY <1>2 DEF Batches, None
  <1>4. Concurrency \in Nat /\ Concurrency > 0
    BY WasmAssumption
  <1>5. /\ taken \in 0..Len(guest) /\ hand \in Batches \union {None}
        /\ offset \in 0..Concurrency /\ from \in Workers
    BY <1>1 DEF DispatchShapes
  <1>6. offset \in Nat
    BY <1>4, <1>5
  <1> QED BY <1>1, <1>2, <1>3, <1>4, <1>5, <1>6 DEF Workers

(* run before its loop: the configuration is refused, or the workers have reported. *)
LEMMA StartSteps ==
    ASSUME WasmInv, Construct \/ AwaitWorkers
    PROVE  WasmInv'
  <1>1. /\ DispatchShapes /\ Control /\ phase \in {"validate", "init"}
        /\ UNCHANGED <<config, guest, engineVars, worker, fate, outputOpen, taken, hand, sendersOpen,
                       causes, nextWorker, offset, from, firstFull>>
        /\ sendersOpen \in BOOLEAN
    BY DispatchFacts DEF Construct, AwaitWorkers, wasmVars, workerVars
  <1>2. /\ WasmShapes' /\ Custody' /\ Batches' = Batches
        /\ \A w \in Workers : RunsItsModule(worker[w])'
        /\ Calm' => CalmWorkers'
    BY <1>1, SameTasks DEF Calm
  <1>3. \/ phase' = "init" /\ result' = result /\ Acceptable(config)
        \/ phase' = "returned" /\ result' = "Err"
        \/ /\ phase' = "recv" /\ result' = result /\ Acceptable(config)
           /\ \E w \in Workers : worker[w].alive
           /\ \A w \in Workers : worker[w].state # "starting"
    BY <1>1 DEF Construct, AwaitWorkers, Started, Reported, Control
  <1>4. DispatchShapes'
    BY <1>1, <1>2, <1>3 DEF DispatchShapes, Phases
  <1>5. sendersOpen
    BY <1>1 DEF Control
  <1>6. Control'
    BY <1>1, <1>3, <1>5 DEF Control, Acceptable, Holding, Dispatching
  <1>7. CalmDispatch'
    BY <1>1, <1>3 DEF CalmDispatch, Holding, Dispatching
  <1> QED BY <1>2, <1>4, <1>6, <1>7 DEF WasmInv

(* The next batch of the input. *)
LEMMA TakeInputStep ==
    ASSUME WasmInv, TakeInput
    PROVE  WasmInv'
  <1>1. /\ DispatchShapes /\ Control /\ Custody /\ WasmShapes
        /\ \A w \in Workers : RunsItsModule(worker[w])
        /\ Calm => CalmWorkers /\ CalmDispatch
    BY DEF WasmInv
  <1>2. /\ phase = "recv" /\ taken < Len(guest) /\ taken' = taken + 1 /\ hand' = taken + 1
        /\ phase' = "scan" /\ offset' = 0 /\ from' = nextWorker /\ firstFull' = -1
        /\ nextWorker' = nextWorker /\ result' = result
        /\ config' = config /\ guest' = guest /\ file' = file /\ published' = published
        /\ reload' = reload /\ worker' = worker /\ fate' = fate /\ outputOpen' = outputOpen
        /\ sendersOpen' = sendersOpen /\ causes' = causes
    BY DEF TakeInput, wasmVars, engineVars, workerVars
  <1>3. /\ Len(guest) \in Nat /\ Batches = 1..Len(guest) /\ taken \in 0..Len(guest)
        /\ Concurrency \in Nat /\ Concurrency > 0 /\ None \notin Batches
    BY DispatchFacts
  <1>4. taken + 1 \in Batches /\ taken + 1 # None /\ taken' \in 0..Len(guest) /\ hand = None
    BY <1>1, <1>2, <1>3 DEF None, Control, Holding
  <1>5. Batches' = Batches /\ Tasks' = Tasks
    BY <1>2 DEF Batches, Tasks
  <1>6. WasmShapes'
    BY <1>1, <1>2, <1>5 DEF WasmShapes
  <1>7. DispatchShapes'
    BY <1>1, <1>2, <1>3, <1>4, <1>5 DEF DispatchShapes, Phases
  <1>8. \A w \in Workers : RunsItsModule(worker[w])'
    BY <1>1, <1>2 DEF RunsItsModule
  <1>9. Custody'
    <2>1. \A w \in Workers : HoldsOnce(worker[w])' = HoldsOnce(worker[w])
      BY <1>2 DEF HoldsOnce
    <2>2. \A w \in Workers : Kept(worker[w])' = Kept(worker[w])
      BY <1>2 DEF Kept
    <2>3. \A w \in Workers : HoldsOnce(worker[w])'
      BY <1>1, <2>1 DEF Custody
    <2>4. \A v, w \in Workers : v # w => (Kept(worker[v]) \intersect Kept(worker[w]))' = {}
      BY <1>1, <2>2 DEF Custody
    <2>5. \A w \in Workers : \A b \in Kept(worker[w]) : b \in Batches
      <3>1. SUFFICES ASSUME NEW w \in Workers PROVE Kept(worker[w]) \subseteq Batches
        OBVIOUS
      <3>2. worker[w].queue \in Seq(Batches) /\ worker[w].batch \in Batches \union {None}
        BY TaskFacts
      <3> QED BY <3>2 DEF Kept
    <2>6. \A w \in Workers : \A b \in Kept(worker[w]) :
            fate[b] = "none" /\ b # taken + 1 /\ b <= taken + 1
      <3>1. \A w \in Workers : \A b \in Kept(worker[w]) : fate[b] = "none" /\ b <= taken
        BY <1>1 DEF Custody
      <3> QED BY <1>3, <2>5, <3>1, SMTT(60)
    <2>7. fate[taken + 1] = "none" /\ taken + 1 <= taken + 1
      <3>1. fate[taken + 1] # "none" => taken + 1 <= taken
        BY <1>1, <1>4 DEF Custody
      <3> QED BY <1>3, <3>1
    <2>8. \A b \in Batches : fate[b] # "none" => b <= taken + 1
      <3>1. \A b \in Batches : fate[b] # "none" => b <= taken
        BY <1>1 DEF Custody
      <3> QED BY <1>3, <3>1
    <2>9. \A b \in 1..(taken + 1) :
            taken + 1 = b \/ fate[b] # "none" \/ \E w \in Workers : b \in Kept(worker[w])
      <3>1. \A b \in 1..taken : fate[b] # "none" \/ \E w \in Workers : b \in Kept(worker[w])
        BY <1>1, <1>3, <1>4 DEF Custody, None
      <3>2. \A b \in 1..(taken + 1) : b = taken + 1 \/ b \in 1..taken
        BY <1>3
      <3> QED BY <3>1, <3>2
    <2> QED BY <1>2, <1>5, <2>2, <2>3, <2>4, <2>6, <2>7, <2>8, <2>9 DEF Custody
  <1>10. Control'
    BY <1>1, <1>2, <1>4 DEF Control, Acceptable, Holding, Dispatching
  <1>11. ASSUME Calm' PROVE CalmWorkers' /\ CalmDispatch'
    <2>1. CalmWorkers /\ CalmDispatch
      BY <1>1, <1>2, <1>11 DEF Calm
    <2>2. CalmWorkers'
      <3>1. \A w \in Workers : CalmTask(worker[w]) => CalmTask(worker[w])'
        BY <1>2 DEF CalmTask
      <3>2. \A b \in Batches : Due(b)' = Due(b)
        BY <1>2 DEF Due
      <3> QED BY <1>2, <1>5, <2>1, <3>1, <3>2 DEF CalmWorkers
    <2>3. CalmDispatch'
      <3>1. \A o \in 0..(offset' - 1) : FALSE
        BY <1>2
      <3> QED BY <1>2, <2>1, <3>1 DEF CalmDispatch, Dispatching, Holding
    <2> QED BY <2>2, <2>3
  <1> QED BY <1>6, <1>7, <1>8, <1>9, <1>10, <1>11 DEF WasmInv

(* try_send or send().await on a worker that is open and has room. *)
LEMMA SendStep ==
    ASSUME WasmInv, phase \in Holding, NEW w \in Workers,
           ~ClosedChannel(w), ~FullChannel(w), Send(w),
           UNCHANGED <<config, guest, engineVars, fate, causes, sendersOpen, outputOpen>>
    PROVE  WasmInv'
  <1> DEFINE old == worker[w]
             r == [old EXCEPT !.queue = Append(old.queue, hand)]
  <1>1. /\ DispatchShapes /\ Control /\ Custody /\ WasmShapes
        /\ \A v \in Workers : RunsItsModule(worker[v])
        /\ Calm => CalmWorkers /\ CalmDispatch
    BY DEF WasmInv
  <1>2. /\ old \in Tasks /\ worker \in [Workers -> Tasks] /\ old.queue \in Seq(Batches)
        /\ Len(old.queue) \in Nat /\ None \notin Batches /\ HoldsOnce(old) /\ RunsItsModule(old)
        /\ old.batch \in Batches \union {None} /\ old.state # "starting" /\ sendersOpen
        /\ Calm => CalmTask(old)
    BY TaskFacts DEF Dispatching
  <1>3. hand \in Batches
    BY <1>1 DEF Control, DispatchShapes
  <1>4. /\ phase' = "recv" /\ hand' = None /\ taken' = taken /\ offset' = offset /\ from' = from
        /\ firstFull' = firstFull /\ result' = result /\ nextWorker' = (w + 1) % Concurrency
        /\ config' = config /\ guest' = guest /\ file' = file /\ published' = published
        /\ reload' = reload /\ fate' = fate /\ outputOpen' = outputOpen
        /\ sendersOpen' = sendersOpen /\ causes' = causes
        /\ worker' = [worker EXCEPT ![w] = r]
    BY <1>2 DEF Send, engineVars, Tasks
  <1>5. old.state # "ended" /\ Len(old.queue) < ChannelCapacity /\ ChannelCapacity \in Nat
    BY <1>2, WasmAssumption DEF ClosedChannel, FullChannel
  <1>6. /\ Append(old.queue, hand) \in Seq(Batches)
        /\ Len(Append(old.queue, hand)) = Len(old.queue) + 1
        /\ Append(old.queue, hand)[Len(old.queue) + 1] = hand
        /\ \A i \in 1..Len(old.queue) : Append(old.queue, hand)[i] = old.queue[i]
    BY <1>2, <1>3
  <1>7. /\ r \in Tasks /\ r.queue = Append(old.queue, hand) /\ r.batch = old.batch
        /\ r.state = old.state /\ r.alive = old.alive /\ r.target = old.target /\ r.seen = old.seen
        /\ r.local = old.local /\ r.module = old.module /\ r.stale = old.stale
    BY <1>2, <1>6 DEF Tasks
  <1> HIDE DEF r
  <1>8. hand \notin Kept(old) /\ hand # None
    BY <1>1, <1>2, <1>3 DEF Custody
  <1>9. \A i \in 1..Len(old.queue) : old.queue[i] # hand
    BY <1>8 DEF Kept
  <1>10. \A i \in 1..Len(r.queue) : i \in 1..Len(old.queue) \/ i = Len(old.queue) + 1
    BY <1>2, <1>6, <1>7
  <1>11. HoldsOnce(r)
    <2>1. \A i, j \in 1..Len(r.queue) : r.queue[i] = r.queue[j] => i = j
      BY <1>2, <1>6, <1>7, <1>9, <1>10 DEF HoldsOnce
    <2>2. \A i \in 1..Len(r.queue) : r.queue[i] # r.batch
      <3>1. old.batch # hand
        BY <1>8 DEF Kept
      <3> QED BY <1>2, <1>6, <1>7, <1>10, <3>1 DEF HoldsOnce
    <2>3. Len(r.queue) <= ChannelCapacity
      BY <1>2, <1>5, <1>6, <1>7
    <2> QED BY <1>2, <1>7, <2>1, <2>2, <2>3 DEF HoldsOnce
  <1>12. Kept(r) = Kept(old) \union {hand}
    <2>1. ASSUME NEW x \in Kept(r) PROVE x \in Kept(old) \union {hand}
      BY <1>6, <1>7, <1>10 DEF Kept
    <2>2. ASSUME NEW x \in Kept(old) PROVE x \in Kept(r)
      <3>1. \A i \in 1..Len(old.queue) : i \in 1..Len(r.queue) /\ r.queue[i] = old.queue[i]
        BY <1>2, <1>6, <1>7
      <3> QED BY <1>7, <3>1 DEF Kept
    <2>3. hand \in Kept(r)
      <3>1. Len(old.queue) + 1 \in 1..Len(r.queue) /\ r.queue[Len(old.queue) + 1] = hand
        BY <1>2, <1>6, <1>7
      <3> QED BY <3>1 DEF Kept
    <2> QED BY <2>1, <2>2, <2>3
  <1>13. Batches' = Batches /\ Tasks' = Tasks
    BY <1>4 DEF Batches, Tasks
  <1>14. worker' \in [Workers -> Tasks] /\ worker'[w] = r /\ \A v \in Workers : v # w => worker'[v] = worker[v]
    BY <1>2, <1>4, <1>7
  <1>15. WasmShapes'
    BY <1>1, <1>4, <1>13, <1>14 DEF WasmShapes
  <1>16. DispatchShapes'
    <2>1. (w + 1) % Concurrency \in Workers
      BY WasmAssumption DEF Workers
    <2> QED BY <1>1, <1>4, <1>13, <2>1 DEF DispatchShapes, Phases
  <1>17. \A v \in Workers : RunsItsModule(worker[v])'
    <2>1. RunsItsModule(r)
      BY <1>2, <1>7 DEF RunsItsModule
    <2> QED BY <1>1, <1>4, <1>14, <2>1 DEF RunsItsModule
  <1>18. Custody'
    <2>1. \A v \in Workers : HoldsOnce(worker'[v])
      BY <1>1, <1>11, <1>14 DEF Custody
    <2>2. \A v \in Workers : v # w => Kept(worker'[v]) = Kept(worker[v]) /\ hand \notin Kept(worker[v])
      BY <1>1, <1>8, <1>14 DEF Custody
    <2>3. Kept(worker'[w]) = Kept(worker[w]) \union {hand}
      BY <1>12, <1>14
    <2>4. \A v, u \in Workers : v # u => Kept(worker'[v]) \intersect Kept(worker'[u]) = {}
      BY <1>1, <2>2, <2>3 DEF Custody
    <2>5. \A v \in Workers : \A b \in Kept(worker'[v]) : fate[b] = "none" /\ b # None /\ b <= taken
      <3>1. fate[hand] = "none" /\ hand <= taken
        BY <1>1, <1>8 DEF Custody
      <3>2. \A v \in Workers : None \notin Kept(worker[v])
        <4>1. \A v \in Workers : worker[v].queue \in Seq(Batches) /\ None \notin Batches
          BY TaskFacts
        <4> QED BY <4>1 DEF Kept
      <3> QED BY <1>1, <1>8, <2>2, <2>3, <3>1, <3>2 DEF Custody
    <2>6. \A b \in 1..taken : fate[b] # "none" \/ \E v \in Workers : b \in Kept(worker'[v])
      BY <1>1, <2>2, <2>3 DEF Custody
    <2>7. \A v \in Workers : HoldsOnce(worker[v])'
      BY <2>1 DEF HoldsOnce
    <2>8. \A v \in Workers : Kept(worker[v])' = Kept(worker'[v])
      BY DEF Kept
    <2>9. \A b \in Batches : fate[b] # "none" => b <= taken
      BY <1>1 DEF Custody
    <2> HIDE DEF HoldsOnce, Kept
    <2> QED BY <1>4, <1>13, <2>4, <2>5, <2>6, <2>7, <2>8, <2>9 DEF Custody
  <1>19. Control'
    <2>1. \A v \in Workers : worker'[v].state = worker[v].state
      BY <1>7, <1>14
    <2> QED BY <1>1, <1>4, <2>1 DEF Control, Acceptable, Holding, Dispatching
  <1>20. ASSUME Calm' PROVE CalmWorkers' /\ CalmDispatch'
    <2>1. Calm /\ CalmWorkers /\ CalmDispatch
      BY <1>1, <1>4, <1>20 DEF Calm
    <2>2. CalmWorkers'
      <3>1. CalmTask(r)
        BY <1>2, <1>5, <1>7, <2>1 DEF CalmTask
      <3>2. \A v \in Workers : CalmTask(worker'[v])
        BY <1>14, <2>1, <3>1 DEF CalmWorkers
      <3>3. \A v \in Workers : CalmTask(worker[v])'
        BY <1>4, <3>2 DEF CalmTask
      <3>4. \A b \in Batches : Due(b)' = Due(b)
        BY <1>4 DEF Due
      <3> QED BY <1>4, <1>13, <2>1, <3>3, <3>4 DEF CalmWorkers
    <2>3. CalmDispatch'
      <3>1. \E v \in Workers : worker'[v].alive
        BY <1>7, <1>14, <2>1 DEF CalmDispatch, Dispatching
      <3> QED BY <1>4, <3>1 DEF CalmDispatch
    <2> QED BY <2>2, <2>3
  <1> QED BY <1>15, <1>16, <1>17, <1>18, <1>19, <1>20 DEF WasmInv

(* dispatch_batch's loop goes on to the next worker. *)
LEMMA NextOffsetStep ==
    ASSUME WasmInv, phase \in {"scan", "rescan"}, offset < Concurrency,
           ClosedChannel((from + offset) % Concurrency) \/ FullChannel((from + offset) % Concurrency),
           offset' = offset + 1,
           firstFull' = IF firstFull = -1 /\ ~ClosedChannel((from + offset) % Concurrency)
                        THEN (from + offset) % Concurrency ELSE firstFull,
           UNCHANGED <<phase, taken, hand, nextWorker, from, result, worker>>, SameWorkers
    PROVE  WasmInv'
  <1> DEFINE w == (from + offset) % Concurrency
  <1>1. /\ DispatchShapes /\ Control /\ sendersOpen \in BOOLEAN
        /\ Concurrency \in Nat /\ Concurrency > 0 /\ Workers = 0..(Concurrency - 1)
        /\ offset \in Nat /\ from \in 0..(Concurrency - 1)
    BY DispatchFacts
  <1>2. w \in Workers /\ w # -1
    <2>0. Concurrency \in Nat \ {0} /\ from \in 0..(Concurrency - 1)
      BY <1>1
    <2>1. \A o \in Nat : (from + o) % Concurrency \in 0..(Concurrency - 1)
      BY <2>0, LoopReachesAll
    <2>2. w \in 0..(Concurrency - 1)
      BY <1>1, <2>1
    <2> HIDE DEF w
    <2> QED BY <1>1, <2>2
  <1>3. UNCHANGED <<config, guest, engineVars, worker, fate, outputOpen, taken, hand, sendersOpen, causes>>
    BY DEF SameWorkers
  <1>4. /\ WasmShapes' /\ Custody' /\ Batches' = Batches
        /\ \A v \in Workers : RunsItsModule(worker[v])'
        /\ Calm' => CalmWorkers'
    BY <1>1, <1>3, SameTasks DEF Calm
  <1>5. firstFull' = IF firstFull = -1 /\ ~ClosedChannel(w) THEN w ELSE firstFull
    OBVIOUS
  <1> HIDE DEF w
  <1>6. DispatchShapes'
    <2>1. offset' \in 0..Concurrency
      BY <1>1
    <2> QED BY <1>1, <1>2, <1>3, <1>4, <1>5, <2>1 DEF DispatchShapes
  <1>7. Control'
    BY <1>1, <1>3 DEF Control, Acceptable, Holding, Dispatching
  <1>8. ASSUME Calm' PROVE CalmDispatch'
    <2>1. CalmDispatch
      BY <1>3, <1>8 DEF WasmInv, Calm
    <2>2. firstFull' # -1 => worker[firstFull'].state # "ended"
      BY <1>5, <2>1 DEF CalmDispatch, ClosedChannel
    <2>3. ASSUME phase = "scan", firstFull' = -1, NEW o \in 0..(offset' - 1)
          PROVE  worker[(from + o) % Concurrency].state = "ended"
      <3>1. firstFull = -1 /\ ClosedChannel(w)
        BY <1>2, <1>5, <2>3
      <3>2. o \in 0..(offset - 1) \/ o = offset
        BY <1>1, <2>3
      <3> QED BY <2>1, <2>3, <3>1, <3>2 DEF CalmDispatch, ClosedChannel, w
    <2> QED BY <1>3, <2>1, <2>2, <2>3 DEF CalmDispatch
  <1> QED BY <1>4, <1>6, <1>7, <1>8 DEF WasmInv

(* dispatch_batch gives the batch up: only when every worker is closed, which does  *)
(* not happen while nothing interferes with them.                                   *)
LEMMA GiveUpStep ==
    ASSUME WasmInv, phase \in Holding, ~Calm, GiveUp, fate' = [fate EXCEPT ![hand] = "lost"],
           UNCHANGED <<taken, nextWorker, offset, from, firstFull, config, guest, engineVars, worker,
                       causes, outputOpen>>
    PROVE  WasmInv'
  <1>1. /\ DispatchShapes /\ Control /\ Custody /\ WasmShapes
        /\ \A v \in Workers : RunsItsModule(worker[v])
    BY DEF WasmInv
  <1>2. /\ phase' = "drain" /\ hand' = None /\ taken' = taken /\ offset' = offset /\ from' = from
        /\ firstFull' = firstFull /\ result' = "Err" /\ nextWorker' = nextWorker
        /\ config' = config /\ guest' = guest /\ file' = file /\ published' = published
        /\ reload' = reload /\ outputOpen' = outputOpen
        /\ sendersOpen' = FALSE /\ causes' = causes /\ worker' = worker
    BY DEF GiveUp, DropSenders, engineVars
  <1>3. hand \in Batches /\ hand # None /\ fate \in [Batches -> Fates] /\ "lost" \in Fates
    BY <1>1 DEF Control, DispatchShapes, WasmShapes, Fates
  <1>4. /\ fate' \in [Batches -> Fates] /\ fate'[hand] = "lost"
        /\ \A b \in Batches : b # hand => fate'[b] = fate[b]
    BY <1>3
  <1>5. Batches' = Batches /\ Tasks' = Tasks
    BY <1>2 DEF Batches, Tasks
  <1>6. WasmShapes'
    BY <1>1, <1>2, <1>4, <1>5 DEF WasmShapes
  <1>7. DispatchShapes'
    BY <1>1, <1>2, <1>5 DEF DispatchShapes, Phases
  <1>8. \A v \in Workers : RunsItsModule(worker[v])'
    BY <1>1, <1>2 DEF RunsItsModule
  <1>9. Custody'
    <2>1. \A v \in Workers : HoldsOnce(worker[v])' = HoldsOnce(worker[v])
      BY <1>2 DEF HoldsOnce
    <2>2. \A v \in Workers : Kept(worker[v])' = Kept(worker[v])
      BY <1>2 DEF Kept
    <2>3. \A v \in Workers : Kept(worker[v]) \subseteq Batches /\ None \notin Kept(worker[v])
      <3>1. SUFFICES ASSUME NEW v \in Workers
                     PROVE  Kept(worker[v]) \subseteq Batches /\ None \notin Kept(worker[v])
        OBVIOUS
      <3>2. /\ worker[v].queue \in Seq(Batches) /\ worker[v].batch \in Batches \union {None}
            /\ None \notin Batches
        BY TaskFacts
      <3> QED BY <3>2 DEF Kept
    <2>4. \A v \in Workers : \A b \in Kept(worker[v]) : fate'[b] = "none" /\ b # None /\ b <= taken
      BY <1>1, <1>4, <2>3 DEF Custody
    <2>5. \A b \in Batches : fate'[b] # "none" => b <= taken
      BY <1>1, <1>3, <1>4 DEF Custody
    <2>6. \A b \in 1..taken : fate'[b] # "none" \/ \E v \in Workers : b \in Kept(worker[v])
      <3>1. 1..taken \subseteq Batches
        <4>1. Len(guest) \in Nat /\ Batches = 1..Len(guest) /\ taken \in 0..Len(guest)
          BY DispatchFacts
        <4> QED BY <4>1
      <3> QED BY <1>1, <1>4, <3>1 DEF Custody
    <2> QED BY <1>1, <1>2, <1>5, <2>1, <2>2, <2>4, <2>5, <2>6 DEF Custody
  <1>10. Control'
    BY <1>1, <1>2 DEF Control, Acceptable, Holding, Dispatching
  <1>11. ~Calm'
    BY <1>2 DEF Calm
  <1> QED BY <1>6, <1>7, <1>8, <1>9, <1>10, <1>11 DEF WasmInv

(* The loop over the workers ends without one that took the batch. *)
LEMMA ScanEndsStep ==
    ASSUME WasmInv, ScanEnds
    PROVE  WasmInv'
  <1>1. /\ DispatchShapes /\ Control /\ sendersOpen \in BOOLEAN
        /\ Concurrency \in Nat /\ Concurrency > 0 /\ Workers = 0..(Concurrency - 1)
        /\ offset \in Nat /\ from \in 0..(Concurrency - 1)
    BY DispatchFacts
  <1>2. phase \in {"scan", "rescan"} /\ offset = Concurrency /\ phase \in Holding
    BY DEF ScanEnds, Holding
  <1>3. CASE firstFull # -1
    <2>1. /\ phase' = IF phase = "scan" THEN "send" ELSE "resend"
          /\ UNCHANGED <<config, guest, engineVars, worker, fate, outputOpen, taken, hand, sendersOpen,
                         causes, result, nextWorker, offset, from, firstFull>>
      BY <1>3 DEF ScanEnds
    <2>2. /\ WasmShapes' /\ Custody' /\ Batches' = Batches
          /\ \A v \in Workers : RunsItsModule(worker[v])'
          /\ Calm' => CalmWorkers'
      BY <1>1, <2>1, SameTasks DEF Calm
    <2>3. DispatchShapes'
      BY <1>1, <2>1, <2>2 DEF DispatchShapes, Phases
    <2>4. Control'
      BY <1>1, <1>2, <1>3, <2>1 DEF Control, Acceptable, Holding, Dispatching
    <2>5. Calm' => CalmDispatch'
      <3>1. Calm' => CalmDispatch
        BY <2>1 DEF WasmInv, Calm
      <3> QED BY <1>2, <2>1, <3>1 DEF CalmDispatch, Dispatching, Holding
    <2> QED BY <2>2, <2>3, <2>4, <2>5 DEF WasmInv
  <1>4. CASE firstFull = -1
    <2>1. /\ GiveUp /\ fate' = [fate EXCEPT ![hand] = "lost"]
          /\ UNCHANGED <<taken, nextWorker, offset, from, firstFull, config, guest, engineVars, worker,
                         causes, outputOpen>>
      BY <1>4 DEF ScanEnds
    <2>2. ~Calm
      <3>1. SUFFICES ASSUME Calm PROVE FALSE
        OBVIOUS
      <3>2. CalmWorkers /\ CalmDispatch
        BY <3>1 DEF WasmInv
      <3>3. \A o \in 0..(Concurrency - 1) : worker[(from + o) % Concurrency].state = "ended"
        BY <1>2, <1>4, <3>2 DEF CalmDispatch
      <3>4. \A v \in 0..(Concurrency - 1) : \E o \in 0..(Concurrency - 1) : (from + o) % Concurrency = v
        <4>1. Concurrency \in Nat \ {0} /\ from \in 0..(Concurrency - 1)
          BY <1>1
        <4> QED BY <4>1, LoopReachesAll
      <3>5. PICK v \in Workers : worker[v].alive
        BY <1>2, <3>2 DEF CalmDispatch, Dispatching
      <3>6. worker[v].state = "ended"
        BY <1>1, <3>3, <3>4
      <3>7. ~sendersOpen
        BY <3>2, <3>5, <3>6 DEF CalmWorkers, CalmTask
      <3>8. sendersOpen
        BY <1>1, <1>2 DEF Control, Dispatching
      <3> QED BY <3>7, <3>8
    <2> QED BY <1>2, <2>1, <2>2, GiveUpStep
  <1> QED BY <1>3, <1>4

(* send().await on the first full worker ends. *)
LEMMA AwaitRoomStep ==
    ASSUME WasmInv, AwaitRoom
    PROVE  WasmInv'
  <1>1. /\ DispatchShapes /\ Control /\ sendersOpen \in BOOLEAN
        /\ Concurrency \in Nat /\ Concurrency > 0
    BY DispatchFacts
  <1>2. /\ phase \in {"send", "resend"} /\ phase \in Holding /\ firstFull \in Workers
        /\ UNCHANGED <<config, guest, engineVars, causes, outputOpen>>
    BY <1>1 DEF AwaitRoom, Holding, Control, DispatchShapes
  <1>3. Calm => ~ClosedChannel(firstFull)
    BY <1>1, <1>2 DEF WasmInv, CalmDispatch, Control, ClosedChannel
  <1>4. CASE /\ ~ClosedChannel(firstFull) /\ ~FullChannel(firstFull)
             /\ Send(firstFull) /\ UNCHANGED <<sendersOpen, fate>>
    BY <1>2, <1>4, SendStep
  <1>5. CASE /\ ClosedChannel(firstFull) /\ phase = "send"
             /\ phase' = "rescan" /\ from' = firstFull /\ offset' = 1 /\ firstFull' = -1
             /\ UNCHANGED <<taken, hand, nextWorker, result, worker, sendersOpen, fate>>
    <2>1. UNCHANGED <<config, guest, engineVars, worker, fate, outputOpen, taken, hand, sendersOpen>>
          /\ causes' = causes /\ ~Calm /\ ~Calm'
      BY <1>2, <1>3, <1>5 DEF Calm
    <2>2. /\ WasmShapes' /\ Custody' /\ Batches' = Batches
          /\ \A v \in Workers : RunsItsModule(worker[v])'
      BY <1>1, <2>1, SameTasks
    <2>3. DispatchShapes'
      <3>1. offset' \in 0..Concurrency
        BY <1>1, <1>5
      <3> QED BY <1>1, <1>2, <1>5, <2>1, <2>2, <3>1 DEF DispatchShapes, Phases
    <2>4. Control'
      BY <1>1, <1>5, <2>1 DEF Control, Acceptable, Holding, Dispatching
    <2> QED BY <2>1, <2>2, <2>3, <2>4 DEF WasmInv
  <1>6. CASE /\ ClosedChannel(firstFull) /\ phase = "resend"
             /\ GiveUp
             /\ fate' = [fate EXCEPT ![hand] = "lost"]
             /\ UNCHANGED <<taken, nextWorker, offset, from, firstFull, worker>>
    BY <1>2, <1>3, <1>6, GiveUpStep
  <1> QED BY <1>4, <1>5, <1>6 DEF AwaitRoom

(* The input has ended: the workers' senders are dropped. *)
LEMMA InputEndsStep ==
    ASSUME WasmInv, InputEnds
    PROVE  WasmInv'
  <1>1. DispatchShapes /\ Control
    BY DispatchFacts
  <1>2. /\ phase = "recv" /\ taken = Len(guest) /\ phase' = "drain" /\ sendersOpen' = FALSE
        /\ UNCHANGED <<config, guest, engineVars, worker, fate, outputOpen, taken, hand>>
        /\ causes' = causes
        /\ UNCHANGED <<nextWorker, offset, from, firstFull, result>>
    BY DEF InputEnds, DropSenders, workerVars
  <1>3. /\ WasmShapes' /\ Custody' /\ Batches' = Batches
        /\ \A v \in Workers : RunsItsModule(worker[v])'
        /\ Calm' => CalmWorkers'
    BY <1>2, SameTasks DEF Calm
  <1>4. DispatchShapes'
    BY <1>1, <1>2, <1>3 DEF DispatchShapes, Phases
  <1>5. Control'
    BY <1>1, <1>2 DEF Control, Acceptable, Holding, Dispatching
  <1>6. CalmDispatch'
    BY <1>2 DEF CalmDispatch, Dispatching, Holding
  <1> QED BY <1>3, <1>4, <1>5, <1>6 DEF WasmInv

(* drain_workers joins every task, or its timeout aborts those that are left. *)
LEMMA DrainStep ==
    ASSUME WasmInv, Drain
    PROVE  WasmInv'
  <1>1. /\ DispatchShapes /\ Control /\ Custody /\ WasmShapes /\ sendersOpen \in BOOLEAN
        /\ \A v \in Workers : RunsItsModule(worker[v])
    BY DispatchFacts DEF WasmInv
  <1>2. /\ phase = "drain" /\ phase' = "returned"
        /\ UNCHANGED <<taken, hand, nextWorker, offset, from, firstFull, result, config, guest,
                       engineVars, sendersOpen, outputOpen>>
    BY DEF Drain, DrainWorkers, DrainTimeout
  <1>3. Batches' = Batches /\ Tasks' = Tasks
    BY <1>2 DEF Batches, Tasks
  <1>4. DispatchShapes'
    BY <1>1, <1>2, <1>3 DEF DispatchShapes, Phases
  <1>5. Control'
    BY <1>1, <1>2 DEF Control, Acceptable, Holding, Dispatching
  <1>6. CASE DrainWorkers
    <2>1. UNCHANGED <<worker, fate, causes>> /\ \A w \in Workers : worker[w].state = "ended"
      BY <1>6 DEF DrainWorkers, workerVars
    <2>2. UNCHANGED <<config, guest, engineVars, worker, fate, outputOpen, taken, hand>>
      BY <1>2, <2>1
    <2>3. /\ WasmShapes' /\ Custody'
          /\ \A v \in Workers : RunsItsModule(worker[v])'
          /\ Calm' => CalmWorkers'
      BY <1>1, <1>2, <2>1, <2>2, SameTasks DEF Calm
    <2>4. CalmDispatch'
      BY <1>2, <2>1 DEF CalmDispatch, Dispatching, Holding
    <2> QED BY <1>4, <1>5, <2>3, <2>4 DEF WasmInv
  <1>7. CASE DrainTimeout
    <2> DEFINE ws == {w \in Workers : worker[w].state # "ended"}
               S == UNION {Kept(worker[w]) : w \in ws}
    <2>1. EndTasks(ws) /\ Fault("timeout")
      BY <1>7 DEF DrainTimeout
    <2>2. ~Calm'
      BY <2>1, FaultsStay DEF Calm
    <2>3. UNION {Abandoned(w) : w \in ws} = S
      BY DEF Abandoned, Kept
    <2>4. worker \in [Workers -> Tasks] /\ fate \in [Batches -> Fates]
      BY <1>1 DEF WasmShapes
    <2>5. /\ \A b \in Batches : fate'[b] = IF b \in S THEN "lost" ELSE fate[b]
          /\ fate' \in [Batches -> Fates]
      <3>1. fate' = [b \in Batches |-> IF b \in S THEN "lost" ELSE fate[b]]
        BY <2>1, <2>3 DEF EndTasks
      <3> HIDE DEF S
      <3> QED BY <2>4, <3>1 DEF Fates
    <2>6. ASSUME NEW w \in ws
          PROVE  /\ worker'[w] \in Tasks /\ Kept(worker'[w]) = {} /\ HoldsOnce(worker'[w])
                 /\ RunsItsModule(worker'[w])
      <3> DEFINE old == worker[w]
                 r == [old EXCEPT !.state = "ended", !.queue = << >>, !.batch = None, !.alive = FALSE]
      <3>1. worker'[w] = r
        BY <2>1 DEF EndTasks
      <3>2. << >> \in Seq(Batches) /\ old \in Tasks /\ RunsItsModule(old)
        BY <1>1, <2>4
      <3>3. /\ r \in Tasks /\ r.queue = << >> /\ r.batch = None /\ r.state = "ended"
            /\ r.target = old.target /\ r.seen = old.seen
            /\ r.local = old.local /\ r.module = old.module /\ r.stale = old.stale
        BY <3>2 DEF Tasks, WorkerStates
      <3> HIDE DEF r
      <3>4. RunsItsModule(r)
        BY <3>2, <3>3 DEF RunsItsModule
      <3>5. HoldsOnce(r) /\ Kept(r) = {}
        <4>1. Len(r.queue) = 0 /\ ChannelCapacity \in Nat
          BY <3>3, WasmAssumption
        <4> QED BY <3>3, <4>1 DEF HoldsOnce, Kept
      <3> QED BY <3>1, <3>3, <3>4, <3>5
    <2>7. \A w \in Workers \ ws : worker'[w] = worker[w]
      BY <2>1 DEF EndTasks
    <2>8. worker' \in [Workers -> Tasks]
      <3>1. worker' = [w \in Workers |-> worker'[w]]
        BY <2>1 DEF EndTasks
      <3>2. \A w \in Workers : worker'[w] \in Tasks
        BY <2>4, <2>6, <2>7
      <3> QED BY <3>1, <3>2
    <2>9. WasmShapes'
      BY <1>1, <1>2, <1>3, <2>5, <2>8 DEF WasmShapes, engineVars
    <2>10. \A w \in Workers : RunsItsModule(worker[w])'
      <3>1. \A w \in Workers : RunsItsModule(worker'[w])
        BY <1>1, <2>6, <2>7
      <3> QED BY <1>2, <3>1 DEF RunsItsModule, engineVars
    <2>11. Custody'
      <3> HIDE DEF ws
      <3>1. ws \subseteq Workers
        BY DEF ws
      <3>2. \A w \in Workers : HoldsOnce(worker'[w])
        BY <1>1, <2>6, <2>7 DEF Custody
      <3>3. \A w \in Workers : \A b \in Kept(worker'[w]) :
              w \notin ws /\ b \in Kept(worker[w])
        BY <2>6, <2>7
      <3>4. \A w \in Workers : Kept(worker[w]) \subseteq Batches
        <4>1. SUFFICES ASSUME NEW w \in Workers PROVE Kept(worker[w]) \subseteq Batches
          OBVIOUS
        <4>2. worker[w].queue \in Seq(Batches) /\ worker[w].batch \in Batches \union {None}
          BY TaskFacts
        <4> QED BY <4>2 DEF Kept
      <3>5. \A v, w \in Workers : v # w => Kept(worker'[v]) \intersect Kept(worker'[w]) = {}
        BY <1>1, <3>3 DEF Custody
      <3>6. ASSUME NEW w \in Workers, NEW b \in Kept(worker'[w])
            PROVE  fate'[b] = "none" /\ b # hand /\ b <= taken
        <4>1. w \notin ws /\ b \in Kept(worker[w]) /\ b \in Batches
          BY <3>3, <3>4
        <4>2. b \notin S
          BY <1>1, <3>1, <4>1 DEF Custody
        <4> HIDE DEF S
        <4> QED BY <1>1, <2>5, <4>1, <4>2 DEF Custody
      <3>7. hand = None
        BY <1>1, <1>2 DEF Control, Holding
      <3>8. \A b \in Batches : fate'[b] # "none" => b <= taken
        <4>1. \A b \in S : b <= taken
          BY <1>1, <3>1 DEF Custody
        <4> HIDE DEF S
        <4> QED BY <1>1, <2>5, <4>1 DEF Custody
      <3>9. ASSUME NEW b \in 1..taken
            PROVE  fate'[b] # "none" \/ \E w \in Workers : b \in Kept(worker'[w])
        <4>1. b \in Batches /\ b # None
          <5>1. /\ Len(guest) \in Nat /\ Batches = 1..Len(guest) /\ taken \in 0..Len(guest)
                /\ None \notin Batches
            BY DispatchFacts
          <5> QED BY <5>1
        <4>2. fate[b] # "none" \/ \E w \in Workers : b \in Kept(worker[w])
          BY <1>1, <3>7, <4>1 DEF Custody
        <4>3. CASE b \in S \/ fate[b] # "none"
          <5> HIDE DEF S
          <5> QED BY <2>5, <4>1, <4>3
        <4>4. CASE b \notin S /\ fate[b] = "none"
          <5>1. PICK w \in Workers : b \in Kept(worker[w])
            BY <4>2, <4>4
          <5>2. w \notin ws
            BY <4>4, <5>1
          <5> QED BY <2>7, <5>1, <5>2
        <4> QED BY <4>3, <4>4
      <3>10. \A v \in Workers : HoldsOnce(worker[v])'
        BY <3>2 DEF HoldsOnce
      <3>11. \A v \in Workers : Kept(worker[v])' = Kept(worker'[v])
        BY DEF Kept
      <3> HIDE DEF HoldsOnce, Kept
      <3> QED BY <1>2, <1>3, <3>5, <3>6, <3>7, <3>8, <3>9, <3>10, <3>11 DEF Custody
    <2> QED BY <1>4, <1>5, <2>2, <2>9, <2>10, <2>11 DEF WasmInv
  <1> QED BY <1>6, <1>7 DEF Drain

(* The sink's buffer closes, or nothing changes. *)
LEMMA OutsideSteps ==
    ASSUME WasmInv, (CloseOutput /\ UNCHANGED dispatchVars) \/ UNCHANGED vars
    PROVE  WasmInv'
  <1>1. /\ DispatchShapes /\ Control /\ WasmShapes /\ Custody
        /\ \A v \in Workers : RunsItsModule(worker[v])
        /\ Calm => CalmWorkers /\ CalmDispatch
    BY DEF WasmInv
  <1>2. /\ config' = config /\ guest' = guest /\ file' = file /\ published' = published
        /\ reload' = reload /\ worker' = worker /\ fate' = fate
        /\ sendersOpen' = sendersOpen /\ outputOpen' \in {outputOpen, FALSE}
        /\ phase' = phase /\ taken' = taken /\ hand' = hand /\ nextWorker' = nextWorker
        /\ offset' = offset /\ from' = from /\ firstFull' = firstFull /\ result' = result
        /\ Calm' => Calm /\ outputOpen' = outputOpen
    <2>1. CASE CloseOutput /\ UNCHANGED dispatchVars
      <3>1. ~Calm'
        BY <2>1, FaultsStay DEF CloseOutput, Calm
      <3> QED BY <2>1, <3>1 DEF CloseOutput, dispatchVars, engineVars
    <2>2. CASE UNCHANGED vars
      BY <2>2 DEF vars, wasmVars, dispatchVars, engineVars, workerVars, Calm
    <2> QED BY <2>1, <2>2
  <1>3. Batches' = Batches /\ Tasks' = Tasks
    BY <1>2 DEF Batches, Tasks
  <1>4. WasmShapes' /\ DispatchShapes'
    BY <1>1, <1>2, <1>3 DEF WasmShapes, DispatchShapes
  <1>5. Custody'
    <2>1. \A w \in Workers : HoldsOnce(worker[w])' = HoldsOnce(worker[w])
      BY <1>2 DEF HoldsOnce
    <2>2. \A w \in Workers : Kept(worker[w])' = Kept(worker[w])
      BY <1>2 DEF Kept
    <2> QED BY <1>1, <1>2, <1>3, <2>1, <2>2 DEF Custody
  <1>6. \A w \in Workers : RunsItsModule(worker[w])'
    BY <1>1, <1>2 DEF RunsItsModule
  <1>7. Control'
    BY <1>1, <1>2 DEF Control, Acceptable
  <1>8. ASSUME Calm' PROVE CalmWorkers' /\ CalmDispatch'
    <2>1. CalmWorkers /\ CalmDispatch /\ outputOpen' = outputOpen
      BY <1>1, <1>2, <1>8
    <2>2. \A w \in Workers : CalmTask(worker[w]) => CalmTask(worker[w])'
      BY <1>2 DEF CalmTask
    <2>3. \A b \in Batches : Due(b)' = Due(b)
      BY <1>2 DEF Due
    <2>4. CalmWorkers'
      BY <1>2, <1>3, <2>1, <2>2, <2>3 DEF CalmWorkers
    <2>5. CalmDispatch'
      BY <1>2, <2>1 DEF CalmDispatch
    <2> QED BY <2>4, <2>5
  <1> QED BY <1>4, <1>5, <1>6, <1>7, <1>8 DEF WasmInv

(* Every step of the dispatcher, of a worker, of a reload and of the environment. *)
LEMMA WasmStep ==
    ASSUME WasmInv, [Next]_vars
    PROVE  WasmInv'
  <1>1. CASE DispatcherStep
    <2>1. CASE TrySend
      <3> DEFINE w == (from + offset) % Concurrency
      <3>1. /\ phase \in {"scan", "rescan"} /\ offset < Concurrency /\ SameWorkers
            /\ \/ ~ClosedChannel(w) /\ ~FullChannel(w) /\ Send(w)
               \/ /\ ClosedChannel(w) \/ FullChannel(w)
                  /\ offset' = offset + 1
                  /\ firstFull' = IF firstFull = -1 /\ ~ClosedChannel(w) THEN w ELSE firstFull
                  /\ UNCHANGED <<phase, taken, hand, nextWorker, from, result, worker>>
        BY <2>1 DEF TrySend
      <3>2. CASE ~ClosedChannel(w) /\ ~FullChannel(w) /\ Send(w)
        <4>1. Concurrency \in Nat \ {0} /\ from \in 0..(Concurrency - 1) /\ offset \in Nat
          BY DispatchFacts
        <4>2. \A o \in Nat : (from + o) % Concurrency \in 0..(Concurrency - 1)
          BY <4>1, LoopReachesAll
        <4>3. w \in Workers /\ phase \in Holding
          BY <3>1, <4>1, <4>2 DEF Workers, Holding
        <4> HIDE DEF w
        <4> QED BY <3>1, <3>2, <4>3, SendStep DEF SameWorkers
      <3>3. CASE /\ ClosedChannel(w) \/ FullChannel(w)
                 /\ offset' = offset + 1
                 /\ firstFull' = IF firstFull = -1 /\ ~ClosedChannel(w) THEN w ELSE firstFull
                 /\ UNCHANGED <<phase, taken, hand, nextWorker, from, result, worker>>
        BY <3>1, <3>3, NextOffsetStep
      <3> QED BY <3>1, <3>2, <3>3
    <2> QED BY <1>1, <2>1, StartSteps, TakeInputStep, ScanEndsStep, AwaitRoomStep, InputEndsStep,
               DrainStep DEF DispatcherStep
  <1>2. CASE /\ WorkersRun
             /\ \/ \E w \in Workers : WorkerStep(w) \/ Panic(w)
                \/ EngineStep
                \/ CloseOutput
             /\ UNCHANGED dispatchVars
    <2>1. ASSUME NEW w \in Workers, WorkerStep(w) \/ Panic(w) PROVE WasmInv'
      BY <1>2, <2>1, NewWorkerStep, ReceiveStep, ReadSnapshotStep, TryCandidateStep, MovingSteps,
         RouteStep, DrainOneStep, TaskEnds DEF WorkerStep
    <2>2. CASE EngineStep
      BY <1>2, <2>2, EngineSteps
    <2>3. CASE CloseOutput
      BY <1>2, <2>3, OutsideSteps
    <2> QED BY <1>2, <2>1, <2>2, <2>3
  <1>3. CASE UNCHANGED vars
    BY <1>3, OutsideSteps
  <1> QED BY <1>1, <1>2, <1>3 DEF Next

(* Before run starts there is nothing to hold. *)
LEMMA WasmInitially ==
    ASSUME Init
    PROVE  WasmInv
  <1> DEFINE fresh == [state |-> "starting", queue |-> << >>, batch |-> None, seen |-> 1,
                       module |-> -1, local |-> 0, target |-> NoModule, stale |-> FALSE,
                       processed |-> 0, alive |-> TRUE]
  <1>1. PICK s \in Scenarios : /\ config = s.config /\ guest = s.guest
                               /\ reload = [r \in Reloaders |-> IF r \in s.reloaders THEN -1 ELSE -2]
    BY DEF Init, WorkerInit
  <1>2. config \in Policies /\ guest \in Seq(GuestAnswers) /\ Len(guest) \in Nat
    BY <1>1, WasmAssumption
  <1>3. /\ file = 0 /\ published = <<0>> /\ worker = [w \in Workers |-> fresh]
        /\ sendersOpen = TRUE /\ outputOpen = TRUE /\ fate = [b \in Batches |-> "none"] /\ causes = {}
        /\ phase = "validate" /\ taken = 0 /\ hand = None
        /\ nextWorker = 0 /\ offset = 0 /\ from = 0 /\ firstFull = -1 /\ result = "Ok"
    BY DEF Init, WorkerInit, DispatcherInit
  <1>4. Concurrency \in Nat \ {0} /\ ChannelCapacity \in Nat /\ 0 \in Workers
    BY WasmAssumption DEF Workers
  <1>5. fresh \in Tasks
    <2>1. << >> \in Seq(Batches) /\ NoModule \in [module : Int, generation : Nat]
      BY DEF NoModule
    <2> QED BY <2>1 DEF Tasks, WorkerStates
  <1>6. /\ fresh.state = "starting" /\ fresh.queue = << >> /\ fresh.batch = None /\ fresh.seen = 1
        /\ fresh.local = 0 /\ fresh.target = NoModule /\ fresh.alive = TRUE
    OBVIOUS
  <1> HIDE DEF fresh
  <1>7. \A w \in Workers : worker[w] = fresh
    BY <1>3
  <1>8. published \in Seq(Nat) /\ Len(published) = 1
    BY <1>3
  <1>9. WasmShapes
    <2>1. reload \in [Reloaders -> Int]
      BY <1>1
    <2>2. worker \in [Workers -> Tasks] /\ fate \in [Batches -> Fates]
      BY <1>3, <1>5 DEF Fates
    <2> QED BY <1>2, <1>3, <1>8, <2>1, <2>2 DEF WasmShapes
  <1>10. DispatchShapes
    BY <1>2, <1>3, <1>4 DEF DispatchShapes, Phases
  <1>11. \A w \in Workers : RunsItsModule(worker[w])
    <2>1. RunsItsModule(fresh)
      BY <1>6, <1>8 DEF RunsItsModule
    <2> QED BY <1>7, <2>1
  <1>12. Custody
    <2>1. HoldsOnce(fresh) /\ Kept(fresh) = {}
      <3>1. Len(fresh.queue) = 0
        BY <1>6
      <3> QED BY <1>4, <1>6, <3>1 DEF HoldsOnce, Kept
    <2>2. \A w \in Workers : HoldsOnce(worker[w]) /\ Kept(worker[w]) = {}
      BY <1>7, <2>1
    <2>3. \A b \in Batches : fate[b] = "none"
      BY <1>3
    <2> QED BY <1>3, <2>2, <2>3 DEF Custody
  <1>13. Control
    BY <1>3 DEF Control, Holding, Dispatching
  <1>14. CalmWorkers
    <2>1. CalmTask(fresh)
      BY <1>6 DEF CalmTask
    <2>2. \A b \in Batches : fate[b] = "none"
      BY <1>3
    <2> QED BY <1>3, <1>7, <2>1, <2>2 DEF CalmWorkers
  <1>15. CalmDispatch
    BY <1>3 DEF CalmDispatch, Holding, Dispatching
  <1> QED BY <1>9, <1>10, <1>11, <1>12, <1>13, <1>14, <1>15 DEF WasmInv

(* The invariant of the transformer: for any number of workers, batches, reloads    *)
(* and faults.                                                                      *)
THEOREM WasmInvariant == Spec => []WasmInv
  <1>1. Init => WasmInv
    BY WasmInitially
  <1>2. WasmInv /\ [Next]_vars => WasmInv'
    BY WasmStep
  <1> QED BY <1>1, <1>2, PTL DEF Spec

(* A worker runs the module its generation number stands for, and never one older   *)
(* than what was published when it took its batch: check_hot_reload.                *)
THEOREM ModulesAreCurrent == Spec => []RunsPublishedModule
  <1>1. WasmInv => RunsPublishedModule
    BY DEF WasmInv, RunsItsModule, RunsPublishedModule
  <1> QED BY <1>1, WasmInvariant, PTL

(* A batch in custody is in one place, counted as OutcomesAreHonoured counts. *)
LEMMA OnePlace ==
    ASSUME WasmInv, NEW b \in 1..taken
    PROVE  Places(b) = 1
  <1> DEFINE queued == {p \in Workers \X (1..ChannelCapacity) :
                          p[2] <= Len(worker[p[1]].queue) /\ worker[p[1]].queue[p[2]] = b}
             running == {w \in Workers : worker[w].batch = b}
             held == IF hand = b THEN 1 ELSE 0
             settled == IF fate[b] # "none" THEN 1 ELSE 0
  <1>1. Custody /\ DispatchShapes
    BY DEF WasmInv
  <1>2. b \in Batches /\ b # None /\ ChannelCapacity \in Nat
    <2>1. /\ Len(guest) \in Nat /\ Batches = 1..Len(guest) /\ taken \in 0..Len(guest)
          /\ None \notin Batches
      BY DispatchFacts
    <2> QED BY <2>1, WasmAssumption
  <1>3. Cardinality({}) = 0 /\ \A x : Cardinality({x}) = 1
    BY FS_EmptySet, FS_Singleton
  <1>4. ASSUME NEW w \in Workers
        PROVE  b \in Kept(worker[w]) <=> w \in running \/ \E i \in 1..ChannelCapacity : <<w, i>> \in queued
    <2>1. /\ Len(worker[w].queue) \in Nat /\ Len(worker[w].queue) <= ChannelCapacity
      BY <1>1, TaskFacts DEF Custody, HoldsOnce
    <2>2. \A i \in 1..ChannelCapacity : <<w, i>> \in queued
             <=> i \in 1..Len(worker[w].queue) /\ worker[w].queue[i] = b
      BY <2>1
    <2>3. \A i \in 1..Len(worker[w].queue) : i \in 1..ChannelCapacity
      BY <1>2, <2>1
    <2> HIDE DEF queued
    <2> QED BY <1>2, <2>2, <2>3 DEF Kept
  <1>5. \A p \in queued : /\ p[1] \in Workers /\ p[2] \in 1..ChannelCapacity /\ p = <<p[1], p[2]>>
                          /\ b \in Kept(worker[p[1]]) /\ p[1] \notin running
                          /\ p[2] \in 1..Len(worker[p[1]].queue) /\ worker[p[1]].queue[p[2]] = b
    <2>1. SUFFICES ASSUME NEW p \in queued
                   PROVE  /\ p[1] \in Workers /\ p[2] \in 1..ChannelCapacity /\ p = <<p[1], p[2]>>
                          /\ b \in Kept(worker[p[1]]) /\ p[1] \notin running
                          /\ p[2] \in 1..Len(worker[p[1]].queue) /\ worker[p[1]].queue[p[2]] = b
      OBVIOUS
    <2>2. /\ p[1] \in Workers /\ p[2] \in 1..ChannelCapacity /\ p = <<p[1], p[2]>>
          /\ p[2] <= Len(worker[p[1]].queue) /\ worker[p[1]].queue[p[2]] = b
      OBVIOUS
    <2>3. p[2] \in 1..Len(worker[p[1]].queue)
      <3>1. Len(worker[p[1]].queue) \in Nat
        BY <2>2, TaskFacts
      <3> QED BY <2>2, <3>1
    <2>4. HoldsOnce(worker[p[1]])
      BY <1>1, <2>2 DEF Custody
    <2>5. worker[p[1]].batch # b
      BY <2>2, <2>3, <2>4 DEF HoldsOnce
    <2>6. b \in Kept(worker[p[1]])
      BY <2>2, <2>3 DEF Kept
    <2> QED BY <2>2, <2>3, <2>5, <2>6
  <1> HIDE DEF queued
  <1>6. CASE \E w \in Workers : b \in Kept(worker[w])
    <2>1. PICK w \in Workers : b \in Kept(worker[w])
      BY <1>6
    <2>2. held = 0 /\ settled = 0
      BY <1>1, <2>1 DEF Custody
    <2>3. \A v \in Workers : b \in Kept(worker[v]) => v = w
      BY <1>1, <2>1 DEF Custody
    <2>4. CASE w \in running
      <3>1. running = {w}
        BY <1>4, <2>3, <2>4
      <3>2. queued = {}
        BY <1>5, <2>3, <2>4
      <3>3. Cardinality(running) = 1 /\ Cardinality(queued) = 0
        BY <1>3, <3>1, <3>2
      <3> HIDE DEF running, held, settled
      <3>4. Cardinality(queued) + Cardinality(running) + held + settled = 1
        BY <2>2, <3>3
      <3> QED BY <3>4 DEF Places, running, queued, held, settled
    <2>5. CASE w \notin running
      <3>1. running = {}
        BY <1>4, <2>3, <2>5
      <3>2. PICK i \in 1..ChannelCapacity : <<w, i>> \in queued
        BY <1>4, <2>1, <2>5
      <3>3. \A p \in queued : p = <<w, i>>
        <4>1. SUFFICES ASSUME NEW p \in queued PROVE p = <<w, i>>
          OBVIOUS
        <4>2. p[1] = w /\ p = <<p[1], p[2]>>
          BY <1>5, <2>3
        <4>3. /\ i \in 1..Len(worker[w].queue) /\ worker[w].queue[i] = b
              /\ p[2] \in 1..Len(worker[w].queue) /\ worker[w].queue[p[2]] = b
          BY <1>5, <3>2, <4>2
        <4>4. HoldsOnce(worker[w])
          BY <1>1 DEF Custody
        <4>5. p[2] = i
          BY <4>3, <4>4 DEF HoldsOnce
        <4> QED BY <4>2, <4>5
      <3>4. queued = {<<w, i>>}
        BY <3>2, <3>3
      <3>5. Cardinality(running) = 0 /\ Cardinality(queued) = 1
        BY <1>3, <3>1, <3>4
      <3> HIDE DEF running, held, settled
      <3>6. Cardinality(queued) + Cardinality(running) + held + settled = 1
        BY <2>2, <3>5
      <3> QED BY <3>6 DEF Places, running, queued, held, settled
    <2> QED BY <2>4, <2>5
  <1>7. CASE ~\E w \in Workers : b \in Kept(worker[w])
    <2>1. running = {} /\ queued = {}
      BY <1>4, <1>5, <1>7
    <2>2. Cardinality(running) = 0 /\ Cardinality(queued) = 0
      BY <1>3, <2>1
    <2>3. \/ hand = b /\ fate[b] = "none"
          \/ hand # b /\ fate[b] # "none"
      BY <1>1, <1>2, <1>7 DEF Custody
    <2>4. \/ held = 1 /\ settled = 0
          \/ held = 0 /\ settled = 1
      BY <2>3
    <2> HIDE DEF running, held, settled
    <2>5. Cardinality(queued) + Cardinality(running) + held + settled = 1
      BY <2>2, <2>4
    <2> QED BY <2>5 DEF Places, running, queued, held, settled
  <1> QED BY <1>6, <1>7

(* No batch is copied or forgotten between the input, the channels, the workers and *)
(* its destination, and while nothing interferes each ends where the guest and the  *)
(* policies send it: WasmDispatcher::run.                                           *)
THEOREM BatchesMeetTheirFate == Spec => []OutcomesAreHonoured
  <1>1. WasmInv => OutcomesAreHonoured
    <2>1. SUFFICES ASSUME WasmInv PROVE OutcomesAreHonoured
      OBVIOUS
    <2>2. \A b \in 1..taken : Places(b) = 1
      BY <2>1, OnePlace
    <2>3. ASSUME Calm
          PROVE  /\ \A b \in Batches : fate[b] \in {"none", Due(b)}
                 /\ phase = "returned" /\ result = "Ok" => \A b \in Batches : fate[b] # "none"
      <3>1. CalmWorkers /\ CalmDispatch /\ Custody /\ Control
        BY <2>1, <2>3 DEF WasmInv
      <3>2. ASSUME phase = "returned", result = "Ok", NEW b \in Batches PROVE fate[b] # "none"
        <4>1. b \in 1..taken /\ b # None
          <5>1. Batches = 1..Len(guest) /\ None \notin Batches
            BY <2>1, DispatchFacts
          <5> QED BY <3>1, <3>2, <5>1 DEF Control
        <4>2. hand = None
          BY <3>1, <3>2 DEF Control, Holding
        <4>3. ASSUME NEW w \in Workers PROVE b \notin Kept(worker[w])
          <5>1. worker[w].queue = << >> /\ worker[w].batch = None
            BY <3>1, <3>2 DEF CalmDispatch, CalmWorkers, CalmTask
          <5>2. Len(worker[w].queue) = 0
            BY <5>1
          <5> QED BY <5>1, <5>2 DEF Kept
        <4> QED BY <3>1, <4>1, <4>2, <4>3 DEF Custody
      <3> QED BY <3>1, <3>2 DEF CalmWorkers
    <2> QED BY <2>2, <2>3 DEF OutcomesAreHonoured, Calm
  <1> QED BY <1>1, WasmInvariant, PTL

-----------------------------------------------------------------------------
(* The metrics of the guests                                                *)

CounterValues == [type : {"counter"}, value : Nat]
GaugeValues == [type : {"gauge"}, value : Nat]
DurationValues ==
    [type : {"duration"}, count : Nat, sum : Nat, min : Nat, max : Nat, last : Nat]
MetricValues == CounterValues \union GaugeValues \union DurationValues

AllCalls == UNION {{g} \X (1..Len(program[g])) : g \in Guests}

HostShapes ==
    /\ program \in [Guests -> Seq(Calls)]
    /\ at \in [Guests -> Nat \ {0}]
    /\ step \in [Guests -> {"call", "register", "handle", "registerHandle"}]
    /\ metrics = [n \in DOMAIN metrics |-> metrics[n]]
    /\ \A n \in DOMAIN metrics : metrics[n] \in MetricValues
    /\ IsFiniteSet(DOMAIN metrics) /\ IsFiniteSet(DOMAIN handles)

(* A guest past the first step of a call is in a call that records. *)
InsideRecords ==
    \A g \in Guests : step[g] # "call" => InCall(g) /\ Recordable(Call(g))

(* A value has the type of an emission it has taken, and an emission is dropped only *)
(* when there is no room, of which there is never any again.                         *)
TypesAreTaken == \A n \in DOMAIN metrics : \E e \in Recorded(n) : CallOf(e).type = metrics[n].type
DroppedWhenFull ==
    \A e \in Passed : CallOf(e).name \in DOMAIN metrics \/ Cardinality(DOMAIN metrics) >= MaxEntries

HostInv == HostShapes /\ InsideRecords /\ TypesAreTaken /\ DroppedWhenFull /\ MetricsAreExact

(* There are finitely many calls, each with its arguments. *)
LEMMA CallsAreFinite ==
    ASSUME program \in [Guests -> Seq(Calls)]
    PROVE  /\ IsFiniteSet(AllCalls)
           /\ \A e \in AllCalls : /\ e[1] \in Guests /\ e[2] \in 1..Len(program[e[1]])
                                  /\ e = <<e[1], e[2]>> /\ CallOf(e) \in Calls
           /\ \A g \in Guests : \A i \in 1..Len(program[g]) : <<g, i>> \in AllCalls
  <1> DEFINE part(g) == {g} \X (1..Len(program[g]))
             T == {part(g) : g \in Guests}
             f == [g \in Guests |-> part(g)]
  <1>1. f \in Surjection(Guests, T)
    BY DEF Surjection
  <1>2. IsFiniteSet(T)
    <2> HIDE DEF f, T
    <2> QED BY <1>1, HostCallsAssumption, FS_Surjection
  <1>3. ASSUME NEW t \in T PROVE IsFiniteSet(t)
    <2>1. PICK g \in Guests : t = {g} \X (1..Len(program[g]))
      OBVIOUS
    <2>2. PICK n \in Nat : n = Len(program[g])
      OBVIOUS
    <2> QED BY <2>1, <2>2, UnitsOfOne
  <1>4. IsFiniteSet(AllCalls)
    <2> HIDE DEF T
    <2>1. IsFiniteSet(UNION T)
      BY <1>2, <1>3, FS_UNION
    <2> USE DEF T
    <2> QED BY <2>1 DEF AllCalls
  <1>5. ASSUME NEW e \in AllCalls
        PROVE  /\ e[1] \in Guests /\ e[2] \in 1..Len(program[e[1]])
               /\ e = <<e[1], e[2]>> /\ CallOf(e) \in Calls
    <2>1. PICK g \in Guests : e \in {g} \X (1..Len(program[g]))
      BY DEF AllCalls
    <2>2. PICK i \in 1..Len(program[g]) : e = <<g, i>>
      BY <2>1
    <2>3. program[g] \in Seq(Calls)
      OBVIOUS
    <2>4. program[g][i] \in Calls
      BY <2>2, <2>3
    <2> QED BY <2>2, <2>4 DEF CallOf
  <1>6. \A g \in Guests : \A i \in 1..Len(program[g]) : <<g, i>> \in AllCalls
    BY DEF AllCalls
  <1> QED BY <1>4, <1>5, <1>6

(* The least and the greatest of one number, and of a set with one more. *)
LEMMA ExtremesOfOne ==
    ASSUME NEW v \in Nat
    PROVE  Min({v}) = v /\ Max({v}) = v
  <1> DEFINE S == {v}
  <1>1. S \in SUBSET Nat /\ S \in SUBSET (0..v) /\ S # {} /\ \A x \in S : x = v
    OBVIOUS
  <1>2. Min(S) \in S
    <2> HIDE DEF S
    <2> QED BY <1>1, LeastOf
  <1>3. Max(S) \in S
    <2> HIDE DEF S
    <2> QED BY <1>1, GreatestOf
  <1> QED BY <1>1, <1>2, <1>3

LEMMA ExtremesGrow ==
    ASSUME NEW n \in Nat, NEW S \in SUBSET (0..n), S # {}, NEW v \in 0..n
    PROVE  /\ Min(S \union {v}) = Least(Min(S), v)
           /\ Max(S \union {v}) = Greatest(Max(S), v)
  <1> DEFINE T == S \union {v}
  <1>1. /\ S \in SUBSET Nat /\ T \in SUBSET Nat /\ T \in SUBSET (0..n) /\ T # {}
        /\ \A x \in T : x \in S \/ x = v
        /\ \A x \in S : x \in T
        /\ v \in T /\ v \in Nat
    OBVIOUS
  <1> HIDE DEF T
  <1>2. /\ Min(S) \in S /\ \A x \in S : Min(S) <= x
        /\ Min(T) \in T /\ \A x \in T : Min(T) <= x
    BY <1>1, LeastOf
  <1>3. /\ Max(S) \in S /\ \A x \in S : x <= Max(S)
        /\ Max(T) \in T /\ \A x \in T : x <= Max(T)
    BY <1>1, GreatestOf
  <1>4. PICK a \in Nat, b \in Nat, p \in Nat, q \in Nat :
          a = Min(S) /\ b = Min(T) /\ p = Max(S) /\ q = Max(T)
    BY <1>1, <1>2, <1>3
  <1>5. b <= a /\ b <= v /\ (a <= b \/ b = v)
    BY <1>1, <1>2, <1>4
  <1>6. p <= q /\ v <= q /\ (q <= p \/ q = v)
    BY <1>1, <1>3, <1>4
  <1>7. b = Least(a, v)
    BY <1>1, <1>5 DEF Least
  <1>8. q = Greatest(p, v)
    BY <1>1, <1>6 DEF Greatest
  <1> QED BY <1>4, <1>7, <1>8 DEF T

(* The record functions leave a value of the type of the emission. *)
LEMMA ValueTypes ==
    ASSUME NEW c \in Calls, c.type \in MetricTypes
    PROVE  /\ c.value \in Nat /\ c.value <= U64Max
           /\ NewValue(c) \in MetricValues /\ NewValue(c).type = c.type
           /\ \A old \in MetricValues :
                UpdatedValue(old, c) \in MetricValues /\ UpdatedValue(old, c).type = c.type
  <1>1. c.value \in Nat /\ c.value <= U64Max
    BY HostCallsAssumption DEF Calls
  <1>2. NewValue(c) \in MetricValues /\ NewValue(c).type = c.type
    <2>1. CASE c.type = "counter"
      <3>1. NewValue(c) = [type |-> "counter", value |-> c.value]
        BY <2>1 DEF NewValue
      <3> QED BY <1>1, <2>1, <3>1 DEF MetricValues, CounterValues
    <2>2. CASE c.type = "gauge"
      <3>1. NewValue(c) = [type |-> "gauge", value |-> c.value]
        BY <2>2 DEF NewValue
      <3> QED BY <1>1, <2>2, <3>1 DEF MetricValues, GaugeValues
    <2>3. CASE c.type = "duration"
      <3>1. NewValue(c) = [type |-> "duration", count |-> 1, sum |-> c.value,
                           min |-> c.value, max |-> c.value, last |-> c.value]
        BY <2>3 DEF NewValue
      <3> QED BY <1>1, <2>3, <3>1 DEF MetricValues, DurationValues
    <2> QED BY <2>1, <2>2, <2>3 DEF MetricTypes
  <1>3. ASSUME NEW old \in MetricValues
        PROVE  UpdatedValue(old, c) \in MetricValues /\ UpdatedValue(old, c).type = c.type
    <2>1. CASE c.type = "counter" /\ old.type = "counter"
      <3>1. old \in CounterValues
        BY <2>1 DEF MetricValues, CounterValues, GaugeValues, DurationValues
      <3>2. UpdatedValue(old, c) = [old EXCEPT !.value = Saturated(@ + c.value)]
        BY <2>1 DEF UpdatedValue
      <3>3. Saturated(old.value + c.value) \in Nat
        BY <1>1, <3>1, HostCallsAssumption DEF Saturated, CounterValues
      <3> QED BY <2>1, <3>1, <3>2, <3>3 DEF MetricValues, CounterValues
    <2>2. CASE c.type = "duration" /\ old.type = "duration"
      <3>1. old \in DurationValues
        BY <2>2 DEF MetricValues, CounterValues, GaugeValues, DurationValues
      <3>2. UpdatedValue(old, c) =
              [old EXCEPT !.count = Saturated(@ + 1), !.sum = Saturated(@ + c.value),
                          !.min = Least(@, c.value), !.max = Greatest(@, c.value), !.last = c.value]
        BY <2>2 DEF UpdatedValue
      <3>3. /\ Saturated(old.count + 1) \in Nat /\ Saturated(old.sum + c.value) \in Nat
            /\ Least(old.min, c.value) \in Nat /\ Greatest(old.max, c.value) \in Nat
        BY <1>1, <3>1, HostCallsAssumption DEF Saturated, Least, Greatest, DurationValues
      <3> QED BY <1>1, <2>2, <3>1, <3>2, <3>3 DEF MetricValues, DurationValues
    <2>3. CASE ~(c.type = "counter" /\ old.type = "counter") /\ ~(c.type = "duration" /\ old.type = "duration")
      <3>1. UpdatedValue(old, c) = NewValue(c)
        BY <2>3 DEF UpdatedValue
      <3> QED BY <1>2, <3>1
    <2> QED BY <2>1, <2>2, <2>3
  <1> QED BY <1>1, <1>2, <1>3

(* The first emission of a name is accounted for by the value it makes. *)
LEMMA AccountsFirst ==
    ASSUME NEW e, CallOf(e) \in Calls, CallOf(e).type \in MetricTypes
    PROVE  Accounts(NewValue(CallOf(e)), {e})
  <1> DEFINE c == CallOf(e)
             w == [x \in {e} |-> ValueOf(x)]
  <1>1. c.value \in Nat /\ c.value <= U64Max /\ U64Max \in Nat /\ U64Max > 0
    BY ValueTypes, HostCallsAssumption
  <1>2. SumOf(w) = c.value
    <2> DEFINE z == [x \in {} |-> 0]
    <2>1. IsFiniteWeight(z) /\ DOMAIN z = {} /\ SumOf(z) = 0
      BY FS_EmptySet, SumEmpty DEF IsFiniteWeight
    <2>2. w \in [DOMAIN z \union {e} -> Nat] /\ w[e] = c.value
      BY <1>1 DEF ValueOf
    <2> HIDE DEF w, z
    <2>3. SumOf(w) = SumOf(z) + w[e]
      BY <2>1, <2>2, SumAdd
    <2> QED BY <1>1, <2>1, <2>2, <2>3
  <1>3. Saturated(SumOf(w)) = c.value
    BY <1>1, <1>2 DEF Saturated
  <1>4. Saturated(Cardinality({e})) = 1
    <2>1. Cardinality({e}) = 1
      BY FS_Singleton
    <2> QED BY <1>1, <2>1 DEF Saturated
  <1>5. {ValueOf(x) : x \in {e}} = {c.value}
    BY DEF ValueOf
  <1>6. Min({c.value}) = c.value /\ Max({c.value}) = c.value
    BY <1>1, ExtremesOfOne
  <1>7. CASE c.type = "counter"
    <2>1. NewValue(c).type = "counter" /\ NewValue(c).value = c.value
      BY <1>7 DEF NewValue
    <2> QED BY <1>3, <2>1 DEF Accounts
  <1>8. CASE c.type = "gauge"
    <2>1. NewValue(c).type = "gauge" /\ NewValue(c).value = c.value
      BY <1>8 DEF NewValue
    <2> QED BY <2>1 DEF Accounts, ValueOf
  <1>9. CASE c.type = "duration"
    <2>1. /\ NewValue(c).type = "duration" /\ NewValue(c).count = 1 /\ NewValue(c).sum = c.value
          /\ NewValue(c).min = c.value /\ NewValue(c).max = c.value
      BY <1>9 DEF NewValue
    <2> QED BY <1>3, <1>4, <1>5, <1>6, <2>1 DEF Accounts
  <1> QED BY <1>7, <1>8, <1>9 DEF MetricTypes

(* One more emission of the same type. *)
LEMMA AccountsNext ==
    ASSUME NEW all, IsFiniteSet(all), all # {}, \A x \in all : CallOf(x) \in Calls,
           NEW e, e \notin all, CallOf(e) \in Calls, CallOf(e).type \in MetricTypes,
           NEW old \in MetricValues, old.type = CallOf(e).type, Accounts(old, all)
    PROVE  Accounts(UpdatedValue(old, CallOf(e)), all \union {e})
  <1> DEFINE c == CallOf(e)
             more == all \union {e}
             u == [x \in all |-> ValueOf(x)]
             w == [x \in more |-> ValueOf(x)]
             S == {ValueOf(x) : x \in all}
             new == UpdatedValue(old, c)
  <1>1. c.value \in Nat /\ c.value <= U64Max /\ U64Max \in Nat
    BY ValueTypes, HostCallsAssumption
  <1>2. \A x \in all : ValueOf(x) \in 0..U64Max
    BY DEF ValueOf, Calls
  <1>3. SumOf(u) \in Nat /\ SumOf(w) = SumOf(u) + c.value
    <2>1. IsFiniteWeight(u) /\ DOMAIN u = all
      BY <1>1, <1>2 DEF IsFiniteWeight
    <2>2. /\ w \in [DOMAIN u \union {e} -> Nat] /\ w[e] = c.value
          /\ \A y \in DOMAIN u : w[y] = u[y]
      BY <1>1, <1>2 DEF ValueOf
    <2> HIDE DEF u, w
    <2> QED BY <2>1, <2>2, SumAdd, SumType
  <1>4. Saturated(Saturated(SumOf(u)) + c.value) = Saturated(SumOf(w))
    <2> HIDE DEF u, w, c
    <2> QED BY <1>1, <1>3 DEF Saturated
  <1>5. Cardinality(all) \in Nat /\ Cardinality(more) = Cardinality(all) + 1
    BY FS_CardinalityType, FS_AddElement
  <1>6. Saturated(Saturated(Cardinality(all)) + 1) = Saturated(Cardinality(more))
    <2> HIDE DEF more
    <2> QED BY <1>1, <1>5 DEF Saturated
  <1>7. {ValueOf(x) : x \in more} = S \union {c.value}
    BY DEF ValueOf
  <1>8. /\ Min(S \union {c.value}) = Least(Min(S), c.value)
        /\ Max(S \union {c.value}) = Greatest(Max(S), c.value)
    <2>1. S \in SUBSET (0..U64Max) /\ S \in SUBSET Nat /\ S # {}
      BY <1>1, <1>2
    <2> HIDE DEF S, c
    <2>2. c.value \in 0..U64Max
      BY <1>1
    <2> QED BY <1>1, <2>1, <2>2, ExtremesGrow
  <1>9. CASE c.type = "counter"
    <2>1. old \in CounterValues
      BY <1>9 DEF MetricValues, CounterValues, GaugeValues, DurationValues
    <2>2. new = [old EXCEPT !.value = Saturated(@ + c.value)]
      BY <1>9 DEF UpdatedValue
    <2>3. new.type = "counter" /\ new.value = Saturated(old.value + c.value)
      BY <2>1, <2>2 DEF CounterValues
    <2>4. old.value = Saturated(SumOf(u))
      BY <1>9 DEF Accounts
    <2>5. new.value = Saturated(SumOf(w))
      BY <1>4, <2>3, <2>4
    <2>6. Accounts(new, more)
      <3> HIDE DEF new
      <3> QED BY <2>3, <2>5 DEF Accounts
    <2> QED BY <2>6
  <1>10. CASE c.type = "gauge"
    <2>1. new = NewValue(c)
      BY <1>10 DEF UpdatedValue
    <2>2. new.type = "gauge" /\ new.value = c.value
      BY <1>10, <2>1 DEF NewValue
    <2>3. e \in more /\ new.value = ValueOf(e)
      BY <2>2 DEF ValueOf
    <2>6. Accounts(new, more)
      <3> HIDE DEF new
      <3> QED BY <2>2, <2>3 DEF Accounts
    <2> QED BY <2>6
  <1>11. CASE c.type = "duration"
    <2>1. old \in DurationValues
      BY <1>11 DEF MetricValues, CounterValues, GaugeValues, DurationValues
    <2>2. new = [old EXCEPT !.count = Saturated(@ + 1), !.sum = Saturated(@ + c.value),
                            !.min = Least(@, c.value), !.max = Greatest(@, c.value), !.last = c.value]
      BY <1>11 DEF UpdatedValue
    <2>3. /\ new.type = "duration" /\ new.count = Saturated(old.count + 1)
          /\ new.sum = Saturated(old.sum + c.value)
          /\ new.min = Least(old.min, c.value) /\ new.max = Greatest(old.max, c.value)
      BY <2>1, <2>2 DEF DurationValues
    <2>4. /\ old.count = Saturated(Cardinality(all)) /\ old.sum = Saturated(SumOf(u))
          /\ old.min = Min(S) /\ old.max = Max(S)
      BY <1>11 DEF Accounts
    <2>5. /\ new.count = Saturated(Cardinality(more)) /\ new.sum = Saturated(SumOf(w))
          /\ new.min = Min(S \union {c.value}) /\ new.max = Max(S \union {c.value})
      BY <1>4, <1>6, <1>8, <2>3, <2>4
    <2>6. Accounts(new, more)
      <3> HIDE DEF new
      <3> QED BY <1>7, <2>3, <2>5 DEF Accounts
    <2> QED BY <2>6
  <1> QED BY <1>9, <1>10, <1>11 DEF MetricTypes

(* Which emissions have passed. *)
HasPassed(e) ==
    /\ e \in AllCalls /\ Recordable(CallOf(e))
    /\ e[2] < at[e[1]] \/ (e[2] = at[e[1]] /\ step[e[1]] \in {"handle", "registerHandle"})

LEMMA PassedMember == \A e : e \in Passed <=> HasPassed(e)
  BY DEF Passed, HasPassed, AllCalls

(* A guest that moves without emitting: nothing new has passed. *)
LEMMA PassedStays ==
    ASSUME HostShapes, program' = program,
           NEW g \in Guests,
           \/ at' = [at EXCEPT ![g] = @ + 1] /\ step' = [step EXCEPT ![g] = "call"]
              /\ (step[g] = "call" => ~Recordable(Call(g)))
              /\ step[g] # "register"
           \/ at' = at /\ step[g] = "call" /\ step' = [step EXCEPT ![g] = "register"]
           \/ at' = at /\ step[g] = "handle" /\ step' = [step EXCEPT ![g] = "registerHandle"]
    PROVE  Passed' = Passed
  <1>1. AllCalls' = AllCalls /\ \A e : CallOf(e)' = CallOf(e)
    BY DEF AllCalls, CallOf
  <1>2. ASSUME NEW e \in AllCalls PROVE HasPassed(e)' <=> HasPassed(e)
    <2>1. /\ e[1] \in Guests /\ e[2] \in Nat
      BY CallsAreFinite DEF HostShapes
    <2>2. at[g] \in Nat /\ at[e[1]] \in Nat
      BY <2>1 DEF HostShapes
    <2>3. e[1] # g => at'[e[1]] = at[e[1]] /\ step'[e[1]] = step[e[1]]
      BY <2>1 DEF HostShapes
    <2>4. e[2] = at[g] /\ e[1] = g => CallOf(e) = Call(g)
      BY DEF CallOf, Call
    <2>5. CASE e[1] # g
      BY <1>1, <2>3, <2>5 DEF HasPassed
    <2>6. CASE e[1] = g
      <3>1. CASE /\ at' = [at EXCEPT ![g] = @ + 1] /\ step' = [step EXCEPT ![g] = "call"]
                 /\ (step[g] = "call" => ~Recordable(Call(g))) /\ step[g] # "register"
        <4>1. at'[g] = at[g] + 1 /\ step'[g] = "call"
          BY <3>1 DEF HostShapes
        <4>2. e[2] < at[g] + 1 <=> e[2] < at[g] \/ e[2] = at[g]
          BY <2>1, <2>2
        <4>3. step[g] \in {"call", "handle", "registerHandle"}
          BY <3>1 DEF HostShapes
        <4> QED BY <1>1, <2>4, <2>6, <3>1, <4>1, <4>2, <4>3 DEF HasPassed
      <3>2. CASE at' = at /\ step[g] = "call" /\ step' = [step EXCEPT ![g] = "register"]
        <4>1. step'[g] = "register"
          BY <3>2 DEF HostShapes
        <4> QED BY <1>1, <2>6, <3>2, <4>1 DEF HasPassed
      <3>3. CASE at' = at /\ step[g] = "handle" /\ step' = [step EXCEPT ![g] = "registerHandle"]
        <4>1. step'[g] = "registerHandle"
          BY <3>3 DEF HostShapes
        <4> QED BY <1>1, <2>6, <3>3, <4>1 DEF HasPassed
      <3> QED BY <3>1, <3>2, <3>3
    <2> QED BY <2>5, <2>6
  <1>3. \A e : e \in Passed' <=> HasPassed(e)'
    BY DEF Passed, HasPassed, AllCalls
  <1>4. \A e : HasPassed(e)' <=> HasPassed(e)
    BY <1>1, <1>2 DEF HasPassed
  <1> QED BY <1>3, <1>4, PassedMember

(* Nothing has passed and no value has changed: nothing to account for. *)
LEMMA QuietHost ==
    ASSUME HostInv, program' = program, metrics' = metrics, Passed' = Passed
    PROVE  /\ TypesAreTaken' /\ DroppedWhenFull'
           /\ \A n \in DOMAIN metrics' :
                (\A e \in Recorded(n)' : CallOf(e)'.type = metrics'[n].type)
                  => Accounts(metrics[n], Recorded(n))'
  <1>1. \A e : CallOf(e)' = CallOf(e) /\ ValueOf(e)' = ValueOf(e)
    BY DEF CallOf, ValueOf
  <1>2. \A n : Recorded(n)' = Recorded(n)
    BY <1>1 DEF Recorded
  <1>3. TypesAreTaken'
    BY <1>1, <1>2 DEF HostInv, TypesAreTaken
  <1>4. DroppedWhenFull'
    BY <1>1 DEF HostInv, DroppedWhenFull
  <1>5. ASSUME NEW n \in DOMAIN metrics', \A e \in Recorded(n)' : CallOf(e)'.type = metrics'[n].type
        PROVE  Accounts(metrics[n], Recorded(n))'
    <2>1. Accounts(metrics[n], Recorded(n))
      BY <1>1, <1>2, <1>5 DEF HostInv, MetricsAreExact
    <2>2. Accounts(metrics[n], Recorded(n))' <=> Accounts(metrics[n], Recorded(n))
      BY <1>1, <1>2 DEF Accounts
    <2> QED BY <2>1, <2>2
  <1> QED BY <1>3, <1>4, <1>5

(* An emission reaches the value map: it joins the ones that have passed, and its   *)
(* name's value accounts for it, whether or not the name was there when the guest   *)
(* looked it up without the lock.                                                   *)
LEMMA EmissionStep ==
    ASSUME HostInv, NEW g \in Guests, InCall(g), Recordable(Call(g)),
           step[g] \in {"call", "register"},
           program' = program, at' = at, step' = [step EXCEPT ![g] = "handle"],
           metrics' = Register(Call(g)), handles' = handles,
           NEW c, c = Call(g), NEW nm, nm = c.name, NEW e, e = <<g, at[g]>>
    PROVE  HostInv'
  <1> DEFINE old == metrics[nm]
  <1>1. HostShapes /\ InsideRecords /\ TypesAreTaken /\ DroppedWhenFull /\ MetricsAreExact
    BY DEF HostInv
  <1>2. /\ e \in AllCalls /\ CallOf(e) = c /\ c \in Calls /\ c.type \in MetricTypes
        /\ e[1] = g /\ e[2] = at[g]
    <2>1. at[g] \in 1..Len(program[g])
      BY <1>1 DEF HostShapes, InCall
    <2>2. e \in AllCalls
      BY <1>1, <2>1, CallsAreFinite DEF HostShapes
    <2>3. CallOf(e) = c
      BY DEF CallOf, Call
    <2> QED BY <1>1, <2>2, <2>3, CallsAreFinite DEF HostShapes, Recordable
  <1>3. /\ AllCalls' = AllCalls
        /\ \A x : CallOf(x)' = CallOf(x) /\ ValueOf(x)' = ValueOf(x)
    BY DEF AllCalls, CallOf, ValueOf
  <1>4. Passed' = Passed \union {e} /\ e \notin Passed
    <2>1. step'[g] = "handle" /\ \A h \in Guests : h # g => step'[h] = step[h]
      BY <1>1 DEF HostShapes
    <2>2. e \notin Passed
      <3>1. ~(at[g] < at[g])
        BY <1>1 DEF HostShapes
      <3> QED BY <3>1, <1>2, PassedMember DEF HasPassed
    <2>3. \A x : x \in Passed' <=> HasPassed(x)'
      BY DEF Passed, HasPassed, AllCalls
    <2>4. HasPassed(e)'
      BY <1>2, <1>3, <2>1 DEF HasPassed
    <2>5. ASSUME NEW x, x # e PROVE HasPassed(x)' <=> HasPassed(x)
      <3>1. x \in AllCalls => x[1] \in Guests /\ x = <<x[1], x[2]>>
        BY <1>1, CallsAreFinite DEF HostShapes
      <3>2. x \in AllCalls /\ x[1] = g => x[2] # at[g]
        BY <2>5, <3>1
      <3>3. CASE x[1] = g
        BY <1>3, <3>2, <3>3 DEF HasPassed
      <3>4. CASE x[1] # g
        BY <1>3, <2>1, <3>1, <3>4 DEF HasPassed
      <3> QED BY <3>3, <3>4
    <2> QED BY <2>2, <2>3, <2>4, <2>5, PassedMember
  <1>5. /\ Recorded(nm)' = Recorded(nm) \union {e} /\ e \notin Recorded(nm)
        /\ \A n : n # nm => Recorded(n)' = Recorded(n)
    BY <1>2, <1>3, <1>4 DEF Recorded
  <1>6. \A n : /\ IsFiniteSet(Recorded(n))
               /\ \A x \in Recorded(n) : CallOf(x) \in Calls
    <2> TAKE n
    <2>1. Recorded(n) \subseteq AllCalls
      BY PassedMember DEF Recorded, HasPassed
    <2>2. IsFiniteSet(AllCalls) /\ \A x \in AllCalls : CallOf(x) \in Calls
      BY <1>1, CallsAreFinite DEF HostShapes
    <2> QED BY <2>1, <2>2, FS_Subset
  <1>7. InsideRecords'
    <2>1. \A h \in Guests : step'[h] # "call" => step[h] # "call" \/ h = g
      BY <1>1 DEF HostShapes
    <2> QED BY <1>1, <2>1 DEF InsideRecords, InCall, Call
  <1>8. \A n \in DOMAIN metrics : n # nm =>
          Accounts(metrics[n], Recorded(n))' <=> Accounts(metrics'[n], Recorded(n))
    <2> SUFFICES ASSUME NEW n \in DOMAIN metrics, n # nm
                 PROVE  Accounts(metrics[n], Recorded(n))' <=> Accounts(metrics'[n], Recorded(n))
      OBVIOUS
    <2>1. Recorded(n)' = Recorded(n)
      BY <1>5
    <2> QED BY <1>3, <2>1 DEF Accounts
  <1>9. Accounts(metrics[nm], Recorded(nm))' <=> Accounts(metrics'[nm], Recorded(nm) \union {e})
    BY <1>3, <1>5 DEF Accounts
  <1>10. /\ metrics = [n \in DOMAIN metrics |-> metrics[n]] /\ \A n \in DOMAIN metrics : metrics[n] \in MetricValues
         /\ IsFiniteSet(DOMAIN metrics) /\ Cardinality(DOMAIN metrics) \in Nat
         /\ Cardinality(DOMAIN metrics) <= MaxEntries /\ MaxEntries \in Nat
    BY <1>1, HostCallsAssumption, FS_CardinalityType DEF HostShapes, MetricsAreExact
  <1>11. /\ program' \in [Guests -> Seq(Calls)] /\ at' \in [Guests -> Nat \ {0}]
         /\ step' \in [Guests -> {"call", "register", "handle", "registerHandle"}]
         /\ IsFiniteSet(DOMAIN handles') /\ Cardinality(DOMAIN handles') <= MaxEntries
    BY <1>1 DEF HostShapes, MetricsAreExact
  <1>12. CASE nm \in DOMAIN metrics
    <2>1. metrics' = [metrics EXCEPT ![nm] = UpdatedValue(old, c)]
      BY <1>12 DEF Register
    <2>2. /\ DOMAIN metrics' = DOMAIN metrics /\ metrics'[nm] = UpdatedValue(old, c)
          /\ \A n \in DOMAIN metrics : n # nm => metrics'[n] = metrics[n]
          /\ metrics' = [n \in DOMAIN metrics' |-> metrics'[n]]
      BY <1>10, <1>12, <2>1
    <2>3. old \in MetricValues
      BY <1>10, <1>12
    <2>4. UpdatedValue(old, c) \in MetricValues /\ UpdatedValue(old, c).type = c.type
      BY <1>2, <2>3, ValueTypes
    <2>5. HostShapes'
      BY <1>10, <1>11, <2>2, <2>4 DEF HostShapes
    <2>6. TypesAreTaken'
      <3> SUFFICES ASSUME NEW n \in DOMAIN metrics'
                   PROVE  \E x \in Recorded(n)' : CallOf(x)'.type = metrics'[n].type
        BY DEF TypesAreTaken
      <3>1. CASE n = nm
        <4>1. e \in Recorded(n)' /\ CallOf(e)'.type = metrics'[n].type
          BY <1>2, <1>3, <1>5, <2>2, <2>4, <3>1
        <4> QED BY <4>1
      <3>2. CASE n # nm
        BY <1>1, <1>3, <1>5, <2>2, <3>2 DEF TypesAreTaken
      <3> QED BY <3>1, <3>2
    <2>7. DroppedWhenFull'
      BY <1>1, <1>2, <1>3, <1>4, <1>12, <2>2 DEF DroppedWhenFull
    <2>8. MetricsAreExact'
      <3> SUFFICES ASSUME NEW n \in DOMAIN metrics',
                          \A x \in Recorded(n)' : CallOf(x)'.type = metrics'[n].type
                   PROVE  Accounts(metrics[n], Recorded(n))'
        BY <1>10, <1>11, <2>2 DEF MetricsAreExact
      <3>1. CASE n = nm
        <4>1. \A x \in Recorded(n) : CallOf(x).type = c.type
          BY <1>3, <1>5, <2>2, <2>4, <3>1
        <4>2. PICK x \in Recorded(n) : CallOf(x).type = old.type
          BY <1>1, <1>12, <3>1 DEF TypesAreTaken
        <4>3. old.type = c.type
          BY <4>1, <4>2
        <4>4. Accounts(old, Recorded(n))
          BY <1>1, <1>12, <3>1, <4>1, <4>3 DEF MetricsAreExact
        <4>5. Recorded(n) # {} /\ e \notin Recorded(n)
          BY <1>5, <3>1, <4>2
        <4>6. Accounts(UpdatedValue(old, c), Recorded(n) \union {e})
          <5> HIDE DEF old
          <5>1. CallOf(e) \in Calls /\ CallOf(e).type \in MetricTypes /\ CallOf(e) = c
            BY <1>2
          <5>2. Accounts(UpdatedValue(old, CallOf(e)), Recorded(n) \union {e})
            BY <1>6, <2>3, <4>3, <4>4, <4>5, <5>1, AccountsNext
          <5> QED BY <5>1, <5>2
        <4> QED BY <1>9, <2>2, <3>1, <4>6
      <3>2. CASE n # nm
        <4>1. Accounts(metrics[n], Recorded(n))
          BY <1>1, <1>3, <1>5, <2>2, <3>2 DEF MetricsAreExact
        <4> QED BY <1>8, <2>2, <3>2, <4>1
      <3> QED BY <3>1, <3>2
    <2> QED BY <1>7, <2>5, <2>6, <2>7, <2>8 DEF HostInv
  <1>13. CASE nm \notin DOMAIN metrics /\ Cardinality(DOMAIN metrics) >= MaxEntries
    <2>1. metrics' = metrics
      BY <1>13 DEF Register
    <2>2. HostShapes'
      BY <1>1, <1>11, <2>1 DEF HostShapes
    <2>3. \A n \in DOMAIN metrics : n # nm
      BY <1>13
    <2>4. TypesAreTaken'
      BY <1>1, <1>3, <1>5, <2>1, <2>3 DEF TypesAreTaken
    <2>5. DroppedWhenFull'
      BY <1>13, <2>1 DEF DroppedWhenFull
    <2>6. MetricsAreExact'
      <3> SUFFICES ASSUME NEW n \in DOMAIN metrics',
                          \A x \in Recorded(n)' : CallOf(x)'.type = metrics'[n].type
                   PROVE  Accounts(metrics[n], Recorded(n))'
        BY <1>10, <1>11, <2>1 DEF MetricsAreExact
      <3>1. Accounts(metrics[n], Recorded(n))
        BY <1>1, <1>3, <1>5, <2>1, <2>3 DEF MetricsAreExact
      <3> QED BY <1>8, <2>1, <2>3, <3>1
    <2> QED BY <1>7, <2>2, <2>4, <2>5, <2>6 DEF HostInv
  <1>14. CASE nm \notin DOMAIN metrics /\ ~(Cardinality(DOMAIN metrics) >= MaxEntries)
    <2>1. metrics' = With(metrics, nm, NewValue(c))
      BY <1>14 DEF Register
    <2>2. /\ DOMAIN metrics' = DOMAIN metrics \union {nm} /\ metrics'[nm] = NewValue(c)
          /\ \A n \in DOMAIN metrics : metrics'[n] = metrics[n]
          /\ metrics' = [n \in DOMAIN metrics' |-> metrics'[n]]
      BY <1>14, <2>1 DEF With
    <2>3. NewValue(c) \in MetricValues /\ NewValue(c).type = c.type
      BY <1>2, ValueTypes
    <2>4. /\ IsFiniteSet(DOMAIN metrics')
          /\ Cardinality(DOMAIN metrics') = Cardinality(DOMAIN metrics) + 1
      <3>1. PICK S : S = DOMAIN metrics
        OBVIOUS
      <3>2. IsFiniteSet(S \union {nm}) /\ Cardinality(S \union {nm}) = Cardinality(S) + 1
        BY <1>10, <1>14, <3>1, FS_AddElement
      <3> QED BY <2>2, <3>1, <3>2
    <2>5. Cardinality(DOMAIN metrics') <= MaxEntries
      BY <1>10, <1>14, <2>4
    <2>6. Recorded(nm) = {}
      BY <1>1, <1>14 DEF Recorded, DroppedWhenFull
    <2>7. HostShapes'
      BY <1>10, <1>11, <2>2, <2>3, <2>4 DEF HostShapes
    <2>8. TypesAreTaken'
      <3> SUFFICES ASSUME NEW n \in DOMAIN metrics'
                   PROVE  \E x \in Recorded(n)' : CallOf(x)'.type = metrics'[n].type
        BY DEF TypesAreTaken
      <3>1. CASE n = nm
        <4>1. e \in Recorded(n)' /\ CallOf(e)'.type = metrics'[n].type
          BY <1>2, <1>3, <1>5, <2>2, <2>3, <3>1
        <4> QED BY <4>1
      <3>2. CASE n # nm
        BY <1>1, <1>3, <1>5, <2>2, <3>2 DEF TypesAreTaken
      <3> QED BY <3>1, <3>2
    <2>9. DroppedWhenFull'
      <3>1. \A x \in Passed : CallOf(x).name \in DOMAIN metrics
        BY <1>1, <1>14 DEF DroppedWhenFull
      <3> QED BY <1>2, <1>3, <1>4, <2>2, <3>1 DEF DroppedWhenFull
    <2>10. MetricsAreExact'
      <3> SUFFICES ASSUME NEW n \in DOMAIN metrics',
                          \A x \in Recorded(n)' : CallOf(x)'.type = metrics'[n].type
                   PROVE  Accounts(metrics[n], Recorded(n))'
        BY <1>11, <2>5 DEF MetricsAreExact
      <3>1. CASE n = nm
        <4>1. Accounts(NewValue(c), {e})
          <5>1. CallOf(e) \in Calls /\ CallOf(e).type \in MetricTypes /\ CallOf(e) = c
            BY <1>2
          <5> QED BY <5>1, AccountsFirst
        <4>2. Recorded(nm) \union {e} = {e}
          BY <2>6
        <4> QED BY <1>9, <2>2, <3>1, <4>1, <4>2
      <3>2. CASE n # nm
        <4>1. Accounts(metrics[n], Recorded(n))
          BY <1>1, <1>3, <1>5, <2>2, <3>2 DEF MetricsAreExact
        <4> QED BY <1>8, <2>2, <3>2, <4>1
      <3> QED BY <3>1, <3>2
    <2> QED BY <1>7, <2>7, <2>8, <2>9, <2>10 DEF HostInv
  <1> QED BY <1>12, <1>13, <1>14

(* A step that emits nothing. *)
LEMMA QuietHostStep ==
    ASSUME HostInv, program' = program, metrics' = metrics, Passed' = Passed,
           at' \in [Guests -> Nat \ {0}],
           step' \in [Guests -> {"call", "register", "handle", "registerHandle"}],
           InsideRecords', IsFiniteSet(DOMAIN handles'), Cardinality(DOMAIN handles') <= MaxEntries
    PROVE  HostInv'
  <1>1. HostShapes'
    BY DEF HostInv, HostShapes
  <1>2. MetricsAreExact'
    BY QuietHost DEF HostInv, MetricsAreExact
  <1> QED BY <1>1, <1>2, QuietHost DEF HostInv

(* A guest that leaves its call, or goes on to look for its instrument. *)
LEMMA MovesOn ==
    ASSUME HostInv, NEW g \in Guests, program' = program,
           \/ NextCall(g)
           \/ at' = at /\ InCall(g) /\ Recordable(Call(g)) /\ GoTo(g, "register")
           \/ at' = at /\ step[g] # "call" /\ GoTo(g, "registerHandle")
    PROVE  /\ at' \in [Guests -> Nat \ {0}]
           /\ step' \in [Guests -> {"call", "register", "handle", "registerHandle"}]
           /\ InsideRecords'
  <1>1. HostShapes /\ InsideRecords
    BY DEF HostInv
  <1>2. CASE NextCall(g)
    <2>1. /\ at' \in [Guests -> Nat \ {0}]
          /\ step' \in [Guests -> {"call", "register", "handle", "registerHandle"}]
          /\ step'[g] = "call" /\ \A h \in Guests : h # g => step'[h] = step[h] /\ at'[h] = at[h]
      BY <1>1, <1>2 DEF HostShapes, NextCall, GoTo
    <2>2. InsideRecords'
      BY <1>1, <2>1 DEF InsideRecords, InCall, Call
    <2> QED BY <2>1, <2>2
  <1>3. CASE at' = at /\ InCall(g) /\ Recordable(Call(g)) /\ GoTo(g, "register")
    <2>1. /\ step' \in [Guests -> {"call", "register", "handle", "registerHandle"}]
          /\ \A h \in Guests : h # g => step'[h] = step[h]
      BY <1>1, <1>3 DEF HostShapes, GoTo
    <2>2. InsideRecords'
      BY <1>1, <1>3, <2>1 DEF InsideRecords, InCall, Call
    <2> QED BY <1>1, <1>3, <2>1, <2>2 DEF HostShapes
  <1>4. CASE at' = at /\ step[g] # "call" /\ GoTo(g, "registerHandle")
    <2>1. /\ step' \in [Guests -> {"call", "register", "handle", "registerHandle"}]
          /\ \A h \in Guests : h # g => step'[h] = step[h]
      BY <1>1, <1>4 DEF HostShapes, GoTo
    <2>2. InsideRecords'
      BY <1>1, <1>4, <2>1 DEF InsideRecords, InCall, Call
    <2> QED BY <1>1, <1>4, <2>1, <2>2 DEF HostShapes
  <1> QED BY <1>2, <1>3, <1>4

LEMMA HostStep == HostInv /\ [HostNext]_hostVars => HostInv'
  <1> SUFFICES ASSUME HostInv, [HostNext]_hostVars PROVE HostInv'
    OBVIOUS
  <1>1. HostShapes /\ InsideRecords
    BY DEF HostInv
  <1>2. IsFiniteSet(DOMAIN handles) /\ Cardinality(DOMAIN handles) <= MaxEntries
    BY DEF HostInv, HostShapes, MetricsAreExact
  <1>3. ASSUME NEW g \in Guests,
               \/ IgnoreMetric(g) \/ HostLog(g) \/ HostQuery(g)
        PROVE  HostInv'
    <2>1. /\ program' = program /\ metrics' = metrics /\ handles' = handles /\ NextCall(g)
          /\ step[g] = "call" /\ ~Recordable(Call(g))
      BY <1>3 DEF IgnoreMetric, HostLog, HostQuery, Recordable
    <2>2. Passed' = Passed
      BY <1>1, <2>1, PassedStays DEF NextCall, GoTo
    <2> QED BY <1>2, <2>1, <2>2, MovesOn, QuietHostStep
  <1>4. ASSUME NEW g \in Guests, UpdateMetric(g) PROVE HostInv'
    <2>1. /\ InCall(g) /\ step[g] = "call" /\ Recordable(Call(g))
          /\ program' = program /\ at' = at /\ handles' = handles
      BY <1>4 DEF UpdateMetric
    <2>2. CASE Call(g).name \in DOMAIN metrics
      <3>1. metrics' = Register(Call(g)) /\ GoTo(g, "handle")
        BY <1>4, <2>2 DEF UpdateMetric, Register
      <3>2. PICK c : c = Call(g)
        OBVIOUS
      <3>3. PICK nm : nm = c.name
        OBVIOUS
      <3>4. PICK e : e = <<g, at[g]>>
        OBVIOUS
      <3> QED BY <2>1, <3>1, <3>2, <3>3, <3>4, EmissionStep DEF GoTo
    <2>3. CASE Call(g).name \notin DOMAIN metrics
      <3>1. metrics' = metrics /\ GoTo(g, "register")
        BY <1>4, <2>3 DEF UpdateMetric
      <3>2. Passed' = Passed
        BY <1>1, <2>1, <3>1, PassedStays DEF GoTo
      <3> QED BY <1>2, <2>1, <3>1, <3>2, MovesOn, QuietHostStep
    <2> QED BY <2>2, <2>3
  <1>5. ASSUME NEW g \in Guests, RegisterMetric(g) PROVE HostInv'
    <2>1. /\ step[g] = "register" /\ metrics' = Register(Call(g)) /\ GoTo(g, "handle")
          /\ program' = program /\ at' = at /\ handles' = handles
      BY <1>5 DEF RegisterMetric
    <2>2. InCall(g) /\ Recordable(Call(g))
      BY <1>1, <2>1 DEF InsideRecords
    <2>3. PICK c : c = Call(g)
      OBVIOUS
    <2>4. PICK nm : nm = c.name
      OBVIOUS
    <2>5. PICK e : e = <<g, at[g]>>
      OBVIOUS
    <2> QED BY <2>1, <2>2, <2>3, <2>4, <2>5, EmissionStep DEF GoTo
  <1>6. ASSUME NEW g \in Guests, UseHandle(g) PROVE HostInv'
    <2>1. step[g] = "handle" /\ program' = program /\ metrics' = metrics /\ handles' = handles
      BY <1>6 DEF UseHandle
    <2>2. NextCall(g) \/ (at' = at /\ GoTo(g, "registerHandle"))
      BY <1>6 DEF UseHandle
    <2>3. Passed' = Passed
      BY <1>1, <2>1, <2>2, PassedStays DEF NextCall, GoTo
    <2> QED BY <1>2, <2>1, <2>2, <2>3, MovesOn, QuietHostStep
  <1>7. ASSUME NEW g \in Guests, RegisterHandle(g) PROVE HostInv'
    <2>1. step[g] = "registerHandle" /\ program' = program /\ metrics' = metrics /\ NextCall(g)
      BY <1>7 DEF RegisterHandle
    <2>2. Passed' = Passed
      BY <1>1, <2>1, PassedStays DEF NextCall, GoTo
    <2>3. IsFiniteSet(DOMAIN handles') /\ Cardinality(DOMAIN handles') <= MaxEntries
      <3>1. CASE handles' = handles
        BY <1>2, <3>1
      <3>2. CASE /\ Call(g).name \notin DOMAIN handles /\ Cardinality(DOMAIN handles) < MaxEntries
                 /\ handles' = With(handles, Call(g).name, Call(g).type)
        <4>1. PICK S : S = DOMAIN handles
          OBVIOUS
        <4>2. PICK n : n = Call(g).name
          OBVIOUS
        <4>3. DOMAIN handles' = S \union {n}
          BY <3>2, <4>1, <4>2 DEF With
        <4>4. IsFiniteSet(S \union {n}) /\ Cardinality(S \union {n}) = Cardinality(S) + 1
          BY <1>2, <3>2, <4>1, <4>2, FS_AddElement
        <4>5. Cardinality(S) \in Nat /\ MaxEntries \in Nat /\ Cardinality(S) < MaxEntries
          BY <1>2, <3>2, <4>1, FS_CardinalityType, HostCallsAssumption
        <4> QED BY <4>3, <4>4, <4>5
      <3> QED BY <1>7, <3>1, <3>2 DEF RegisterHandle
    <2> QED BY <2>1, <2>2, <2>3, MovesOn, QuietHostStep
  <1>8. CASE UNCHANGED hostVars
    <2>1. UNCHANGED <<program, at, step, metrics, handles>>
      BY <1>8 DEF hostVars
    <2>2. Passed' = Passed /\ InsideRecords'
      BY <1>1, <2>1 DEF Passed, InsideRecords, CallOf, InCall, Call
    <2> QED BY <1>1, <1>2, <2>1, <2>2, QuietHostStep DEF HostShapes
  <1> QED BY <1>3, <1>4, <1>5, <1>6, <1>7, <1>8 DEF HostNext

LEMMA HostInitially == HostInit => HostInv
  <1> SUFFICES ASSUME HostInit PROVE HostInv
    OBVIOUS
  <1>1. DOMAIN metrics = {} /\ DOMAIN handles = {} /\ metrics = [n \in DOMAIN metrics |-> metrics[n]]
    BY DEF HostInit
  <1>2. IsFiniteSet({}) /\ Cardinality({}) = 0
    BY FS_EmptySet
  <1>3. HostShapes
    BY <1>1, <1>2, HostCallsAssumption DEF HostInit, HostShapes
  <1>4. InsideRecords
    BY DEF HostInit, InsideRecords
  <1>5. Passed = {}
    <2> SUFFICES ASSUME NEW e, HasPassed(e) PROVE FALSE
      BY PassedMember
    <2>1. e[1] \in Guests /\ e[2] \in 1..Len(program[e[1]])
      BY <1>3, CallsAreFinite DEF HasPassed, HostShapes
    <2>2. at[e[1]] = 1 /\ step[e[1]] = "call"
      BY <2>1 DEF HostInit
    <2>3. e[2] \in Nat /\ e[2] >= 1
      BY <1>3, <2>1 DEF HostShapes
    <2> QED BY <2>2, <2>3 DEF HasPassed
  <1>6. TypesAreTaken /\ DroppedWhenFull
    BY <1>1, <1>5 DEF TypesAreTaken, DroppedWhenFull
  <1>7. MetricsAreExact
    BY <1>1, <1>2, HostCallsAssumption DEF MetricsAreExact
  <1> QED BY <1>3, <1>4, <1>6, <1>7 DEF HostInv

(* MetricRegistry never holds more names than it may, and what it holds of a name    *)
(* accounts for every emission of every guest, for any number of guests and calls.   *)
THEOREM MetricsAccountForEmissions == HostSpec => []MetricsAreExact
  <1>1. HostInv /\ [HostNext]_hostVars => HostInv'
    BY HostStep
  <1>2. HostInv => MetricsAreExact
    BY DEF HostInv
  <1> QED BY <1>1, <1>2, HostInitially, PTL DEF HostSpec

-----------------------------------------------------------------------------
(* One call of a guest                                                      *)

(* FlattenSeq: its recursion is well defined, and what it joins has its type. *)
LEMMA FlattenType ==
    ASSUME NEW T, NEW ss \in Seq(Seq(T))
    PROVE  FlattenSeq(ss) \in Seq(T)
  <1> DEFINE n == Len(ss)
             Joins(f, m) == \A i \in 1..m : f[i] = IF i = 1 THEN ss[i] ELSE f[i - 1] \o ss[i]
             Joinable(m) == \E f \in [1..m -> Seq(T)] : Joins(f, m)
             F == CHOOSE f : f = [i \in 1..n |-> IF i = 1 THEN ss[i] ELSE f[i - 1] \o ss[i]]
  <1>1. n \in Nat /\ \A i \in 1..n : ss[i] \in Seq(T)
    OBVIOUS
  <1>2. CASE n = 0
    BY <1>2 DEF FlattenSeq
  <1>3. CASE n # 0
    <2>1. FlattenSeq(ss) = F[n]
      BY <1>3 DEF FlattenSeq
    <2>2. Joinable(n)
      <3> SUFFICES ASSUME ~Joinable(n) PROVE FALSE
        OBVIOUS
      <3> DEFINE Bad == {m \in 1..n : ~Joinable(m)}
      <3> HIDE DEF Joinable
      <3>1. Bad \in SUBSET Nat /\ Bad # {}
        BY <1>1, <1>3, SMTT(30)
      <3>2. PICK m \in Bad : \A k \in Bad : m <= k
        BY <3>1, LeastOf
      <3>3. m \in 1..n /\ ~Joinable(m)
        BY <3>2
      <3>4. CASE m = 1
        <4> DEFINE f == [i \in 1..1 |-> ss[i]]
        <4>1. f \in [1..m -> Seq(T)] /\ Joins(f, m)
          BY <1>1, <1>3, <3>4
        <4> QED BY <3>3, <4>1 DEF Joinable
      <3>5. CASE m # 1
        <4>1. m - 1 \in 1..n /\ m - 1 < m /\ m \in Nat
          BY <1>1, <3>3, <3>5
        <4>2. Joinable(m - 1)
          BY <3>2, <4>1
        <4>3. PICK g \in [1..(m - 1) -> Seq(T)] : Joins(g, m - 1)
          BY <4>2 DEF Joinable
        <4> DEFINE f == [i \in 1..m |-> IF i = m THEN g[m - 1] \o ss[m] ELSE g[i]]
        <4>4. g[m - 1] \in Seq(T) /\ ss[m] \in Seq(T)
          BY <1>1, <3>3, <3>5, <4>1, <4>3
        <4>5. g[m - 1] \o ss[m] \in Seq(T)
          BY <4>4
        <4>6. \A i \in 1..m : i # m => i \in 1..(m - 1)
          BY <4>1
        <4>7. f \in [1..m -> Seq(T)]
          BY <4>3, <4>5, <4>6
        <4>8. ASSUME NEW i \in 1..m PROVE f[i] = IF i = 1 THEN ss[i] ELSE f[i - 1] \o ss[i]
          <5>1. CASE i = m
            <6>1. f[m - 1] = g[m - 1] /\ f[m] = g[m - 1] \o ss[m]
              <7>1. m - 1 \in 1..m /\ m \in 1..m /\ m - 1 # m
                BY <1>1, <4>1
              <7> QED BY <7>1
            <6> QED BY <3>5, <5>1, <6>1
          <5>2. CASE i # m
            <6>1. f[i] = g[i] /\ i \in 1..(m - 1)
              BY <5>2, <4>6
            <6>2. i # 1 => f[i - 1] = g[i - 1]
              BY <5>2, <4>1
            <6> QED BY <4>3, <6>1, <6>2
          <5> QED BY <5>1, <5>2
        <4>9. Joins(f, m)
          BY <4>8
        <4> QED BY <3>3, <4>7, <4>9 DEF Joinable
      <3> QED BY <3>4, <3>5
    <2>3. F = [i \in 1..n |-> IF i = 1 THEN ss[i] ELSE F[i - 1] \o ss[i]]
      <3>1. PICK f \in [1..n -> Seq(T)] : Joins(f, n)
        BY <2>2
      <3>2. f = [i \in 1..n |-> IF i = 1 THEN ss[i] ELSE f[i - 1] \o ss[i]]
        BY <3>1
      <3> QED BY <3>2
    <2> HIDE DEF F
    <2>4. \A i \in 1..n : F[i] \in Seq(T)
      <3> DEFINE Bad == {i \in 1..n : F[i] \notin Seq(T)}
      <3> SUFFICES ASSUME Bad # {} PROVE FALSE
        OBVIOUS
      <3>1. Bad \in SUBSET Nat
        BY <1>1
      <3>2. PICK m \in Bad : \A k \in Bad : m <= k
        <4> HIDE DEF Bad
        <4> QED BY <3>1, LeastOf
      <3>3. CASE m = 1
        BY <1>1, <2>3, <3>2, <3>3
      <3>4. CASE m # 1
        <4>1. m - 1 \in 1..n /\ ~(m <= m - 1) /\ m \in 1..n
          BY <1>1, <3>2, <3>4
        <4>2. F[m - 1] \in Seq(T)
          BY <3>2, <4>1
        <4>3. F[m] = F[m - 1] \o ss[m]
          BY <2>3, <3>4, <4>1
        <4>4. ss[m] \in Seq(T)
          BY <1>1, <4>1
        <4>5. F[m - 1] \o ss[m] \in Seq(T)
          BY <4>2, <4>4
        <4> QED BY <3>2, <4>3, <4>5
      <3> QED BY <3>3, <3>4
    <2> QED BY <1>1, <1>3, <2>1, <2>4
  <1> QED BY <1>2, <1>3

(* The first and the last column of a name. *)
LEMMA ColumnsOf ==
    ASSUME NEW cols, Len(cols) \in Nat, NEW name \in Names(cols)
    PROVE  /\ \E i \in PlacesNamed(cols, name) : FirstColumn(cols, name) = cols[i]
           /\ \E i \in PlacesNamed(cols, name) : LastColumn(cols, name) = cols[i]
  <1>1. PICK n \in Nat : n = Len(cols)
    OBVIOUS
  <1>2. PICK S : S = PlacesNamed(cols, name)
    OBVIOUS
  <1>3. S \in SUBSET (1..n) /\ S # {}
    BY <1>1, <1>2 DEF PlacesNamed, Names
  <1>4. S \in SUBSET Nat /\ S \in SUBSET (0..n)
    BY <1>3
  <1>5. Min(S) \in S
    BY <1>3, <1>4, LeastOf
  <1>6. Max(S) \in S
    BY <1>3, <1>4, GreatestOf
  <1> QED BY <1>2, <1>5, <1>6 DEF FirstColumn, LastColumn

NamedOnce(cols, name) == \A a, b \in PlacesNamed(cols, name) : a = b

NamesDiffer(cols) == \A a, b \in 1..Len(cols) : cols[a].name = cols[b].name => a = b

(* They are one column where the name stands once. *)
LEMMA ColumnIs ==
    ASSUME NEW cols, Len(cols) \in Nat, NEW i \in 1..Len(cols), NamedOnce(cols, cols[i].name)
    PROVE  /\ cols[i].name \in Names(cols)
           /\ FirstColumn(cols, cols[i].name) = cols[i] /\ LastColumn(cols, cols[i].name) = cols[i]
  <1>1. cols[i].name \in Names(cols) /\ i \in PlacesNamed(cols, cols[i].name)
    BY DEF Names, PlacesNamed
  <1>2. PICK j \in PlacesNamed(cols, cols[i].name) : FirstColumn(cols, cols[i].name) = cols[j]
    BY <1>1, ColumnsOf
  <1>3. PICK k \in PlacesNamed(cols, cols[i].name) : LastColumn(cols, cols[i].name) = cols[k]
    BY <1>1, ColumnsOf
  <1> QED BY <1>1, <1>2, <1>3 DEF NamedOnce

LEMMA DifferOnce ==
    ASSUME NEW cols, NamesDiffer(cols), NEW i \in 1..Len(cols)
    PROVE  NamedOnce(cols, cols[i].name)
  BY DEF NamesDiffer, NamedOnce, PlacesNamed

(* The strict guard lets a batch through as it is. *)
LEMMA StrictKeeps ==
    ASSUME NEW in, IsGuestBatch(in), NamesDiffer(in.cols), NEW out, IsGuestBatch(out),
           VerifyImmutability(in, out), VerifyStrict(in, out)
    PROVE  KeepsIdentity("strict", in, out, out)
  <1>1. PICK n \in Nat : n = Len(in.cols)
    BY DEF IsGuestBatch
  <1>2. PICK m \in Nat : m = Len(out.cols)
    BY DEF IsGuestBatch
  <1>3. Fields(in.cols) = Fields(out.cols) /\ in.meta = out.meta
    BY DEF VerifyStrict
  <1>4. DOMAIN Fields(in.cols) = 1..n /\ DOMAIN Fields(out.cols) = 1..m
    BY <1>1, <1>2 DEF Fields
  <1>5. n = m
    BY <1>3, <1>4
  <1>6. ASSUME NEW i \in 1..n
        PROVE  out.cols[i].name = in.cols[i].name /\ out.cols[i].type = in.cols[i].type
    <2>1. Fields(in.cols)[i] = [name |-> in.cols[i].name, type |-> in.cols[i].type, nullable |-> in.cols[i].nullable]
      BY <1>1 DEF Fields
    <2>2. Fields(out.cols)[i] = [name |-> out.cols[i].name, type |-> out.cols[i].type, nullable |-> out.cols[i].nullable]
      BY <1>2, <1>5 DEF Fields
    <2> QED BY <1>3, <2>1, <2>2
  <1>7. NamesDiffer(out.cols)
    BY <1>1, <1>2, <1>5, <1>6 DEF NamesDiffer
  <1>8. ASSUME NEW i \in 1..n, in.cols[i].name \in Immutable, ~in.cols[i].empty, out.rows > 0
        PROVE  ~out.cols[i].empty
    <2>1. in.cols[i].name \in Names(in.cols) /\ FirstColumn(in.cols, in.cols[i].name) = in.cols[i]
      BY <1>1, ColumnIs, DifferOnce
    <2>2. out.cols[i].name \in Names(out.cols) /\ FirstColumn(out.cols, out.cols[i].name) = out.cols[i]
      BY <1>2, <1>5, <1>7, ColumnIs, DifferOnce
    <2> QED BY <1>6, <1>8, <2>1, <2>2 DEF VerifyImmutability
  <1>9. \A i \in 1..Len(in.cols) :
          /\ i <= Len(out.cols) /\ out.cols[i].name = in.cols[i].name
          /\ out.cols[i].type \in {in.cols[i].type, MakeNullable(in.cols[i]).type}
          /\ in.cols[i].name \in Immutable /\ ~in.cols[i].empty /\ out.rows > 0 => ~out.cols[i].empty
    BY <1>1, <1>2, <1>5, <1>6, <1>8
  <1> QED BY <1>3, <1>9 DEF KeepsIdentity

(* The defensive guard rebuilds the batch around the columns that came in. *)
LEMMA BackfillKeeps ==
    ASSUME NEW in, IsGuestBatch(in), NamesDiffer(in.cols), NEW out, IsGuestBatch(out),
           VerifyImmutability(in, out), BackfillAccepts(in, out)
    PROVE  KeepsIdentity("defensive", in, out, Backfill(in, out))
  <1> DEFINE places == {i \in 1..Len(out.cols) : out.cols[i].name \notin Names(in.cols)}
             new == AtPlaces(out.cols, places)
             kept == [i \in 1..Len(in.cols) |->
                IF in.cols[i].name \in Names(out.cols) THEN LastColumn(out.cols, in.cols[i].name)
                ELSE [MakeNullable(in.cols[i]) EXCEPT !.empty = TRUE]]
             res == Backfill(in, out)
  <1>1. PICK n \in Nat : n = Len(in.cols)
    BY DEF IsGuestBatch
  <1>2. res = [cols |-> kept \o new, rows |-> out.rows, meta |-> MergeMetadata(in, out)]
    BY DEF Backfill
  <1>3. res.cols = kept \o new /\ res.rows = out.rows /\ res.meta = MergeMetadata(in, out)
    BY <1>2
  <1>4. new \in Seq(GuestColumns)
    <2>1. out.cols \in Seq(GuestColumns) /\ places \in SUBSET (1..Len(out.cols))
      BY DEF IsGuestBatch
    <2> HIDE DEF places
    <2> QED BY <2>1, PlacesKept
  <1>5. PICK K : kept \in Seq(K)
    <2> DEFINE K == {kept[i] : i \in 1..n}
    <2>1. kept \in Seq(K)
      <3>1. kept = [i \in 1..n |-> kept[i]]
        BY <1>1
      <3> HIDE DEF kept
      <3> QED BY <3>1
    <2> QED BY <2>1
  <1>6. Len(kept) = n
    <2>1. DOMAIN kept = 1..n
      BY <1>1
    <2> HIDE DEF kept
    <2> QED BY <1>5, <2>1
  <1>7. /\ n <= Len(res.cols) /\ \A i \in 1..n : res.cols[i] = kept[i]
    <2> HIDE DEF kept, new, res
    <2>1. Len(kept \o new) = n + Len(new) /\ Len(new) \in Nat
      BY <1>4, <1>5, <1>6
    <2>2. \A i \in 1..n : (kept \o new)[i] = kept[i]
      BY <1>4, <1>5, <1>6
    <2> QED BY <1>3, <2>1, <2>2
  <1>8. ASSUME NEW i \in 1..n
        PROVE  /\ kept[i].name = in.cols[i].name
               /\ kept[i].type \in {in.cols[i].type, MakeNullable(in.cols[i]).type}
               /\ in.cols[i].name \in Immutable /\ ~in.cols[i].empty /\ out.rows > 0
                     /\ NamedOnce(out.cols, in.cols[i].name) => ~kept[i].empty
    <2>1. in.cols[i].name \in Names(in.cols) /\ FirstColumn(in.cols, in.cols[i].name) = in.cols[i]
      BY <1>1, ColumnIs, DifferOnce
    <2>2. in.cols[i] \in GuestColumns
      BY <1>1 DEF IsGuestBatch
    <2>3. CASE in.cols[i].name \in Names(out.cols)
      <3>1. kept[i] = LastColumn(out.cols, in.cols[i].name)
        BY <1>1, <2>3
      <3>2. Len(out.cols) \in Nat
        BY DEF IsGuestBatch
      <3>3. PICK k \in PlacesNamed(out.cols, in.cols[i].name) :
              LastColumn(out.cols, in.cols[i].name) = out.cols[k]
        BY <2>3, <3>2, ColumnsOf
      <3>4. k \in 1..Len(out.cols) /\ out.cols[k].name = in.cols[i].name
        BY <3>3 DEF PlacesNamed
      <3>5. LastColumn(out.cols, in.cols[i].name).type = in.cols[i].type
        BY <1>1, <2>3 DEF BackfillAccepts
      <3>6. in.cols[i].name \in Immutable /\ ~in.cols[i].empty /\ out.rows > 0 =>
              ~FirstColumn(out.cols, in.cols[i].name).empty
        BY <2>1, <2>3 DEF VerifyImmutability
      <3>7. NamedOnce(out.cols, in.cols[i].name) =>
              FirstColumn(out.cols, in.cols[i].name) = LastColumn(out.cols, in.cols[i].name)
        BY <3>2, <3>4, ColumnIs
      <3> HIDE DEF kept
      <3> QED BY <3>1, <3>3, <3>4, <3>5, <3>6, <3>7
    <2>4. CASE in.cols[i].name \notin Names(out.cols)
      <3>1. kept[i] = [MakeNullable(in.cols[i]) EXCEPT !.empty = TRUE]
        BY <1>1, <2>4
      <3>2. PICK c \in GuestColumns : c = in.cols[i]
        BY <2>2
      <3>3. kept[i].name = c.name /\ kept[i].type = MakeNullable(c).type
        <4>1. kept[i] = [MakeNullable(c) EXCEPT !.empty = TRUE]
          BY <3>1, <3>2
        <4>2. DOMAIN MakeNullable(c) = {"name", "type", "nullable", "empty"} /\ MakeNullable(c).name = c.name
          BY DEF MakeNullable, GuestColumns
        <4> HIDE DEF kept
        <4> QED BY <4>1, <4>2
      <3>4. in.cols[i].name \in Immutable /\ ~in.cols[i].empty => out.rows = 0
        BY <2>1, <2>4 DEF VerifyImmutability
      <3>5. out.rows > 0 => out.rows # 0
        BY DEF IsGuestBatch
      <3> HIDE DEF kept
      <3> QED BY <3>2, <3>3, <3>4, <3>5
    <2> QED BY <2>3, <2>4
  <1>9. ASSUME NEW k \in ComplianceKeys
        PROVE  /\ k \in DOMAIN in.meta <=> k \in DOMAIN res.meta
               /\ k \in DOMAIN in.meta => res.meta[k] = in.meta[k]
    <2> HIDE DEF res
    <2> QED BY <1>3 DEF MergeMetadata
  <1>10. \A i \in 1..Len(in.cols) :
          /\ i <= Len(res.cols) /\ res.cols[i].name = in.cols[i].name
          /\ res.cols[i].type \in {in.cols[i].type, MakeNullable(in.cols[i]).type}
          /\ in.cols[i].name \in Immutable /\ ~in.cols[i].empty /\ res.rows > 0
                /\ NamedOnce(out.cols, in.cols[i].name) => ~res.cols[i].empty
    <2> SUFFICES ASSUME NEW i \in 1..n
                 PROVE  /\ i <= Len(res.cols) /\ res.cols[i].name = in.cols[i].name
                        /\ res.cols[i].type \in {in.cols[i].type, MakeNullable(in.cols[i]).type}
                        /\ in.cols[i].name \in Immutable /\ ~in.cols[i].empty /\ res.rows > 0
                              /\ NamedOnce(out.cols, in.cols[i].name) => ~res.cols[i].empty
      BY <1>1
    <2> HIDE DEF res, kept
    <2>1. i <= Len(res.cols)
      <3>1. PICK m \in Nat : m = Len(kept) + Len(new)
        <4> HIDE DEF new
        <4> QED BY <1>4, <1>5
      <3>2. Len(res.cols) = m
        <4> HIDE DEF new
        <4> QED BY <1>3, <1>4, <1>5, <3>1
      <3> QED BY <1>1, <1>7, <3>2
    <2>2. res.cols[i] = kept[i] /\ res.rows = out.rows
      BY <1>3, <1>7
    <2> QED BY <1>8, <2>1, <2>2
  <1> QED
    <2> HIDE DEF res
    <2>1. KeepsIdentity("defensive", in, out, res)
      BY <1>9, <1>10 DEF KeepsIdentity, NamedOnce
    <2> QED BY <2>1 DEF res

(* What the guard lets through keeps the identity of what came in. *)
LEMMA GuardKeeps ==
    ASSUME NEW in, IsGuestBatch(in), NamesDiffer(in.cols), NEW out, IsGuestBatch(out),
           NEW m \in {"strict", "defensive"}, Guarded(m, in, out).result # "Err"
    PROVE  KeepsIdentity(m, in, out, Guarded(m, in, out).batches[1])
  <1>1. /\ VerifyImmutability(in, out)
        /\ IF m = "strict" THEN VerifyStrict(in, out) ELSE BackfillAccepts(in, out)
        /\ Guarded(m, in, out) = [result |-> "Ok", batches |-> <<IF m = "strict" THEN out ELSE Backfill(in, out)>>]
    BY DEF Guarded, GuestErr
  <1>2. Guarded(m, in, out).batches[1] = IF m = "strict" THEN out ELSE Backfill(in, out)
    BY <1>1
  <1>3. CASE m = "strict"
    BY <1>1, <1>2, <1>3, StrictKeeps
  <1>4. CASE m = "defensive"
    BY <1>1, <1>2, <1>4, BackfillKeeps
  <1> QED BY <1>3, <1>4

IsSequence(s) == s \in Seq({s[i] : i \in 1..Len(s)})

(* The batches of the outputs that decode are batches. *)
LEMMA DecodedBatches ==
    ASSUME NEW descs, IsSequence(descs),
           \A i \in 1..Len(descs) : IsDescriptor(descs[i])
    PROVE  LET outs == Decoded(descs, Len(descs))
           IN  Len(outs) \in Nat /\ \A k \in 1..Len(outs) : IsGuestBatch(outs[k])
  <1> DEFINE n == Len(descs)
             ss == [i \in 1..n |-> descs[i].batches]
             of(i) == {descs[i].batches[k] : k \in 1..Len(descs[i].batches)}
             T == UNION {of(i) : i \in 1..n}
  <1>1. n \in Nat
    BY DEF IsSequence
  <1>2. \A b \in T : IsGuestBatch(b)
    <2>1. ASSUME NEW i \in 1..n, NEW k \in 1..Len(descs[i].batches)
          PROVE  IsGuestBatch(descs[i].batches[k])
      BY DEF IsDescriptor
    <2>2. SUFFICES ASSUME NEW b \in T PROVE IsGuestBatch(b)
      OBVIOUS
    <2>3. PICK i \in 1..n : b \in of(i)
      BY <2>2
    <2>4. PICK k \in 1..Len(descs[i].batches) : b = descs[i].batches[k]
      BY <2>3
    <2> QED BY <2>1, <2>4
  <1>3. ASSUME NEW i \in 1..n PROVE descs[i].batches \in Seq(T)
    <2>1. descs[i].batches \in Seq(of(i))
      BY DEF IsDescriptor
    <2>2. of(i) \subseteq T
      OBVIOUS
    <2>3. PICK s : s = descs[i].batches
      OBVIOUS
    <2>4. PICK U : U = of(i)
      OBVIOUS
    <2> HIDE DEF T, of
    <2>5. s \in Seq(U) /\ U \subseteq T
      BY <2>1, <2>2, <2>3, <2>4
    <2>6. s \in Seq(T)
      BY <2>5
    <2> QED BY <2>3, <2>6
  <1>4. ss \in Seq(Seq(T))
    <2> HIDE DEF T
    <2> QED BY <1>1, <1>3
  <1>5. FlattenSeq(ss) \in Seq(T)
    <2> HIDE DEF T, ss
    <2> QED BY <1>4, FlattenType
  <1>6. PICK o : o = Decoded(descs, Len(descs))
    OBVIOUS
  <1>7. o \in Seq(T)
    <2> HIDE DEF T
    <2> QED BY <1>5, <1>6 DEF Decoded
  <1>8. Len(o) \in Nat /\ \A k \in 1..Len(o) : o[k] \in T
    <2> HIDE DEF T
    <2> QED BY <1>7
  <1> QED BY <1>2, <1>6, <1>8

(* An element that is kept, and is there once, is kept once. *)
LEMMA KeptOnce ==
    ASSUME NEW T, NEW s \in Seq(T), NEW S \in SUBSET (1..Len(s)), NEW b,
           NEW p \in S, s[p] = b, \A q \in S : s[q] = b => q = p
    PROVE  Cardinality({k \in 1..Len(AtPlaces(s, S)) : AtPlaces(s, S)[k] = b}) = 1
  <1>1. PICK v : v = AtPlaces(s, S)
    OBVIOUS
  <1>2. PICK c \in Nat : c = Cardinality(S)
    BY PlacesKept
  <1>3. Len(v) = c /\ Keeps(v, s, S)
    BY <1>1, <1>2, PlacesKept
  <1>4. PICK a \in [1..c -> S] :
          /\ \A k \in 1..c : v[k] = s[a[k]]
          /\ \A j, k \in 1..c : j < k => a[j] < a[k]
          /\ \A x \in S : \E k \in 1..c : a[k] = x
    BY <1>2, <1>3 DEF Keeps
  <1>5. PICK k \in 1..c : a[k] = p
    BY <1>4
  <1>6. ASSUME NEW j \in 1..c, v[j] = b PROVE j = k
    <2>1. a[j] = p
      BY <1>4, <1>6
    <2>2. p \in Int /\ ~(p < p)
      OBVIOUS
    <2>3. ~(j < k) /\ ~(k < j)
      BY <1>4, <1>5, <2>1, <2>2
    <2> QED BY <2>3
  <1>7. v[k] = b
    BY <1>4, <1>5
  <1>8. {j \in 1..Len(v) : v[j] = b} = {k}
    BY <1>3, <1>6, <1>7
  <1>9. Cardinality({k}) = 1
    BY FS_Singleton
  <1> QED BY <1>1, <1>8, <1>9

(* An element that is kept is kept at least once. *)
LEMMA KeptSome ==
    ASSUME NEW T, NEW s \in Seq(T), NEW S \in SUBSET (1..Len(s)), NEW b, NEW p \in S, s[p] = b,
           NEW v, v = AtPlaces(s, S)
    PROVE  \E c \in Nat \ {0} : c = Cardinality({k \in 1..Len(v) : v[k] = b})
  <1>1. PICK c \in Nat : c = Cardinality(S)
    BY PlacesKept
  <1>2. Len(v) = c /\ Keeps(v, s, S)
    BY <1>1, PlacesKept
  <1>3. PICK a \in [1..c -> S] :
          /\ \A k \in 1..c : v[k] = s[a[k]]
          /\ \A x \in S : \E k \in 1..c : a[k] = x
    BY <1>1, <1>2 DEF Keeps
  <1>4. PICK k \in 1..c : v[k] = b
    BY <1>3
  <1> DEFINE K == {j \in 1..Len(v) : v[j] = b}
  <1>5. K \subseteq 1..c /\ K # {}
    BY <1>2, <1>4
  <1> HIDE DEF K
  <1>6. IsFiniteSet(K)
    <2>1. 1 \in Int /\ c \in Int
      OBVIOUS
    <2>2. PICK I : I = 1..c
      OBVIOUS
    <2>3. IsFiniteSet(I)
      BY <2>1, <2>2, FS_Interval
    <2> QED BY <1>5, <2>2, <2>3, FS_Subset
  <1>7. Cardinality(K) \in Nat \ {0}
    BY <1>5, <1>6, FS_CardinalityType, FS_EmptySet
  <1> QED BY <1>7 DEF K

(* Three buffers in a row. *)
LEMMA Triple ==
    ASSUME NEW T, NEW x \in T, NEW y \in T, NEW z \in T, NEW h, h = <<x, y, z>>
    PROVE  h \in Seq(T) /\ Len(h) = 3 /\ h[1] = x /\ h[2] = y /\ h[3] = z
  OBVIOUS

(* The buffers that a call may give back, in their order. *)
LEMMA Refs ==
    ASSUME NEW T, NEW x \in T, NEW y \in T, NEW z \in T, NEW tab \in Seq(T), NEW outs \in Seq(T)
    PROVE  LET refs == <<x, y, z>> \o tab \o outs
           IN  /\ refs \in Seq(T) /\ Len(refs) = 3 + Len(tab) + Len(outs)
               /\ Len(tab) \in Nat /\ Len(outs) \in Nat
               /\ refs[1] = x /\ refs[2] = y /\ refs[3] = z
               /\ \A i \in 1..Len(tab) : refs[3 + i] = tab[i]
               /\ \A i \in 1..Len(outs) : refs[3 + Len(tab) + i] = outs[i]
  <1>1. PICK h \in Seq(T) : h = <<x, y, z>>
    <2>1. PICK k : k = <<x, y, z>>
      OBVIOUS
    <2> QED BY <2>1, Triple
  <1>2. Len(h) = 3 /\ h[1] = x /\ h[2] = y /\ h[3] = z
    BY <1>1, Triple
  <1>3. PICK g \in Seq(T) : g = h \o tab
    BY ConcatProperties
  <1>4. /\ g \in Seq(T) /\ Len(g) = 3 + Len(tab) /\ Len(tab) \in Nat
        /\ \A i \in 1..3 : g[i] = h[i]
        /\ \A i \in 1..Len(tab) : g[3 + i] = tab[i]
    <2>1. /\ g \in Seq(T) /\ Len(g) = Len(h) + Len(tab) /\ Len(h) \in Nat /\ Len(tab) \in Nat
          /\ \A i \in 1..Len(h) : g[i] = h[i]
          /\ \A i \in 1..Len(tab) : g[Len(h) + i] = tab[i]
      BY <1>3
    <2> QED BY <1>2, <2>1
  <1>5. PICK r \in Seq(T) : r = g \o outs
    BY ConcatProperties
  <1>6. /\ r \in Seq(T) /\ Len(r) = Len(g) + Len(outs) /\ Len(outs) \in Nat /\ Len(g) \in Nat
        /\ \A i \in 1..Len(g) : r[i] = g[i]
        /\ \A i \in 1..Len(outs) : r[Len(g) + i] = outs[i]
    BY <1>5
  <1>7. r[1] = x /\ r[2] = y /\ r[3] = z
    BY <1>2, <1>4, <1>6
  <1>8. \A i \in 1..Len(tab) : r[3 + i] = tab[i]
    BY <1>4, <1>6
  <1>9. r = <<x, y, z>> \o tab \o outs
    BY <1>1, <1>3, <1>5
  <1> QED BY <1>4, <1>6, <1>7, <1>8, <1>9

(* When every descriptor decodes, all outputs but the input's own buffer are taken. *)
LEMMA AllTaken ==
    ASSUME NEW descs, IsSequence(descs),
           \A i \in 1..Len(descs) : ~DescriptorFails(descs, i)
    PROVE  OutputsTaken(descs) =
             AtPlaces([i \in 1..Len(descs) |-> descs[i].buf], {i \in 1..Len(descs) : descs[i].buf # "ipc"})
  <1> DEFINE Ends(n) == /\ \A i \in 1..n : ~DescriptorFails(descs, i)
                        /\ n = Len(descs) \/ DescriptorFails(descs, n + 1)
             n == CHOOSE n \in 0..Len(descs) : Ends(n)
             last == IF n < Len(descs) /\ SizeOf(descs, n + 1) <= OutputLimit THEN n + 1 ELSE n
  <1>1. Len(descs) \in Nat
    BY DEF IsSequence
  <1>2. Ends(Len(descs)) /\ Len(descs) \in 0..Len(descs)
    BY <1>1
  <1>3. \A k \in 0..Len(descs) : Ends(k) => k = Len(descs)
    BY <1>1
  <1>4. n = Len(descs)
    <2> HIDE DEF Ends
    <2> QED BY <1>2, <1>3
  <1>5. OutputsTaken(descs) = AtPlaces([i \in 1..last |-> descs[i].buf], {i \in 1..last : descs[i].buf # "ipc"})
    BY DEF OutputsTaken
  <1> HIDE DEF n
  <1>6. last = Len(descs)
    BY <1>1, <1>4
  <1> HIDE DEF last
  <1> QED BY <1>5, <1>6

(* The outputs that are taken: each descriptor's once, none of them the input's. *)
DescribesOutputs(resp) ==
    IsSequence(resp.descs) /\ \A i \in 1..Len(resp.descs) : IsDescriptor(resp.descs[i])

IsTakenFrom(a, descs, outs) ==
    /\ \A k \in 1..Len(outs) :
         /\ a[k] \in 1..Len(descs) /\ outs[k] = descs[a[k]].buf
         /\ outs[k] \notin NoBuffers \union {"ipc"}
    /\ \A j, k \in 1..Len(outs) : a[j] = a[k] => j = k
    /\ \A i \in 1..Len(descs) : descs[i].buf # "ipc" => \E k \in 1..Len(outs) : a[k] = i

LEMMA TakenOnce ==
    ASSUME NEW resp, DescribesOutputs(resp), OutputsExtract(resp),
           NEW outs, outs = OutputsTaken(resp.descs)
    PROVE  outs \in Seq(STRING) /\ \E a : IsTakenFrom(a, resp.descs, outs)
  <1>1. PICK d : d = resp.descs
    OBVIOUS
  <1>2. PICK n \in Nat : n = Len(d)
    BY <1>1 DEF IsSequence, DescribesOutputs
  <1> DEFINE bufs == [i \in 1..n |-> d[i].buf]
             S == {i \in 1..n : d[i].buf # "ipc"}
  <1>3. \A i \in 1..n : d[i].buf \in STRING /\ d[i].buf \notin NoBuffers
    BY <1>1, <1>2 DEF OutputsExtract, DescriptorFails, IsDescriptor, DescribesOutputs
  <1>4. bufs \in Seq(STRING) /\ Len(bufs) = n /\ S \in SUBSET (1..Len(bufs))
    BY <1>2, <1>3
  <1>5. outs = AtPlaces(bufs, S)
    BY <1>1, <1>2, AllTaken DEF OutputsExtract, DescribesOutputs
  <1>6. \A i \in 1..n : bufs[i] = d[i].buf
    OBVIOUS
  <1>7. \A i \in S : i \in 1..n /\ d[i].buf # "ipc"
    OBVIOUS
  <1>8. \A i \in 1..n : d[i].buf # "ipc" => i \in S
    OBVIOUS
  <1> HIDE DEF bufs, S
  <1>9. PICK c \in Nat : c = Cardinality(S)
    BY <1>4, PlacesKept
  <1>10. outs \in Seq(STRING) /\ Len(outs) = c /\ Keeps(outs, bufs, S)
    BY <1>4, <1>5, <1>9, PlacesKept
  <1>11. PICK a \in [1..c -> S] :
          /\ \A k \in 1..c : outs[k] = bufs[a[k]]
          /\ \A j, k \in 1..c : j < k => a[j] < a[k]
          /\ \A x \in S : \E k \in 1..c : a[k] = x
    BY <1>9, <1>10 DEF Keeps
  <1>12. ASSUME NEW k \in 1..c
         PROVE  /\ a[k] \in 1..n /\ outs[k] = d[a[k]].buf /\ outs[k] \notin NoBuffers \union {"ipc"}
    <2>1. PICK i \in S : i = a[k] /\ outs[k] = bufs[i]
      BY <1>11, Zenon
    <2>2. i \in 1..n /\ outs[k] = d[i].buf /\ d[i].buf # "ipc" /\ d[i].buf \notin NoBuffers
      BY <1>3, <1>6, <1>7, <2>1, Zenon
    <2> QED BY <2>1, <2>2, Zenon
  <1>13. ASSUME NEW j \in 1..c, NEW k \in 1..c, a[j] = a[k] PROVE j = k
    <2>1. a[j] \in Nat /\ ~(a[j] < a[j])
      BY <1>12
    <2> QED BY <1>11, <1>13, <2>1
  <1>14. ASSUME NEW i \in 1..n, d[i].buf # "ipc" PROVE \E k \in 1..c : a[k] = i
    BY <1>8, <1>11, <1>14
  <1>15. IsTakenFrom(a, resp.descs, outs)
    BY <1>1, <1>2, <1>10, <1>12, <1>13, <1>14 DEF IsTakenFrom
  <1> QED BY <1>10, <1>15

(* After a call that is answered, each buffer that was handed over is given back, and *)
(* once if it was handed over once.                                                   *)
LEMMA FreedOnce ==
    ASSUME NEW resp, IsSequence(resp.descs), \A i \in 1..Len(resp.descs) : IsDescriptor(resp.descs[i]),
           {resp.header, resp.message, resp.table} \subseteq STRING, ~resp.trap, HeaderIsReadable(resp),
           resp.status = 0 /\ resp.descs # << >> => resp.table \notin NoBuffers /\ OutputsExtract(resp),
           NEW h \in HandedOver(resp), h[3] \notin NoBuffers
    PROVE  LET times == Cardinality({i \in 1..Len(FreedBuffers(resp)) : FreedBuffers(resp)[i] = h[3]})
           IN  /\ times >= 1
               /\ (\A g \in HandedOver(resp) : g[3] = h[3] => g = h) => times = 1
  <1>1. PICK d : d = resp.descs
    OBVIOUS
  <1>2. PICK n \in Nat : n = Len(d)
    BY <1>1 DEF IsSequence
  <1>3. PICK tab : tab = IF d = << >> THEN << >> ELSE <<resp.table>>
    OBVIOUS
  <1>4. PICK outs : outs = IF resp.status = 0 /\ d # << >> THEN OutputsTaken(d) ELSE << >>
    OBVIOUS
  <1> DEFINE refs == <<"ipc", resp.header, resp.message>> \o tab \o outs
             S == {i \in 1..Len(refs) : refs[i] \notin NoBuffers}
  <1>5. {resp.header, resp.message, resp.table} \subseteq STRING
    OBVIOUS
  <1>6. /\ tab \in Seq(STRING) /\ Len(tab) \in {0, 1}
        /\ Len(tab) = 1 <=> d # << >>
        /\ \A i \in 1..Len(tab) : tab[i] = resp.table
    <2>1. PICK x \in STRING : x = resp.table
      BY <1>5
    <2>2. CASE d = << >>
      <3>1. tab = << >>
        BY <1>3, <2>2
      <3>2. tab \in Seq(STRING) /\ Len(tab) = 0
        BY <3>1
      <3> QED BY <2>2, <3>2
    <2>3. CASE d # << >>
      <3>1. tab = <<x>>
        BY <1>3, <2>1, <2>3
      <3>2. tab \in Seq(STRING) /\ Len(tab) = 1 /\ tab[1] = x
        BY <3>1
      <3> QED BY <2>1, <2>3, <3>2
    <2> QED BY <2>2, <2>3
  <1>7. /\ outs \in Seq(STRING) /\ Len(outs) \in Nat
        /\ outs # << >> => resp.status = 0 /\ d # << >>
        /\ \E a : IsTakenFrom(a, d, outs) \/ (outs = << >> /\ resp.status # 0)
    <2>1. CASE resp.status = 0 /\ d # << >>
      <3>1. outs = OutputsTaken(resp.descs) /\ OutputsExtract(resp)
        BY <1>1, <1>4, <2>1
      <3>2. outs \in Seq(STRING) /\ \E a : IsTakenFrom(a, d, outs)
        <4>1. DescribesOutputs(resp)
          BY DEF DescribesOutputs
        <4> QED BY <1>1, <3>1, <4>1, TakenOnce
      <3>3. Len(outs) \in Nat
        BY <3>2
      <3> QED BY <2>1, <3>2, <3>3
    <2>2. CASE ~(resp.status = 0 /\ d # << >>)
      <3>1. outs = << >> /\ (resp.status = 0 => n = 0)
        BY <1>2, <1>4, <2>2
      <3>2. outs \in Seq(STRING) /\ Len(outs) = 0
        BY <3>1
      <3>3. ASSUME NEW a, n = 0 PROVE IsTakenFrom(a, d, outs)
        BY <1>2, <3>2, <3>3 DEF IsTakenFrom
      <3> QED BY <3>1, <3>2, <3>3
    <2> QED BY <2>1, <2>2
  <1>8. FreedBuffers(resp) = AtPlaces(refs, S)
    <2>1. (resp.status = 0 /\ d # << >>) <=>
             (resp.status = 0 /\ resp.descs # << >> /\ resp.table \notin NoBuffers
                /\ Len(resp.descs) <= GuestBatchLimit)
      BY <1>1 DEF OutputsExtract
    <2>2. FreedBuffers(resp) = Freeable(refs)
      BY <1>1, <1>3, <1>4, <2>1 DEF FreedBuffers
    <2> QED BY <2>2 DEF Freeable
  <1>9. /\ refs \in Seq(STRING \union {"ipc"}) /\ Len(refs) = 3 + Len(tab) + Len(outs)
        /\ refs[1] = "ipc" /\ refs[2] = resp.header /\ refs[3] = resp.message
        /\ \A i \in 1..Len(tab) : refs[3 + i] = tab[i]
        /\ \A i \in 1..Len(outs) : refs[3 + Len(tab) + i] = outs[i]
    <2>1. PICK y \in STRING, z \in STRING : y = resp.header /\ z = resp.message
      BY <1>5
    <2>a. PICK T : T = STRING \union {"ipc"}
      OBVIOUS
    <2>b. PICK x \in T : x = "ipc"
      BY <2>a
    <2>c. y \in T /\ z \in T /\ tab \in Seq(T) /\ outs \in Seq(T)
      <3>1. STRING \subseteq T
        BY <2>a
      <3>2. y \in T /\ z \in T
        BY <2>1, <3>1
      <3>3. PICK U : U = STRING
        OBVIOUS
      <3>4. tab \in Seq(U) /\ outs \in Seq(U) /\ U \subseteq T
        BY <1>6, <1>7, <3>1, <3>3
      <3>5. tab \in Seq(T)
        BY <3>4
      <3>6. outs \in Seq(T)
        BY <3>4
      <3> QED BY <3>2, <3>5, <3>6
    <2>2. PICK r : r = <<x, y, z>> \o tab \o outs
      OBVIOUS
    <2>d. /\ r \in Seq(T) /\ Len(r) = 3 + Len(tab) + Len(outs)
          /\ r[1] = x /\ r[2] = y /\ r[3] = z
          /\ \A i \in 1..Len(tab) : r[3 + i] = tab[i]
          /\ \A i \in 1..Len(outs) : r[3 + Len(tab) + i] = outs[i]
      BY <2>c, <2>2, Refs
    <2>3. /\ r \in Seq(STRING \union {"ipc"}) /\ Len(r) = 3 + Len(tab) + Len(outs)
          /\ r[1] = "ipc" /\ r[2] = y /\ r[3] = z
          /\ \A i \in 1..Len(tab) : r[3 + i] = tab[i]
          /\ \A i \in 1..Len(outs) : r[3 + Len(tab) + i] = outs[i]
      BY <2>a, <2>b, <2>d
    <2>4. r = refs
      BY <2>1, <2>2, <2>b
    <2> HIDE DEF refs
    <2> QED BY <2>1, <2>3, <2>4
  <1>10. \A i \in S : i \in 1..Len(refs) /\ refs[i] \notin NoBuffers
    OBVIOUS
  <1>11. \A i \in 1..Len(refs) : refs[i] \notin NoBuffers => i \in S
    OBVIOUS
  <1>12. S \in SUBSET (1..Len(refs))
    OBVIOUS
  <1> HIDE DEF refs, S
  <1>13. PICK t \in {0, 1} : t = Len(tab)
    BY <1>6
  <1>14. PICK m \in Nat : m = Len(outs)
    BY <1>7
  <1> DEFINE H == HandedOver(resp)
  <1>a. PICK a : IsTakenFrom(a, d, outs) \/ (outs = << >> /\ resp.status # 0)
    BY <1>7
  <1>15. /\ \A k \in 1..m : a[k] \in 1..n /\ outs[k] = d[a[k]].buf /\ outs[k] # "ipc"
         /\ \A j, k \in 1..m : a[j] = a[k] => j = k
         /\ resp.status = 0 => \A i \in 1..n : d[i].buf # "ipc" => \E k \in 1..m : a[k] = i
    <2>1. CASE IsTakenFrom(a, d, outs)
      BY <1>2, <1>14, <2>1 DEF IsTakenFrom
    <2>2. CASE outs = << >> /\ resp.status # 0
      <3>1. m = 0
        BY <1>14, <2>2
      <3> QED BY <2>2, <3>1
    <2> QED BY <1>a, <2>1, <2>2
  <1> DEFINE At(p, g) == \/ p = 1 /\ g = <<"input", 0, "ipc">>
                         \/ p = 2 /\ g = <<"header", 0, resp.header>>
                         \/ p = 3 /\ g = <<"message", 0, resp.message>>
                         \/ p = 4 /\ t = 1 /\ g = <<"table", 0, resp.table>>
                         \/ \E k \in 1..m : p = 3 + t + k /\ g = <<"output", a[k], outs[k]>>
  <1>16. ASSUME NEW p \in 1..Len(refs) PROVE \E g \in H : At(p, g) /\ g[3] = refs[p]
    <2>1. p \in 1..(3 + t + m)
      BY <1>9, <1>13, <1>14
    <2>2. CASE p = 1
      <3>1. PICK g : g = <<"input", 0, "ipc">>
        OBVIOUS
      <3>2. g \in H
        BY <3>1 DEF HandedOver
      <3>3. At(p, g) /\ g[3] = refs[p]
        BY <1>9, <2>2, <3>1
      <3> QED BY <3>2, <3>3
    <2>3. CASE p = 2
      <3>1. PICK g : g = <<"header", 0, resp.header>>
        OBVIOUS
      <3>2. g \in H
        BY <3>1 DEF HandedOver
      <3>3. At(p, g) /\ g[3] = refs[p]
        BY <1>9, <2>3, <3>1
      <3> QED BY <3>2, <3>3
    <2>4. CASE p = 3
      <3>1. PICK g : g = <<"message", 0, resp.message>>
        OBVIOUS
      <3>2. g \in H
        BY <3>1 DEF HandedOver
      <3>3. At(p, g) /\ g[3] = refs[p]
        BY <1>9, <2>4, <3>1
      <3> QED BY <3>2, <3>3
    <2>5. CASE p = 4 /\ t = 1
      <3>1. 1 \in 1..Len(tab) /\ resp.descs # << >>
        BY <1>1, <1>6, <1>13, <2>5
      <3>2. refs[3 + 1] = tab[1] /\ tab[1] = resp.table
        BY <1>6, <1>9, <3>1
      <3>3. <<"table", 0, resp.table>> \in H
        BY <3>1 DEF HandedOver
      <3> QED BY <2>5, <3>2, <3>3
    <2>6. CASE p > 3 + t
      <3>1. PICK k \in 1..m : p = 3 + t + k
        <4>1. p - 3 - t \in 1..m /\ p = 3 + t + (p - 3 - t)
          BY <2>1, <2>6
        <4> QED BY <4>1
      <3>2. refs[3 + t + k] = outs[k]
        BY <1>9, <1>13, <1>14
      <3>3. resp.status = 0
        <4>1. Len(outs) # 0
          BY <1>14
        <4>2. outs # << >>
          BY <4>1
        <4> QED BY <1>7, <4>2
      <3>4. PICK g : g = <<"output", a[k], outs[k]>>
        OBVIOUS
      <3>5. g \in H
        <4>1. PICK i \in 1..Len(resp.descs) : i = a[k] /\ resp.descs[i].buf = outs[k] /\ resp.descs[i].buf # "ipc"
          BY <1>1, <1>2, <1>15
        <4>2. g = <<"output", i, resp.descs[i].buf>>
          BY <3>4, <4>1
        <4> QED BY <3>3, <4>1, <4>2 DEF HandedOver
      <3>6. At(p, g) /\ g[3] = refs[p]
        BY <3>1, <3>2, <3>4
      <3> QED BY <3>5, <3>6
    <2> QED BY <2>1, <2>2, <2>3, <2>4, <2>5, <2>6
  <1>17. PICK p \in 1..Len(refs) : At(p, h) /\ refs[p] = h[3]
    <2>1. \A q \in 1..4 : q <= 3 + t => q \in 1..Len(refs)
      BY <1>9, <1>13, <1>14
    <2>2. CASE h = <<"input", 0, "ipc">>
      BY <1>9, <2>1, <2>2
    <2>3. CASE h = <<"header", 0, resp.header>>
      BY <1>9, <2>1, <2>3
    <2>4. CASE h = <<"message", 0, resp.message>>
      BY <1>9, <2>1, <2>4
    <2>5. CASE d # << >> /\ h = <<"table", 0, resp.table>>
      <3>1. t = 1 /\ 4 \in 1..Len(refs) /\ 1 \in 1..Len(tab)
        BY <1>6, <1>13, <2>1, <2>5
      <3>2. refs[3 + 1] = resp.table
        BY <1>6, <1>9, <3>1
      <3> QED BY <2>5, <3>1, <3>2
    <2>6. ASSUME resp.status = 0, NEW i \in 1..n, d[i].buf # "ipc", h = <<"output", i, d[i].buf>>
          PROVE  \E q \in 1..Len(refs) : At(q, h) /\ refs[q] = h[3]
      <3>1. PICK k \in 1..m : a[k] = i
        BY <1>15, <2>6
      <3>2. outs[k] = d[i].buf
        BY <1>15, <3>1
      <3>3. refs[3 + t + k] = outs[k]
        BY <1>9, <1>13, <1>14
      <3>4. 3 + t + k \in 1..Len(refs)
        BY <1>9, <1>13, <1>14
      <3>5. At(3 + t + k, h) /\ h[3] = outs[k]
        BY <2>6, <3>1, <3>2
      <3> QED BY <3>3, <3>4, <3>5
    <2> QED BY <1>1, <1>2, <2>2, <2>3, <2>4, <2>5, <2>6 DEF HandedOver
  <1>18. ASSUME \A g \in H : g[3] = h[3] => g = h, NEW q \in 1..Len(refs), refs[q] = h[3]
         PROVE  q = p
    <2>1. PICK g \in H : At(q, g) /\ g[3] = refs[q]
      BY <1>16
    <2>2. At(q, h) /\ At(p, h)
      BY <1>17, <1>18, <2>1
    <2> QED BY <1>15, <2>2
  <1>19. p \in S
    BY <1>11, <1>17
  <1>b. PICK T : T = STRING \union {"ipc"}
    OBVIOUS
  <1>20. PICK r \in Seq(T) : r = refs
    BY <1>9, <1>b
  <1>21. PICK P \in SUBSET (1..Len(r)) : P = S
    BY <1>12, <1>20
  <1>22. p \in P /\ r[p] = h[3]
    BY <1>17, <1>19, <1>20, <1>21
  <1>23. Cardinality({i \in 1..Len(AtPlaces(r, P)) : AtPlaces(r, P)[i] = h[3]}) >= 1
    <2>1. PICK b, v : b = h[3] /\ v = AtPlaces(r, P)
      OBVIOUS
    <2>2. r[p] = b
      BY <1>22, <2>1
    <2>3. PICK c \in Nat \ {0} : c = Cardinality({k \in 1..Len(v) : v[k] = b})
      BY <1>22, <2>1, <2>2, KeptSome
    <2> QED BY <2>1, <2>3
  <1>24. ASSUME \A g \in H : g[3] = h[3] => g = h
         PROVE  Cardinality({i \in 1..Len(AtPlaces(r, P)) : AtPlaces(r, P)[i] = h[3]}) = 1
    <2>1. \A q \in P : r[q] = h[3] => q = p
      BY <1>10, <1>18, <1>20, <1>21, <1>24
    <2> QED BY <1>22, <2>1, KeptOnce
  <1> QED BY <1>8, <1>20, <1>21, <1>23, <1>24

(* What the host makes of an answer, for every job that is asked. *)
LEMMA AnswerIsHeld ==
    ASSUME NEW j \in GuestJobs
    PROVE  GuestIsHeld(j.mode, j.batch, j.response, ExecuteBatch(j.mode, j.batch, j.response))
  <1>1. PICK m \in {"strict", "defensive"} : m = j.mode
    BY GuestJobsAssumption
  <1>2. PICK in : in = j.batch
    OBVIOUS
  <1>3. PICK resp : resp = j.response
    OBVIOUS
  <1>4. IsGuestBatch(in) /\ NamesDiffer(in.cols)
    BY <1>2, GuestJobsAssumption DEF NamesDiffer
  <1>5. /\ IsSequence(resp.descs) /\ \A i \in 1..Len(resp.descs) : IsDescriptor(resp.descs[i])
        /\ resp.status \in Nat /\ {resp.header, resp.message, resp.table} \subseteq STRING
    BY <1>3, GuestJobsAssumption DEF IsSequence
  <1>6. PICK outs : outs = Decoded(resp.descs, Len(resp.descs))
    OBVIOUS
  <1>7. Len(outs) \in Nat /\ \A k \in 1..Len(outs) : IsGuestBatch(outs[k])
    BY <1>5, <1>6, DecodedBatches
  <1>8. PICK out : out = ExecuteBatch(m, in, resp)
    OBVIOUS
  <1>9. PICK o : o = DispatchOutcome(m, in, resp)
    OBVIOUS
  <1>10. out.freed = FreedBuffers(resp)
    BY <1>8 DEF ExecuteBatch
  <1>11. \/ out.result = "Err" /\ out.batches = << >>
         \/ /\ ~resp.trap /\ HeaderIsReadable(resp)
            /\ out.result = o.result /\ out.batches = o.batches
    BY <1>8, <1>9 DEF ExecuteBatch, GuestErr
  <1>12. \/ o.result = "Err" /\ o.batches = << >>
         \/ /\ o.batches = << >>
            /\ resp.status = 0 => resp.descs = << >>
         \/ /\ resp.table # "null" /\ OutputsExtract(resp)
            /\ \A i \in 1..Len(outs) : Guarded(m, in, outs[i]).result # "Err"
            /\ o.batches = [i \in 1..Len(outs) |-> Guarded(m, in, outs[i]).batches[1]]
    <2>1. CASE resp.status = 1
      BY <1>9, <2>1 DEF DispatchOutcome
    <2>2. CASE resp.status = 2
      BY <1>9, <2>2 DEF DispatchOutcome
    <2>3. CASE resp.status >= 3
      BY <1>9, <2>3 DEF DispatchOutcome
    <2>4. CASE resp.status = 0 /\ resp.descs = << >>
      BY <1>9, <2>4 DEF DispatchOutcome
    <2>5. CASE resp.status = 0 /\ resp.descs # << >>
      BY <1>6, <1>9, <2>5 DEF DispatchOutcome, GuestErr
    <2> QED BY <1>5, <2>1, <2>2, <2>3, <2>4, <2>5
  <1>13. out.batches # << >> =>
           /\ \A k \in 1..Len(outs) : Guarded(m, in, outs[k]).result # "Err"
           /\ out.batches = [k \in 1..Len(outs) |-> Guarded(m, in, outs[k]).batches[1]]
    BY <1>11, <1>12
  <1>14. out.batches # << >> => Len(out.batches) = Len(outs)
    BY <1>7, <1>13
  <1>15. ASSUME NEW i \in 1..Len(out.batches) PROVE KeepsIdentity(m, in, outs[i], out.batches[i])
    <2>1. out.batches # << >>
      BY <1>15
    <2>2. /\ \A k \in 1..Len(outs) : Guarded(m, in, outs[k]).result # "Err"
          /\ out.batches = [k \in 1..Len(outs) |-> Guarded(m, in, outs[k]).batches[1]]
      BY <1>13, <2>1
    <2>3. i \in 1..Len(outs) /\ out.batches[i] = Guarded(m, in, outs[i]).batches[1]
      BY <1>7, <2>2
    <2>4. PICK b : b = outs[i]
      OBVIOUS
    <2>5. IsGuestBatch(b) /\ Guarded(m, in, b).result # "Err"
      BY <1>7, <2>2, <2>3, <2>4
    <2>6. KeepsIdentity(m, in, b, Guarded(m, in, b).batches[1])
      BY <1>4, <2>5, GuardKeeps
    <2> QED BY <2>3, <2>4, <2>6
  <1>16. ASSUME out.result # "Err", NEW h \in HandedOver(resp), h[3] \notin NoBuffers
         PROVE  LET times == Cardinality({i \in 1..Len(out.freed) : out.freed[i] = h[3]})
                IN  /\ times >= 1
                    /\ (\A g \in HandedOver(resp) : g[3] = h[3] => g = h) => times = 1
    <2>1. ~resp.trap /\ HeaderIsReadable(resp) /\ o.result # "Err"
      BY <1>11, <1>16
    <2>2. resp.status = 0 /\ resp.descs # << >> => resp.table \notin NoBuffers /\ OutputsExtract(resp)
      BY <1>12, <2>1 DEF OutputsExtract, NoBuffers
    <2> QED BY <1>5, <1>10, <1>16, <2>1, <2>2, FreedOnce
  <1>17. GuestIsHeld(m, in, resp, out)
    BY <1>6, <1>14, <1>15, <1>16 DEF GuestIsHeld
  <1> QED BY <1>1, <1>2, <1>3, <1>8, <1>17

(* Only batches that keep their identity leave execute_batch, and an instance that  *)
(* is used again got back every buffer that its answer hands over, exactly once if   *)
(* the answer hands it over once.  The guest may repeat, leave out or misplace any   *)
(* reference and any column; a core column it gives several times may come out       *)
(* wiped, and a buffer it names several times is freed as often.                     *)
THEOREM GuestsAreContained == GuestSpec => []GuestIsContained
  <1> DEFINE Held == /\ job \in GuestJobs
                     /\ \/ answer = << >>
                        \/ answer = <<ExecuteBatch(job.mode, job.batch, job.response)>>
  <1>1. Asked(GuestJobs) => Held
    BY DEF Asked
  <1>2. Held /\ [AnswerGuest]_jobVars => Held'
    BY DEF AnswerGuest, Answer, jobVars
  <1>3. Held => GuestIsContained
    <2> SUFFICES ASSUME Held, Done("guest")
                 PROVE  GuestIsHeld(job.mode, job.batch, job.response, answer[1])
      BY DEF GuestIsContained
    <2>1. answer = <<ExecuteBatch(job.mode, job.batch, job.response)>>
      BY DEF Done
    <2>2. PICK a : a = ExecuteBatch(job.mode, job.batch, job.response)
      OBVIOUS
    <2>3. answer[1] = a
      BY <2>1, <2>2
    <2> QED BY <2>2, <2>3, AnswerIsHeld
  <1> QED BY <1>1, <1>2, <1>3, PTL DEF GuestSpec

-----------------------------------------------------------------------------
(* The start                                                                *)

(* The sets of places that the matching goes through, for what is left of the *)
(* pattern.                                                                   *)
GoesBack(f, p, t, m) ==
    /\ f[0] = {Len(t)}
    /\ \A i \in 1..m : f[i] = MatchBefore(p[Len(p) - i + 1], t, f[i - 1])

(* The recursion of pattern_matches is well defined. *)
LEMMA MatchGoesBack ==
    ASSUME NEW p, NEW t, Len(p) \in Nat, Len(t) \in Nat
    PROVE  \E f \in [0..Len(p) -> SUBSET (0..Len(t))] :
               GoesBack(f, p, t, Len(p)) /\ (MatchRecursive(p, t) <=> 0 \in f[Len(p)])
  <1>1. PICK n \in Nat : n = Len(p)
    OBVIOUS
  <1> DEFINE Sets == SUBSET (0..Len(t))
             Known(m) == \E f \in [0..m -> Sets] : GoesBack(f, p, t, m)
  <1>2. \A c, rest : MatchBefore(c, t, rest) \in Sets
    BY DEF MatchBefore
  <1>3. {Len(t)} \in Sets
    OBVIOUS
  <1>4. Known(n)
    <2> SUFFICES ASSUME ~Known(n) PROVE FALSE
      OBVIOUS
    <2> DEFINE Bad == {m \in 0..n : ~Known(m)}
    <2> HIDE DEF Known, Sets
    <2>1. Bad \in SUBSET Nat /\ Bad # {}
      BY <1>1
    <2>2. PICK m \in Bad : \A k \in Bad : m <= k
      BY <2>1, LeastOf
    <2>3. m \in 0..n /\ ~Known(m)
      BY <2>2
    <2>4. CASE m = 0
      <3> DEFINE f == [i \in 0..0 |-> {Len(t)}]
      <3>1. f \in [0..m -> Sets] /\ GoesBack(f, p, t, m)
        BY <1>3, <2>4 DEF GoesBack
      <3> QED BY <2>3, <3>1 DEF Known
    <2>5. CASE m # 0
      <3>1. m - 1 \in 0..n /\ ~(m <= m - 1) /\ m \in Nat
        BY <1>1, <2>3, <2>5
      <3>2. Known(m - 1)
        BY <2>2, <3>1
      <3>3. PICK g \in [0..(m - 1) -> Sets] : GoesBack(g, p, t, m - 1)
        BY <3>2 DEF Known
      <3>4. PICK last \in Sets : last = MatchBefore(p[Len(p) - m + 1], t, g[m - 1])
        BY <1>2
      <3> DEFINE f == [i \in 0..m |-> IF i = m THEN last ELSE g[i]]
      <3>5. \A i \in 0..m : i # m => i \in 0..(m - 1)
        BY <3>1
      <3>6. f \in [0..m -> Sets]
        BY <3>3, <3>4, <3>5
      <3>7. f[0] = {Len(t)}
        BY <2>5, <3>1, <3>3 DEF GoesBack
      <3>8. ASSUME NEW i \in 1..m PROVE f[i] = MatchBefore(p[Len(p) - i + 1], t, f[i - 1])
        <4>1. i - 1 \in 0..(m - 1) /\ i - 1 # m /\ i - 1 \in 0..m /\ i \in 0..m
          BY <3>1
        <4>2. f[i - 1] = g[i - 1]
          BY <4>1
        <4>3. CASE i = m
          BY <3>4, <4>1, <4>2, <4>3
        <4>4. CASE i # m
          <5>1. i \in 1..(m - 1) /\ f[i] = g[i]
            BY <3>1, <4>1, <4>4
          <5> QED BY <3>3, <4>2, <5>1 DEF GoesBack
        <4> QED BY <4>3, <4>4
      <3>9. GoesBack(f, p, t, m)
        BY <3>7, <3>8 DEF GoesBack
      <3> QED BY <2>3, <3>6, <3>9 DEF Known
    <2> QED BY <2>4, <2>5
  <1> DEFINE F == CHOOSE f : f = [left \in 0..Len(p) |->
                    IF left = 0 THEN {Len(t)} ELSE MatchBefore(p[Len(p) - left + 1], t, f[left - 1])]
  <1>5. MatchRecursive(p, t) <=> 0 \in F[Len(p)]
    BY DEF MatchRecursive
  <1>6. F = [left \in 0..Len(p) |->
                    IF left = 0 THEN {Len(t)} ELSE MatchBefore(p[Len(p) - left + 1], t, F[left - 1])]
    <2>1. PICK f \in [0..n -> Sets] : GoesBack(f, p, t, n)
      BY <1>4
    <2>2. f = [left \in 0..Len(p) |->
                    IF left = 0 THEN {Len(t)} ELSE MatchBefore(p[Len(p) - left + 1], t, f[left - 1])]
      BY <1>1, <2>1 DEF GoesBack
    <2> QED BY <2>2
  <1> HIDE DEF F, Sets
  <1>7. F[0] = {Len(t)} /\ \A i \in 1..n : F[i] = MatchBefore(p[Len(p) - i + 1], t, F[i - 1])
    <2>1. F[0] = {Len(t)}
      BY <1>1, <1>6
    <2>2. ASSUME NEW i \in 1..n PROVE F[i] = MatchBefore(p[Len(p) - i + 1], t, F[i - 1])
      <3>1. i \in 0..Len(p) /\ i # 0
        BY <1>1
      <3>2. F[i] = IF i = 0 THEN {Len(t)} ELSE MatchBefore(p[Len(p) - i + 1], t, F[i - 1])
        BY <1>6, <3>1, Zenon
      <3> QED BY <3>1, <3>2
    <2> QED BY <2>1, <2>2
  <1>8. F \in [0..n -> Sets]
    <2>1. \A i \in 0..n : i # 0 => i \in 1..n
      BY <1>1
    <2>2. \A i \in 0..n : F[i] \in Sets
      BY <1>2, <1>3, <1>7, <2>1, ZenonT(60)
    <2> QED BY <1>1, <1>6, <2>2
  <1> QED BY <1>1, <1>5, <1>7, <1>8 DEF GoesBack, Sets

(* One piece of a cover. *)
Piece(p, t, cut, i) ==
    CASE p[i] = "*" -> cut[i - 1] <= cut[i]
      [] p[i] = "?" -> cut[i] = cut[i - 1] + 1
      [] OTHER -> cut[i] = cut[i - 1] + 1 /\ t[cut[i]] = p[i]

(* A place from which the pattern matches begins a cover of the rest. *)
LEMMA MatchCovers ==
    ASSUME NEW p, NEW t, Len(p) \in Nat, Len(t) \in Nat,
           NEW f \in [0..Len(p) -> SUBSET (0..Len(t))], GoesBack(f, p, t, Len(p)), 0 \in f[Len(p)]
    PROVE  Covers(p, t)
  <1>1. PICK n \in Nat : n = Len(p)
    OBVIOUS
  <1>2. PICK e \in Nat : e = Len(t)
    OBVIOUS
  <1> DEFINE Rest(m, x) ==
               \E cut \in [(n - m)..n -> 0..e] :
                  cut[n - m] = x /\ cut[n] = e /\ \A i \in (n - m + 1)..n : Piece(p, t, cut, i)
             Follows(m) == \A x \in f[m] : Rest(m, x)
  <1>3. \A m \in 0..n : Follows(m)
    <2> DEFINE Bad == {m \in 0..n : ~Follows(m)}
    <2> SUFFICES ASSUME Bad # {} PROVE FALSE
      OBVIOUS
    <2> HIDE DEF Follows
    <2>1. Bad \in SUBSET Nat
      BY <1>1
    <2>2. PICK m \in Bad : \A k \in Bad : m <= k
      BY <2>1, LeastOf
    <2>3. m \in 0..n /\ ~Follows(m) /\ m \in Nat
      BY <2>2
    <2>4. PICK x \in f[m] : ~Rest(m, x)
      BY <2>3 DEF Follows
    <2>5. CASE m = 0
      <3> DEFINE cut == [i \in n..n |-> e]
      <3>1. x = e
        BY <1>2, <2>4, <2>5 DEF GoesBack
      <3>2. cut \in [(n - m)..n -> 0..e] /\ cut[n - m] = x /\ cut[n] = e
        BY <1>1, <1>2, <2>5, <3>1
      <3>3. (n - m + 1)..n = {}
        BY <1>1, <2>5
      <3> QED BY <2>4, <3>2, <3>3
    <2>6. CASE m # 0
      <3>1. m - 1 \in 0..n /\ ~(m <= m - 1) /\ m \in 1..n
        BY <1>1, <2>3, <2>6
      <3>2. Follows(m - 1)
        BY <2>2, <3>1
      <3>3. PICK k \in 1..n : k = n - m + 1
        BY <3>1
      <3>4. x \in MatchBefore(p[k], t, f[m - 1]) /\ f[m - 1] \subseteq 0..e
        BY <1>1, <1>2, <2>4, <3>1, <3>3 DEF GoesBack
      <3>5. x \in 0..e
        BY <1>2, <3>4 DEF MatchBefore
      <3>6. PICK y \in f[m - 1] :
              CASE p[k] = "*" -> x <= y
                [] p[k] = "?" -> y = x + 1
                [] OTHER -> y = x + 1 /\ t[y] = p[k]
        <4>1. CASE p[k] = "*"
          <5>1. PICK y \in x..e : y \in f[m - 1]
            BY <1>2, <3>4, <4>1 DEF MatchBefore
          <5> QED BY <3>5, <4>1, <5>1
        <4>2. CASE p[k] = "?"
          BY <1>2, <3>4, <4>2 DEF MatchBefore
        <4>3. CASE p[k] # "*" /\ p[k] # "?"
          <5>1. x + 1 \in f[m - 1] /\ t[x + 1] = p[k]
            BY <1>2, <3>4, <4>3 DEF MatchBefore
          <5> QED BY <4>3, <5>1
        <4> QED BY <4>1, <4>2, <4>3
      <3>7. Rest(m - 1, y)
        BY <3>2, <3>6 DEF Follows
      <3>8. n - (m - 1) = k /\ n - m = k - 1 /\ k - 1 \in Nat
        BY <3>1, <3>3
      <3>9. PICK g \in [k..n -> 0..e] :
              g[k] = y /\ g[n] = e /\ \A i \in (k + 1)..n : Piece(p, t, g, i)
        BY <3>7, <3>8
      <3> DEFINE cut == [i \in (k - 1)..n |-> IF i = k - 1 THEN x ELSE g[i]]
      <3>10. \A i \in (k - 1)..n : i # k - 1 => i \in k..n
        BY <3>8
      <3>11. cut \in [(k - 1)..n -> 0..e]
        BY <3>5, <3>9, <3>10
      <3>12. cut[k - 1] = x /\ \A i \in k..n : cut[i] = g[i]
        BY <3>8
      <3>13. cut[n] = e
        <4>1. n \in k..n
          BY <3>3
        <4> QED BY <3>9, <3>12, <4>1
      <3>14. ASSUME NEW i \in k..n PROVE Piece(p, t, cut, i)
        <4> HIDE DEF cut
        <4>1. CASE i = k
          <5>1. cut[i - 1] = x /\ cut[i] = y
            BY <3>9, <3>12, <4>1
          <5> QED BY <3>6, <4>1, <5>1 DEF Piece
        <4>2. CASE i # k
          <5>1. i \in (k + 1)..n /\ i - 1 \in k..n
            BY <3>8, <4>2
          <5>2. cut[i] = g[i] /\ cut[i - 1] = g[i - 1] /\ Piece(p, t, g, i)
            BY <3>9, <3>12, <5>1
          <5> QED BY <5>2 DEF Piece
        <4> QED BY <4>1, <4>2
      <3>15. Rest(m, x)
        <4>1. n - m = k - 1 /\ n - m + 1 = k
          BY <3>3, <3>1
        <4> HIDE DEF cut
        <4> QED BY <3>11, <3>12, <3>13, <3>14, <4>1
      <3> QED BY <2>4, <3>15
    <2> QED BY <2>5, <2>6
  <1>4. Rest(n, 0)
    BY <1>1, <1>3
  <1>5. PICK cut \in [0..n -> 0..e] :
          cut[0] = 0 /\ cut[n] = e /\ \A i \in 1..n : Piece(p, t, cut, i)
    <2>1. n - n = 0 /\ n - n + 1 = 1
      BY <1>1
    <2> QED BY <1>4, <2>1
  <1> QED BY <1>1, <1>2, <1>5 DEF Covers, Piece

(* What a cover leaves, the pattern matches. *)
LEMMA CoverMatches ==
    ASSUME NEW p, NEW t, Len(p) \in Nat, Len(t) \in Nat,
           NEW f \in [0..Len(p) -> SUBSET (0..Len(t))], GoesBack(f, p, t, Len(p)), Covers(p, t)
    PROVE  0 \in f[Len(p)]
  <1>1. PICK n \in Nat : n = Len(p)
    OBVIOUS
  <1>2. PICK e \in Nat : e = Len(t)
    OBVIOUS
  <1>3. PICK cut \in [0..n -> 0..e] :
          cut[0] = 0 /\ cut[n] = e /\ \A i \in 1..n : Piece(p, t, cut, i)
    BY <1>1, <1>2 DEF Covers, Piece
  <1> DEFINE Bad == {m \in 0..n : cut[n - m] \notin f[m]}
  <1>4. Bad = {}
    <2> SUFFICES ASSUME Bad # {} PROVE FALSE
      OBVIOUS
    <2>1. Bad \in SUBSET Nat
      BY <1>1
    <2>2. PICK m \in Bad : \A k \in Bad : m <= k
      <3> HIDE DEF Bad
      <3> QED BY <2>1, LeastOf
    <2>3. m \in 0..n /\ cut[n - m] \notin f[m]
      BY <2>2
    <2>4. CASE m = 0
      BY <1>1, <1>2, <1>3, <2>3, <2>4 DEF GoesBack
    <2>5. CASE m # 0
      <3>1. m - 1 \in 0..n /\ ~(m <= m - 1) /\ m \in 1..n
        BY <1>1, <2>3, <2>5
      <3>2. PICK k \in 1..n : k = n - m + 1
        BY <3>1
      <3>3. n - (m - 1) = k /\ n - m = k - 1 /\ k - 1 \in 0..n /\ k \in 0..n
        BY <3>1, <3>2
      <3>4. cut[k] \in f[m - 1]
        BY <2>2, <3>1, <3>3
      <3>5. cut[k - 1] \in 0..e /\ cut[k] \in 0..e /\ Piece(p, t, cut, k)
        BY <1>3, <3>3
      <3>6. f[m] = MatchBefore(p[k], t, f[m - 1])
        BY <1>1, <3>1, <3>2 DEF GoesBack
      <3>7. PICK x \in 0..e : x = cut[k - 1]
        BY <3>5
      <3>8. PICK y \in 0..e : y = cut[k]
        BY <3>5
      <3>9. x \in MatchBefore(p[k], t, f[m - 1])
        <4>1. CASE p[k] = "*"
          <5>1. y \in x..e
            BY <3>5, <3>7, <3>8, <4>1 DEF Piece
          <5> QED BY <1>2, <3>4, <3>8, <4>1, <5>1 DEF MatchBefore
        <4>2. CASE p[k] = "?"
          <5>1. y = x + 1
            BY <3>5, <3>7, <3>8, <4>2 DEF Piece
          <5> QED BY <1>2, <3>4, <3>8, <4>2, <5>1 DEF MatchBefore
        <4>3. CASE p[k] # "*" /\ p[k] # "?"
          <5>1. y = x + 1 /\ t[y] = p[k]
            BY <3>5, <3>7, <3>8, <4>3 DEF Piece
          <5> QED BY <1>2, <3>4, <3>8, <4>3, <5>1 DEF MatchBefore
        <4> QED BY <4>1, <4>2, <4>3
      <3> QED BY <2>3, <3>3, <3>6, <3>7, <3>9
    <2> QED BY <2>4, <2>5
  <1>5. cut[n - n] \in f[n] /\ n - n = 0
    <2>1. n \in 0..n /\ n \notin Bad
      BY <1>1, <1>4
    <2> QED BY <2>1
  <1> QED BY <1>1, <1>3, <1>5

(* pattern_matches says just what the pattern means. *)
LEMMA MatchIsCover ==
    ASSUME NEW p, NEW t, Len(p) \in Nat, Len(t) \in Nat
    PROVE  MatchRecursive(p, t) <=> Covers(p, t)
  <1>1. PICK f \in [0..Len(p) -> SUBSET (0..Len(t))] :
          GoesBack(f, p, t, Len(p)) /\ (MatchRecursive(p, t) <=> 0 \in f[Len(p)])
    BY MatchGoesBack
  <1>2. 0 \in f[Len(p)] => Covers(p, t)
    BY <1>1, MatchCovers
  <1>3. Covers(p, t) => 0 \in f[Len(p)]
    BY <1>1, CoverMatches
  <1> QED BY <1>1, <1>2, <1>3


(* Among numbers, the first of the greatest. *)
LEMMA FirstHighest ==
    ASSUME NEW c \in Nat, c # 0, NEW q \in [1..c -> Nat]
    PROVE  \E i \in 1..c : \A j \in 1..c : q[j] < q[i] \/ (q[j] = q[i] /\ i <= j)
  <1> DEFINE Leads(i, m) == \A j \in 1..m : q[j] < q[i] \/ (q[j] = q[i] /\ i <= j)
             Led(m) == \E i \in 1..m : Leads(i, m)
             Bad == {m \in 1..c : ~Led(m)}
  <1>1. Bad = {}
    <2> SUFFICES ASSUME Bad # {} PROVE FALSE
      OBVIOUS
    <2>1. Bad \in SUBSET Nat
      OBVIOUS
    <2>2. PICK m \in Bad : \A k \in Bad : m <= k
      <3> HIDE DEF Bad
      <3> QED BY <2>1, LeastOf
    <2>3. m \in 1..c /\ ~Led(m)
      BY <2>2
    <2>4. CASE m = 1
      <3>1. Leads(1, m) /\ 1 \in 1..m
        BY <2>4
      <3> QED BY <2>3, <3>1
    <2>5. CASE m # 1
      <3>1. m - 1 \in 1..c /\ ~(m <= m - 1) /\ m \in Nat
        BY <2>3, <2>5
      <3>2. Led(m - 1)
        <4> HIDE DEF Led
        <4> QED BY <2>2, <3>1
      <3>3. PICK i \in 1..(m - 1) : Leads(i, m - 1)
        BY <3>2
      <3>4. \A j \in 1..m : j # m => j \in 1..(m - 1)
        BY <3>1
      <3>5. q[i] \in Nat /\ q[m] \in Nat /\ \A j \in 1..m : q[j] \in Nat
        BY <2>3, <3>1
      <3>6. CASE q[i] < q[m]
        <4>1. ASSUME NEW j \in 1..m PROVE q[j] < q[m] \/ (q[j] = q[m] /\ m <= j)
          <5>1. CASE j = m
            BY <3>1, <5>1
          <5>2. CASE j # m
            <6>1. q[j] < q[i] \/ q[j] = q[i]
              BY <3>3, <3>4, <5>2
            <6> QED BY <3>5, <3>6, <6>1, SMTT(30)
          <5> QED BY <5>1, <5>2
        <4>2. m \in 1..m
          BY <3>1
        <4> QED BY <2>3, <4>1, <4>2
      <3>7. CASE q[m] <= q[i]
        <4>1. ASSUME NEW j \in 1..m PROVE q[j] < q[i] \/ (q[j] = q[i] /\ i <= j)
          <5>1. CASE j = m
            <6>1. i <= m
              BY <3>1
            <6> QED BY <3>5, <3>7, <5>1, <6>1
          <5>2. CASE j # m
            BY <3>3, <3>4, <5>2
          <5> QED BY <5>1, <5>2
        <4>2. i \in 1..m
          BY <3>1
        <4> QED BY <2>3, <4>1, <4>2
      <3> QED BY <3>5, <3>6, <3>7
    <2> QED BY <2>4, <2>5
  <1>2. c \in 1..c
    OBVIOUS
  <1>3. c \notin Bad
    <2> HIDE DEF Bad
    <2> QED BY <1>1
  <1>4. Led(c)
    <2> HIDE DEF Led
    <2> QED BY <1>2, <1>3
  <1> QED BY <1>4

(* The fields of a template. *)
LEMMA TemplateFields ==
    ASSUME NEW x \in Templates
    PROVE  Len(x.pattern) \in Nat /\ x.priority \in Nat
  <1>1. x.pattern \in Seq(STRING) /\ x.priority \in Nat
    BY DEF Templates
  <1>2. PICK p \in Seq(STRING) : p = x.pattern
    BY <1>1
  <1>3. Len(p) \in Nat
    OBVIOUS
  <1> QED BY <1>1, <1>2, <1>3

(* The template that the first tier takes is one that wins in the cluster. *)
LEMMA WinnerWrites ==
    ASSUME NEW truth, truth.templates \in Seq(Templates), NEW stream, Len(stream) \in Nat,
           NEW node, node.templates \in {<< >>, truth.templates}, ListTemplates(node, stream) = "Ok"
    PROVE  WritesDataStream(truth, stream)
  <1>1. PICK ts \in Seq(Templates) : ts = truth.templates
    OBVIOUS
  <1> DEFINE S == {i \in 1..Len(node.templates) : MatchRecursive(node.templates[i].pattern, stream)}
  <1>2. PICK m : m = AtPlaces(node.templates, S)
    OBVIOUS
  <1>3. m # << >> /\ WinningTemplate(m).dataStream
    BY <1>2 DEF ListTemplates
  <1>4. node.templates = ts
    <2>1. CASE node.templates = << >>
      <3>1. S = {}
        BY <2>1
      <3>2. m = << >>
        <4> HIDE DEF S
        <4>1. Cardinality({}) = 0
          BY FS_EmptySet
        <4>2. 1..0 = {}
          OBVIOUS
        <4> QED BY <1>2, <3>1, <4>1, <4>2 DEF AtPlaces
      <3> QED BY <1>3, <3>2
    <2> QED BY <1>1, <2>1
  <1>5. S = {i \in 1..Len(ts) : MatchRecursive(ts[i].pattern, stream)}
    BY <1>4
  <1>6. \A i \in 1..Len(ts) : ts[i] \in Templates /\ Len(ts[i].pattern) \in Nat /\ ts[i].priority \in Nat
    BY TemplateFields
  <1>7. \A i \in 1..Len(ts) : i \in S <=> Covers(ts[i].pattern, stream)
    <2>1. ASSUME NEW i \in 1..Len(ts) PROVE i \in S <=> Covers(ts[i].pattern, stream)
      <3>1. PICK p : p = ts[i].pattern
        OBVIOUS
      <3>2. MatchRecursive(p, stream) <=> Covers(p, stream)
        BY <1>6, <3>1, MatchIsCover
      <3> QED BY <1>5, <3>1, <3>2
    <2> QED BY <2>1
  <1>8. S \in SUBSET (1..Len(ts))
    BY <1>5
  <1> HIDE DEF S
  <1>9. PICK c \in Nat : c = Cardinality(S)
    BY <1>8, PlacesKept
  <1>10. m \in Seq(Templates) /\ Len(m) = c /\ Keeps(m, ts, S)
    BY <1>2, <1>4, <1>8, <1>9, PlacesKept
  <1>11. PICK a \in [1..c -> S] :
          /\ \A k \in 1..c : m[k] = ts[a[k]]
          /\ \A j, k \in 1..c : j < k => a[j] < a[k]
          /\ \A x \in S : \E k \in 1..c : a[k] = x
    BY <1>9, <1>10 DEF Keeps
  <1>12. c # 0
    BY <1>3, <1>10
  <1> DEFINE Wins(i) == \A j \in 1..Len(m) :
                 \/ m[j].priority < m[i].priority
                 \/ m[j].priority = m[i].priority /\ i <= j
  <1>13. \E i \in 1..Len(m) : Wins(i)
    <2> DEFINE q == [k \in 1..c |-> m[k].priority]
    <2>1. q \in [1..c -> Nat]
      <3>1. \A k \in 1..c : m[k] \in Templates
        BY <1>10
      <3> QED BY <3>1, TemplateFields
    <2>2. PICK i \in 1..c : \A j \in 1..c : q[j] < q[i] \/ (q[j] = q[i] /\ i <= j)
      <3> HIDE DEF q
      <3> QED BY <1>12, <2>1, FirstHighest
    <2> QED BY <1>10, <2>2
  <1>14. PICK w \in 1..Len(m) : Wins(w) /\ WinningTemplate(m) = m[w]
    <2> DEFINE w == CHOOSE i \in 1..Len(m) : Wins(i)
    <2>1. w \in 1..Len(m) /\ Wins(w)
      <3> HIDE DEF Wins
      <3> QED BY <1>13
    <2>2. WinningTemplate(m) = m[w]
      BY DEF WinningTemplate
    <2> HIDE DEF w, Wins
    <2> QED BY <2>1, <2>2
  <1>15. w \in 1..c /\ a[w] \in S /\ a[w] \in 1..Len(ts) /\ m[w] = ts[a[w]]
    BY <1>8, <1>10, <1>11, <1>14
  <1>16. Covers(ts[a[w]].pattern, stream) /\ ts[a[w]].dataStream
    BY <1>3, <1>7, <1>14, <1>15
  <1>17. ASSUME NEW j \in 1..Len(ts), Covers(ts[j].pattern, stream)
         PROVE  ts[j].priority <= ts[a[w]].priority
    <2>1. PICK k \in 1..c : a[k] = j
      BY <1>7, <1>11, <1>17
    <2>2. m[k].priority < m[w].priority \/ m[k].priority = m[w].priority
      BY <1>10, <1>14
    <2>3. ts[j].priority < ts[a[w]].priority \/ ts[j].priority = ts[a[w]].priority
      BY <1>11, <1>15, <2>1, <2>2
    <2>4. ts[j].priority \in Nat /\ ts[a[w]].priority \in Nat
      BY <1>6, <1>15
    <2> QED BY <2>3, <2>4
  <1>18. PICK i \in 1..Len(ts) : i = a[w]
    BY <1>15
  <1> QED BY <1>1, <1>16, <1>17, <1>18 DEF WritesDataStream

(* A startup that the cluster let pass writes to data streams. *)
LEMMA CheckedWrites ==
    ASSUME NEW truth, truth.templates \in Seq(Templates), NEW streams, NEW stream \in streams,
           Len(stream) \in Nat,
           NEW node, IsHonest(node, truth, streams), CheckTemplate(node, stream) = "Ok"
    PROVE  WritesDataStream(truth, stream)
  <1>1. \/ ListTemplates(node, stream) = "Ok"
        \/ SimulateTemplate(node) = "Ok"
        \/ DataStreamExists(node) = "Ok"
    BY DEF CheckTemplate
  <1>2. CASE ListTemplates(node, stream) = "Ok"
    BY <1>2, WinnerWrites DEF IsHonest
  <1>3. CASE SimulateTemplate(node) = "Ok"
    BY <1>3 DEF SimulateTemplate, IsHonest
  <1>4. CASE DataStreamExists(node) = "Ok"
    <2>1. truth.exists
      BY <1>4 DEF DataStreamExists, IsHonest
    <2> QED BY <2>1 DEF WritesDataStream
  <1> QED BY <1>1, <1>2, <1>3, <1>4


(* Saturating arithmetic stays within a word. *)
LEMMA Saturates ==
    ASSUME NEW a \in Nat, NEW b \in Nat
    PROVE  SaturatingMul(a, b) \in Words /\ SaturatingInc(a) \in Words
  <1>1. a * b \in Nat /\ WordMax \in Nat
    BY StartupAssumption
  <1>2. PICK ab \in Nat : ab = a * b
    BY <1>1
  <1>3. SaturatingMul(a, b) \in Words
    BY <1>1, <1>2 DEF SaturatingMul, Words
  <1> QED BY <1>1, <1>3 DEF SaturatingInc, Words

(* Making room keeps a configuration one. *)
LEMMA EnsureIsBuffer ==
    ASSUME NEW b \in BufferConfigs
    PROVE  EnsureMinBufferBytes(b) \in BufferConfigs
  <1>1. b.batchBytes \in Nat /\ b.leases \in Nat
    BY StartupAssumption DEF BufferConfigs, Words
  <1>2. PICK inc \in Nat : inc = SaturatingInc(b.leases)
    BY <1>1, Saturates DEF Words
  <1>3. PICK room \in Nat : room = SaturatingMul(b.batchBytes, inc)
    BY <1>1, Saturates DEF Words
  <1>4. PICK least \in Words : least = SaturatingMul(room, 3)
    BY Saturates
  <1>5. EnsureMinBufferBytes(b) = IF b.bufferBytes < least THEN [b EXCEPT !.bufferBytes = least] ELSE b
    BY <1>2, <1>3, <1>4 DEF EnsureMinBufferBytes
  <1>6. [b EXCEPT !.bufferBytes = least] \in BufferConfigs
    BY DEF BufferConfigs
  <1> QED BY <1>5, <1>6

(* A valid buffer holds what its leases need: saturation never hides that a disk *)
(* segment is too small.                                                         *)
LEMMA ValidHolds ==
    ASSUME NEW b \in BufferConfigs, BufferIsValid(b)
    PROVE  BufferHolds(b)
  <1>1. /\ b.batchBytes \in Words /\ b.leases \in Words /\ b.bufferBytes \in Words
        /\ b.segmentBytes \in Words /\ WordMax \in Nat /\ WordMax # 0
        /\ b.mode \in {"memory", "disk"} /\ b.onDrain \in {"none", "persist", "discard"}
    BY StartupAssumption DEF BufferConfigs
  <1>2. PICK size \in Nat : size = b.bufferBytes
    BY <1>1 DEF Words
  <1>3. PICK seg \in Nat : seg = b.segmentBytes
    BY <1>1 DEF Words
  <1>4. PICK batch \in Nat : batch = b.batchBytes
    BY <1>1 DEF Words
  <1>5. size <= WordMax /\ size \div 3 \in Nat /\ 3 * (size \div 3) <= size
    BY <1>1, <1>2 DEF Words
  <1>6. PICK third \in Nat : third = size \div 3
    BY <1>5
  <1>7. b.batchBytes * (b.leases + 1) <= b.bufferBytes \div 3
    <2>1. PICK need \in Nat : need = b.batchBytes * (b.leases + 1)
      <3>1. b.batchBytes \in Nat /\ b.leases + 1 \in Nat
        BY <1>1 DEF Words
      <3> QED BY <3>1
    <2>2. third >= need
      BY <1>2, <1>6, <2>1 DEF BufferIsValid, PerSignalBudget
    <2> QED BY <1>2, <1>6, <2>1, <2>2
  <1>8. ASSUME b.mode = "disk"
        PROVE  b.diskPath /\ 2 * b.segmentBytes <= b.bufferBytes \div 3 /\ 2 * b.batchBytes <= b.segmentBytes
    <2>1. b.diskPath /\ seg >= SaturatingMul(batch, 2) /\ seg <= third \div 2
      BY <1>2, <1>3, <1>4, <1>6, <1>8 DEF BufferIsValid, PerSignalBudget
    <2>2. 2 * seg <= third
      BY <2>1
    <2>3. 2 * batch <= seg
      <3>1. CASE batch * 2 > WordMax
        <4>1. seg >= WordMax
          BY <2>1, <3>1 DEF SaturatingMul
        <4>2. 3 * third <= WordMax
          BY <1>1, <1>5, <1>6
        <4> QED BY <1>1, <2>2, <4>1, <4>2
      <3>2. CASE ~(batch * 2 > WordMax)
        BY <2>1, <3>2 DEF SaturatingMul
      <3> QED BY <3>1, <3>2
    <2> QED BY <1>2, <1>3, <1>4, <1>6, <2>1, <2>2, <2>3
  <1>9. EffectiveDrainPolicy(b) = "persist" => b.mode = "disk"
    BY <1>1 DEF BufferIsValid, EffectiveDrainPolicy
  <1>10. b.leases >= 1 /\ b.attempts >= 1 /\ b.batchBytes >= 1
    BY DEF BufferIsValid
  <1> QED BY <1>7, <1>8, <1>9, <1>10 DEF BufferHolds

(* What a resolution answers, if it does not fail, is a valid buffer. *)
GoodBuffer(r) == r.ok => r.buffer \in BufferConfigs /\ BufferIsValid(r.buffer)

(* A buffer that was checked is one. *)
LEMMA CheckedIsGood ==
    ASSUME NEW b \in BufferConfigs
    PROVE  GoodBuffer(Checked(b)) /\ GoodBuffer(BufferErr)
  BY DEF GoodBuffer, Checked, BufferErr

(* BufferConfig::passthrough is valid, because the default is. *)
LEMMA PassthroughIsGood ==
    Passthrough \in BufferConfigs /\ BufferIsValid(Passthrough)
  <1>1. DefaultBuffer \in BufferConfigs /\ BufferIsValid(DefaultBuffer) /\ WordMax \in Nat /\ WordMax # 0
    BY StartupAssumption
  <1>2. 1 \in Words /\ 0 \in Words
    BY <1>1 DEF Words
  <1>3. PICK one \in Seq(Words) : one = <<1>> /\ one # <<0>>
    <2>1. PICK x \in Words : x = 1
      BY <1>2
    <2>2. <<x>> \in Seq(Words) /\ <<x>> # <<0>>
      BY <2>1
    <2> QED BY <2>1, <2>2
  <1>4. PICK z \in Words : z = 0
    BY <1>2
  <1>5. Passthrough = [DefaultBuffer EXCEPT !.records = one, !.intervalSec = z]
    BY <1>3, <1>4 DEF Passthrough
  <1>6. Passthrough \in BufferConfigs
    BY <1>1, <1>5 DEF BufferConfigs
  <1>7. /\ Passthrough.leases = DefaultBuffer.leases /\ Passthrough.attempts = DefaultBuffer.attempts
        /\ Passthrough.drainSec = DefaultBuffer.drainSec /\ Passthrough.batchBytes = DefaultBuffer.batchBytes
        /\ Passthrough.mode = DefaultBuffer.mode /\ Passthrough.diskPath = DefaultBuffer.diskPath
        /\ Passthrough.segmentBytes = DefaultBuffer.segmentBytes
        /\ Passthrough.bufferBytes = DefaultBuffer.bufferBytes
        /\ Passthrough.onDrain = DefaultBuffer.onDrain /\ Passthrough.records = one
    BY <1>1, <1>5 DEF BufferConfigs
  <1>8. BufferIsValid(Passthrough)
    <2> HIDE DEF Passthrough
    <2> QED BY <1>1, <1>3, <1>7 DEF BufferIsValid, PerSignalBudget
  <1> QED BY <1>6, <1>8

(* BufferConfig::resolve, for each of the ways to configure a sink. *)
LEMMA ResolvedIsGood ==
    ASSUME NEW s, IsSection(s), NEW passthrough \in BOOLEAN
    PROVE  GoodBuffer(ResolveBuffer(s, passthrough))
  <1>1. CASE IsGiven(s.buffer) /\ IsGiven(s.batching)
    <2>1. ResolveBuffer(s, passthrough) = BufferErr
      BY <1>1 DEF ResolveBuffer
    <2> QED BY <2>1, StartupAssumption, CheckedIsGood
  <1>2. CASE IsGiven(s.buffer) /\ ~IsGiven(s.batching)
    <2>1. ResolveBuffer(s, passthrough) = Checked(s.buffer[1])
      BY <1>2 DEF ResolveBuffer
    <2>2. s.buffer[1] \in BufferConfigs
      <3>1. PICK q \in Seq(BufferConfigs) : q = s.buffer
        BY DEF IsSection
      <3>2. q # << >>
        BY <1>2, <3>1 DEF IsGiven
      <3>3. 1 \in 1..Len(q)
        BY <3>2
      <3> QED BY <3>1, <3>3
    <2> QED BY <2>1, <2>2, CheckedIsGood
  <1>3. CASE ~IsGiven(s.buffer) /\ IsGiven(s.batching)
    <2> DEFINE Batchings == [batchBytes : Words, records : Seq(Words), intervalSec : Words]
    <2>1. PICK w \in Batchings : w = s.batching[1]
      <3>1. PICK q \in Seq(Batchings) : q = s.batching
        BY DEF IsSection
      <3>2. q # << >>
        BY <1>3, <3>1 DEF IsGiven
      <3> HIDE DEF Batchings
      <3>3. 1 \in 1..Len(q)
        BY <3>2
      <3> QED BY <3>1, <3>3
    <2>2. PICK b : b = [DefaultBuffer EXCEPT !.batchBytes = w.batchBytes, !.records = w.records,
                                            !.intervalSec = w.intervalSec]
      OBVIOUS
    <2>3. b \in BufferConfigs
      BY <2>2, StartupAssumption DEF BufferConfigs
    <2>4. ResolveBuffer(s, passthrough) = Checked(EnsureMinBufferBytes(b))
      BY <1>3, <2>1, <2>2 DEF ResolveBuffer
    <2> QED BY <2>3, <2>4, CheckedIsGood, EnsureIsBuffer
  <1>4. CASE ~IsGiven(s.buffer) /\ ~IsGiven(s.batching)
    <2>1. ResolveBuffer(s, passthrough) = Checked(IF passthrough THEN Passthrough ELSE DefaultBuffer)
      BY <1>4 DEF ResolveBuffer
    <2>2. Passthrough \in BufferConfigs /\ DefaultBuffer \in BufferConfigs
      BY PassthroughIsGood, StartupAssumption
    <2> QED BY <2>1, <2>2, CheckedIsGood
  <1> QED BY <1>1, <1>2, <1>3, <1>4

(* Whatever the sink, the buffer it starts with is valid. *)
LEMMA SinkBufferIsGood ==
    ASSUME NEW s, IsSection(s),
           NEW kind \in {"iceberg", "elasticsearch", "starrocks", "kafka", "parquet"}
    PROVE  GoodBuffer(SinkBufferOf(kind, s))
  <1>1. CASE kind = "iceberg"
    <2>1. PICK r : r = ResolveBuffer(s, FALSE)
      OBVIOUS
    <2>2. GoodBuffer(r)
      BY <2>1, ResolvedIsGood
    <2>3. PICK b : b = [r.buffer EXCEPT !.batchBytes = IcebergBatch]
      OBVIOUS
    <2>4. \/ SinkBufferOf(kind, s) = r
          \/ r.ok /\ SinkBufferOf(kind, s) = Checked(EnsureMinBufferBytes(b))
      BY <1>1, <2>1, <2>3 DEF SinkBufferOf, IcebergBuffer
    <2>5. ASSUME r.ok PROVE b \in BufferConfigs
      <3>1. r.buffer \in BufferConfigs
        BY <2>2, <2>5 DEF GoodBuffer
      <3> QED BY <2>3, <3>1, StartupAssumption DEF BufferConfigs
    <2> QED BY <2>2, <2>4, <2>5, CheckedIsGood, EnsureIsBuffer
  <1>2. CASE kind = "elasticsearch"
    <2>1. PICK r : r = ResolveBuffer(s, TRUE)
      OBVIOUS
    <2>2. GoodBuffer(r)
      BY <2>1, ResolvedIsGood
    <2>3. PICK b : b = [r.buffer EXCEPT !.leases = s.concurrent]
      OBVIOUS
    <2>4. \/ SinkBufferOf(kind, s) = r
          \/ r.ok /\ SinkBufferOf(kind, s) = Checked(EnsureMinBufferBytes(b))
      BY <1>2, <2>1, <2>3 DEF SinkBufferOf, ElasticsearchBuffer
    <2>5. ASSUME r.ok PROVE b \in BufferConfigs
      <3>1. r.buffer \in BufferConfigs /\ s.concurrent \in Words
        BY <2>2, <2>5 DEF GoodBuffer, IsSection
      <3> QED BY <2>3, <3>1 DEF BufferConfigs
    <2> QED BY <2>2, <2>4, <2>5, CheckedIsGood, EnsureIsBuffer
  <1>3. CASE kind \in {"starrocks", "kafka"}
    <2>1. SinkBufferOf(kind, s) = ResolveBuffer(s, TRUE)
      BY <1>3 DEF SinkBufferOf
    <2> QED BY <2>1, ResolvedIsGood
  <1>4. CASE kind = "parquet"
    <2>1. SinkBufferOf(kind, s).buffer = Passthrough
      BY <1>4 DEF SinkBufferOf
    <2> QED BY <2>1, PassthroughIsGood DEF GoodBuffer
  <1> QED BY <1>1, <1>2, <1>3, <1>4


SinkKinds == {"iceberg", "elasticsearch", "starrocks", "kafka", "parquet"}

(* The section that is used is one of the sections that are there. *)
LEMMA SinkIsThere ==
    ASSUME NEW c, DOMAIN c.sinks \subseteq SinkKinds, DOMAIN c.sinks # {}
    PROVE  ActiveSink(c) \in DOMAIN c.sinks /\ ActiveSink(c) \in SinkKinds
           /\ ActiveSink(c) = ValidatedSink(c)
  <1>1. PICK order : order = <<"iceberg", "elasticsearch", "starrocks", "kafka", "parquet">>
    OBVIOUS
  <1>2. order \in Seq(SinkKinds) /\ Len(order) = 5
    BY <1>1 DEF SinkKinds
  <1>3. \A kind \in SinkKinds : \E i \in 1..5 : order[i] = kind
    BY <1>1 DEF SinkKinds
  <1> DEFINE S == {i \in 1..Len(order) : order[i] \in DOMAIN c.sinks}
  <1>4. S \in SUBSET (1..Len(order)) /\ S # {}
    BY <1>2, <1>3
  <1>5. ActiveSink(c) = AtPlaces(order, S)[1] /\ ActiveSink(c) = ValidatedSink(c)
    BY <1>1 DEF ActiveSink, ValidatedSink, FirstSection
  <1>6. \A i \in S : order[i] \in DOMAIN c.sinks
    OBVIOUS
  <1> HIDE DEF S, SinkKinds
  <1>7. PICK n \in Nat : n = Cardinality(S)
    BY <1>2, <1>4, PlacesKept
  <1>8. Keeps(AtPlaces(order, S), order, S)
    BY <1>2, <1>4, PlacesKept
  <1>9. PICK a \in [1..n -> S] :
          /\ \A k \in 1..n : AtPlaces(order, S)[k] = order[a[k]]
          /\ \A x \in S : \E k \in 1..n : a[k] = x
    BY <1>7, <1>8 DEF Keeps
  <1>10. PICK x \in S : TRUE
    BY <1>4
  <1>11. PICK k \in 1..n : a[k] = x
    BY <1>9
  <1>12. 1 \in 1..n
    BY <1>11
  <1>13. AtPlaces(order, S)[1] = order[a[1]] /\ a[1] \in S
    BY <1>9, <1>12
  <1> QED BY <1>5, <1>6, <1>13

(* A listener that the endpoint leads back to is noticed. *)
LEMMA LoopIsNoticed ==
    ASSUME NEW e, NEW ls, NEW l \in ls, l.ip \in {"loopback", "wildcard", "local"}, LeadsTo(e, l)
    PROVE  IsSelfReferential(e, ls)
  <1>1. l.port = EndpointPort(e)
    BY DEF LeadsTo
  <1>2. CASE l.ip = "wildcard"
    <2>1. e.host \in {"localhost", "loopback", "wildcard", "local"}
      BY <1>2 DEF LeadsTo
    <2> QED BY <1>1, <1>2, <2>1 DEF IsSelfReferential
  <1>3. CASE l.ip = "loopback"
    <2>1. e.host \in {"localhost", "loopback", "wildcard"}
      BY <1>3 DEF LeadsTo
    <2> QED BY <1>1, <1>3, <2>1 DEF IsSelfReferential
  <1>4. CASE l.ip = "local"
    <2>1. e.host = "local"
      BY <1>4 DEF LeadsTo
    <2> QED BY <1>1, <1>4, <2>1 DEF IsSelfReferential
  <1> QED BY <1>2, <1>3, <1>4

(* Every job that is asked starts safely. *)
LEMMA JobStartsSafely ==
    ASSUME NEW j \in StartJobs
    PROVE  StartsSafely(j.config, j.truth, StartUp(j.config, j.cluster))
  <1>1. PICK c : c = j.config
    OBVIOUS
  <1>2. PICK cluster : cluster = j.cluster
    OBVIOUS
  <1>3. PICK truth : truth = j.truth
    OBVIOUS
  <1>4. /\ DOMAIN c.sinks \subseteq SinkKinds
        /\ \A kind \in DOMAIN c.sinks :
              /\ IsSection(c.sinks[kind])
              /\ \A i \in 1..Len(cluster) : IsHonest(cluster[i], truth, c.sinks[kind].streams)
        /\ c.grpc.ip \in {"loopback", "wildcard", "local"} /\ c.http.ip \in {"loopback", "wildcard", "local"}
        /\ truth.templates \in Seq(Templates)
    BY <1>1, <1>2, <1>3, StartJobsAssumption DEF SinkKinds
  <1>5. PICK out : out = StartUp(c, cluster)
    OBVIOUS
  <1>6. SUFFICES ASSUME out.state = "running" PROVE StartsSafely(c, truth, out)
    BY <1>1, <1>2, <1>3, <1>5 DEF StartsSafely
  <1>7. PICK kind : kind = ActiveSink(c)
    OBVIOUS
  <1>8. PICK s : s = c.sinks[kind]
    OBVIOUS
  <1>9. PICK b : b = SinkBufferOf(kind, s)
    OBVIOUS
  <1>10. /\ ValidateConfig(c) /\ b.ok /\ SinkStarts(kind, s, cluster)
         /\ out = [state |-> "running", sink |-> kind, buffer |-> b.buffer]
    BY <1>5, <1>6, <1>7, <1>8, <1>9 DEF StartUp
  <1>11. kind \in DOMAIN c.sinks /\ kind \in SinkKinds /\ kind = ValidatedSink(c)
    BY <1>4, <1>7, <1>10, SinkIsThere DEF ValidateConfig
  <1>12. IsSection(s) /\ \A i \in 1..Len(cluster) : IsHonest(cluster[i], truth, s.streams)
    BY <1>4, <1>8, <1>11
  <1>13. out.sink = kind /\ out.buffer = b.buffer
    BY <1>10
  <1>14. SinkIsValid(kind, s)
    BY <1>8, <1>10, <1>11 DEF ValidateConfig
  <1>15. BufferHolds(b.buffer)
    <2>1. GoodBuffer(b)
      BY <1>9, <1>11, <1>12, SinkBufferIsGood DEF SinkKinds
    <2>2. PICK u : u = b.buffer
      OBVIOUS
    <2>3. u \in BufferConfigs /\ BufferIsValid(u)
      BY <1>10, <2>1, <2>2 DEF GoodBuffer
    <2> QED BY <2>2, <2>3, ValidHolds
  <1>16. ASSUME c.telemetry.enabled, NEW l \in {c.grpc, c.http} PROVE ~LeadsTo(c.telemetry.endpoint, l)
    <2>1. PICK e : e = c.telemetry.endpoint
      OBVIOUS
    <2>2. ~IsSelfReferential(e, {c.grpc, c.http})
      BY <1>10, <1>16, <2>1 DEF ValidateConfig, PipelineIsValid
    <2>3. l.ip \in {"loopback", "wildcard", "local"}
      BY <1>4
    <2> QED BY <2>1, <2>2, <2>3, LoopIsNoticed
  <1>17. ASSUME kind = "elasticsearch", s.validate, NEW stream \in s.streams
         PROVE  WritesDataStream(truth, stream)
    <2>1. ValidateIndexTemplate(cluster, stream)
      BY <1>10, <1>17 DEF SinkStarts, ValidateStartup
    <2>2. PICK i \in 1..Len(cluster) : CheckTemplate(cluster[i], stream) = "Ok"
      BY <2>1 DEF ValidateIndexTemplate
    <2>3. PICK node : node = cluster[i]
      OBVIOUS
    <2>4. IsHonest(node, truth, s.streams) /\ CheckTemplate(node, stream) = "Ok"
      BY <1>12, <2>2, <2>3
    <2>5. Len(stream) \in Nat
      <3>1. stream \in Seq(STRING)
        BY <1>12 DEF IsSection
      <3> QED BY <3>1
    <2> QED BY <1>4, <2>4, <2>5, CheckedWrites
  <1> QED BY <1>8, <1>13, <1>14, <1>15, <1>16, <1>17 DEF StartsSafely

(* A program that runs has a validated sink and a buffer that holds what its    *)
(* leases need, does not export telemetry to itself, and writes to data streams *)
(* where the cluster answered it.                                               *)
THEOREM StartsAreSafe == StartSpec => []StartIsSafe
  <1> DEFINE IsStarted == /\ job \in StartJobs
                        /\ \/ answer = << >>
                           \/ answer = <<StartUp(job.config, job.cluster)>>
  <1>1. Asked(StartJobs) => IsStarted
    BY DEF Asked
  <1>2. IsStarted /\ [AnswerStart]_jobVars => IsStarted'
    BY DEF AnswerStart, Answer, jobVars
  <1>3. IsStarted => StartIsSafe
    <2> SUFFICES ASSUME IsStarted, Done("start")
                 PROVE  StartsSafely(job.config, job.truth, answer[1])
      BY DEF StartIsSafe
    <2>1. answer = <<StartUp(job.config, job.cluster)>>
      BY DEF Done
    <2>2. PICK a : a = StartUp(job.config, job.cluster)
      OBVIOUS
    <2>3. answer[1] = a
      BY <2>1, <2>2
    <2> QED BY <2>2, <2>3, JobStartsSafely
  <1> QED BY <1>1, <1>2, <1>3, PTL DEF StartSpec

-----------------------------------------------------------------------------
(* Rows and their places                                                    *)

(* What a quotient and a remainder are. *)
LEMMA DivIs ==
    ASSUME NEW n \in Int, NEW p \in Nat, p # 0
    PROVE  /\ n \div p \in Int /\ n % p \in 0..(p - 1)
           /\ n = p * (n \div p) + (n % p)
  OBVIOUS

(* Multiplication keeps an order. *)
LEMMA TimesLe ==
    ASSUME NEW a \in Nat, NEW x \in Int, NEW y \in Int, x <= y
    PROVE  a * x <= a * y /\ a * x \in Int /\ a * y \in Int
  OBVIOUS

(* Products of numbers of a clock. *)
LEMMA TimesPos ==
    ASSUME NEW a \in Nat, NEW b \in Nat, a # 0, b # 0
    PROVE  a * b \in Nat /\ a * b # 0
  OBVIOUS

(* A number lies between the multiples its quotient names. *)
LEMMA DivBounds ==
    ASSUME NEW n \in Int, NEW p \in Nat, p # 0, NEW q, q = n \div p, NEW r, r = n % p
    PROVE  /\ q \in Int /\ r \in Int /\ 0 <= r /\ r <= p - 1
           /\ n = p * q + r
           /\ p * q <= n /\ n + 1 <= p * (q + 1) /\ n < p * (q + 1)
  <1>1. q \in Int /\ r \in 0..(p - 1) /\ n = p * q + r
    BY DivIs
  <1>2. r \in Int /\ 0 <= r /\ r <= p - 1
    BY <1>1
  <1>3. PICK x \in Int : x = p * q
    BY <1>1
  <1>4. p * (q + 1) = x + p
    BY <1>1, <1>3
  <1> QED BY <1>1, <1>2, <1>3, <1>4

(* A quotient is the only number with its bounds. *)
LEMMA DivUnique ==
    ASSUME NEW n \in Int, NEW p \in Nat, p # 0, NEW q \in Int, p * q <= n, n < p * (q + 1)
    PROVE  n \div p = q
  <1>1. PICK d \in Int : d = n \div p
    BY DivIs
  <1>2. p * d <= n /\ n < p * (d + 1)
    BY <1>1, DivIs
  <1>3. ~(q + 1 <= d)
    <2>1. SUFFICES ASSUME q + 1 <= d PROVE FALSE
      OBVIOUS
    <2>2. p * (q + 1) <= p * d
      BY <2>1, TimesLe
    <2> QED BY <1>2, <2>2
  <1>4. ~(d + 1 <= q)
    <2>1. SUFFICES ASSUME d + 1 <= q PROVE FALSE
      OBVIOUS
    <2>2. p * (d + 1) <= p * q
      BY <2>1, TimesLe
    <2> QED BY <1>2, <2>2
  <1> QED BY <1>1, <1>3, <1>4

(* A quotient of a quotient is the quotient by the product. *)
LEMMA DivDiv ==
    ASSUME NEW n \in Int, NEW p \in Nat, NEW r \in Nat, p # 0, r # 0
    PROVE  n \div (p * r) = (n \div p) \div r
  <1>1. PICK d \in Int : d = n \div p
    BY DivIs
  <1>2. p * d <= n /\ n < p * (d + 1)
    BY <1>1, DivIs
  <1>3. PICK q \in Int : q = d \div r
    BY DivIs
  <1>4. r * q <= d /\ d + 1 <= r * (q + 1)
    BY <1>3, DivIs
  <1>5. p * (r * q) <= p * d /\ p * (d + 1) <= p * (r * (q + 1))
    <2>1. PICK x \in Int : x = r * q
      OBVIOUS
    <2>2. PICK y \in Int : y = r * (q + 1)
      OBVIOUS
    <2>3. d + 1 \in Int
      OBVIOUS
    <2>4. p * x <= p * d
      BY <1>4, <2>1, TimesLe
    <2>5. p * (d + 1) <= p * y
      BY <1>4, <2>2, <2>3, TimesLe
    <2> QED BY <2>1, <2>2, <2>4, <2>5
  <1>6. PICK pr \in Nat : pr = p * r /\ pr # 0
    BY TimesPos
  <1>7. pr * q = p * (r * q) /\ pr * (q + 1) = p * (r * (q + 1))
    BY <1>6
  <1>8. pr * q <= n /\ n < pr * (q + 1)
    BY <1>2, <1>5, <1>7
  <1> QED BY <1>1, <1>3, <1>6, <1>8, DivUnique

(* A common factor of a number and its divisor makes no difference. *)
LEMMA DivScaled ==
    ASSUME NEW n \in Int, NEW p \in Nat, NEW r \in Nat, p # 0, r # 0
    PROVE  (n * r) \div (r * p) = n \div p
  <1>1. PICK d \in Int : d = n \div p
    BY DivIs
  <1>2. p * d <= n /\ n + 1 <= p * (d + 1)
    BY <1>1, DivIs
  <1>3. PICK x \in Int : x = p * d
    OBVIOUS
  <1>4. PICK y \in Int : y = p * (d + 1)
    OBVIOUS
  <1>5. r * x <= r * n
    BY <1>2, <1>3, TimesLe
  <1>6. r * (n + 1) <= r * y
    <2>1. n + 1 \in Int
      OBVIOUS
    <2> QED BY <1>2, <1>4, <2>1, TimesLe
  <1>7. PICK rp \in Nat : rp = r * p /\ rp # 0
    BY TimesPos
  <1>8. rp * d = r * x /\ rp * (d + 1) = r * y /\ r * n = n * r /\ n * r \in Int /\ r * (n + 1) = n * r + r
    BY <1>3, <1>4, <1>7
  <1>9. rp * d <= n * r /\ n * r < rp * (d + 1)
    BY <1>5, <1>6, <1>8
  <1>10. PICK m \in Int : m = n * r
    OBVIOUS
  <1>11. m \div rp = d
    BY <1>7, <1>9, <1>10, DivUnique
  <1> QED BY <1>1, <1>7, <1>10, <1>11

(* Units of time, and how many of each are a second. *)
LEMMA PerSecondIs ==
    /\ \A unit \in TimeUnits : PerSecond(unit) \in Nat /\ PerSecond(unit) # 0
    /\ \A unit \in TimeUnits : \E k \in Nat : k # 0 /\ PerSecond("nanos") = PerSecond(unit) * k
    /\ PerSecond("nanos") = Scale * PerSecond("micros") /\ PerSecond("seconds") = 1
    /\ Scale \in Nat /\ Scale # 0
  <1>1. Scale \in Nat /\ Scale # 0
    BY RowLayoutAssumption
  <1>2. PICK two \in Nat : two = Scale * Scale /\ two # 0
    BY <1>1, TimesPos
  <1>3. PICK three \in Nat : three = two * Scale /\ three # 0
    BY <1>1, <1>2, TimesPos
  <1>4. /\ PerSecond("nanos") = three /\ PerSecond("micros") = two
        /\ PerSecond("millis") = Scale /\ PerSecond("seconds") = 1
    BY <1>2, <1>3 DEF PerSecond
  <1>5. three = Scale * two /\ three = three * 1 /\ three = 1 * three
    BY <1>1, <1>2, <1>3
  <1> QED BY <1>1, <1>2, <1>3, <1>4, <1>5 DEF TimeUnits

(* The time in a bulk document is the row's own. *)
LEMMA TimeIsKept ==
    ASSUME NEW unit \in TimeUnits, NEW n \in Int
    PROVE  DocumentIsFaithful(unit, n, TimestampText(unit, n))
  <1>1. PICK p \in Nat : p = PerSecond(unit) /\ p # 0
    BY PerSecondIs
  <1>2. PICK all \in Nat : all = PerSecond("nanos")
    BY PerSecondIs DEF TimeUnits
  <1>3. PICK k \in Nat : k # 0 /\ all = p * k
    BY <1>1, <1>2, PerSecondIs
  <1>4. all \div p = k
    <2>1. p * k <= all /\ all < p * (k + 1)
      BY <1>1, <1>3
    <2> QED BY <1>1, <2>1, DivUnique
  <1>5. PICK q \in Int : q = n \div p
    BY <1>1, DivIs
  <1>6. PICK r \in 0..(p - 1) : r = n % p
    BY <1>1, DivIs
  <1>7. n = p * q + r
    BY <1>1, <1>5, <1>6, DivIs
  <1>8. PICK sub \in Int : sub = r * k
    BY <1>6
  <1>9. sub \in 0..(all - 1)
    <2>1. k * 0 <= k * r /\ k * r <= k * (p - 1)
      BY <1>1, <1>6, TimesLe
    <2>2. k * (p - 1) = all - k /\ k * r = sub
      BY <1>1, <1>3, <1>6, <1>8
    <2> QED BY <1>2, <1>3, <2>1, <2>2
  <1>10. (q * all + sub) * p = n * all
    <2>1. PICK pk \in Nat : pk = p * k
      BY <1>3
    <2>2. (q * pk + r * k) * p = (p * q + r) * pk
      <3>1. r * k * p = r * pk
        BY <1>6, <2>1
      <3>2. q * pk * p = (p * q) * pk
        BY <2>1
      <3>3. PICK a \in Int : a = q * pk
        OBVIOUS
      <3>4. PICK b \in Int : b = r * k
        BY <1>6
      <3>5. (a + b) * p = a * p + b * p
        OBVIOUS
      <3>6. PICK e \in Int : e = p * q
        OBVIOUS
      <3>7. (e + r) * pk = e * pk + r * pk
        BY <1>6
      <3> QED BY <3>1, <3>2, <3>3, <3>4, <3>5, <3>6, <3>7
    <2> QED BY <1>3, <1>7, <1>8, <2>1, <2>2
  <1>11. CASE ~HasDate(Seconds(unit, n))
    BY <1>11 DEF TimestampText, DocumentIsFaithful
  <1>12. CASE HasDate(Seconds(unit, n))
    <2>1. PICK text : text = TimestampText(unit, n)
      OBVIOUS
    <2>2. text = [json |-> "time", seconds |-> Seconds(unit, n), nanos |-> SubsecNanos(unit, n)]
      BY <1>12, <2>1 DEF TimestampText
    <2>3. Seconds(unit, n) = q
      BY <1>1, <1>5 DEF Seconds
    <2>4. SubsecNanos(unit, n) = sub
      BY <1>1, <1>2, <1>4, <1>6, <1>8 DEF SubsecNanos
    <2>5. text.json = "time" /\ text.seconds = q /\ text.nanos = sub
      BY <2>2, <2>3, <2>4
    <2>6. DocumentIsFaithful(unit, n, text)
      BY <1>1, <1>2, <1>9, <1>10, <2>5 DEF DocumentIsFaithful
    <2> QED BY <2>1, <2>6
  <1> QED BY <1>11, <1>12

(* Whatever the value, its document is one line with the row's time. *)
LEMMA DocumentsAreFaithful ==
    ASSUME NEW j \in DocumentJobs
    PROVE  DocumentIsFaithful(j.type, j.value, WriteValue(j.type, j.value, j.unpack))
  <1>1. PICK type : type = j.type
    OBVIOUS
  <1>2. PICK value : value = j.value
    OBVIOUS
  <1>3. PICK text : text = WriteValue(type, value, j.unpack)
    OBVIOUS
  <1>4. CASE value = Null \/ type = "none"
    <2>1. text = [json |-> "null"]
      BY <1>3, <1>4 DEF WriteValue
    <2>2. text.json = "null"
      BY <2>1
    <2> QED BY <1>1, <1>2, <1>3, <2>2 DEF DocumentIsFaithful
  <1>5. CASE ~(value = Null \/ type = "none") /\ type \in TimeUnits
    <2>1. value \in Int
      BY <1>1, <1>2, <1>5, LayoutJobsAssumption DEF Values
    <2>2. text = TimestampText(type, value)
      BY <1>3, <1>5 DEF WriteValue, TimeUnits
    <2> QED BY <1>1, <1>2, <1>3, <1>5, <2>1, <2>2, TimeIsKept
  <1>6. CASE ~(value = Null \/ type = "none") /\ type \notin TimeUnits
    <2>1. \/ text = StringText(value, j.unpack)
          \/ text = NumericText(value)
          \/ text = [json |-> "bool", v |-> value]
          \/ text = [json |-> "string", lines |-> 1]
      BY <1>3, <1>6 DEF WriteValue
    <2>2. /\ text.json \in {"string", "object"} => text.lines = 1
          /\ text.json # "time"
      BY <2>1 DEF StringText, NumericText, LinesOf
    <2> QED BY <1>1, <1>2, <1>3, <2>2 DEF DocumentIsFaithful
  <1> QED BY <1>4, <1>5, <1>6

(* The hour, and the day, that a time is filed under are its own. *)
LEMMA TimeIsWithin ==
    ASSUME NEW unit \in TimeUnits, NEW n \in Int, NEW s, s = Seconds(unit, n)
    PROVE  /\ WithinPath(<<DayOf(s), HourOf(s)>>, unit, n)
           /\ WithinPath(<<DayOf(s)>>, unit, n)
  <1>1. PICK p \in Nat : p = PerSecond(unit) /\ p # 0
    BY PerSecondIs
  <1>2. s = n \div p /\ s \in Int /\ p * s <= n /\ n < p * (s + 1)
    <2>1. s = n \div p
      BY <1>1 DEF Seconds
    <2> QED BY <1>1, <2>1, DivBounds
  <1>3. PICK hs \in Nat : hs = HourSeconds /\ hs # 0
    BY RowLayoutAssumption
  <1>4. PICK dh \in Nat : dh = DayHours /\ dh # 0
    BY RowLayoutAssumption
  <1>5. PICK h \in Int : h = s \div hs
    BY <1>2, <1>3, DivIs
  <1>6. PICK d \in Int : d = h \div dh
    BY <1>4, DivIs
  <1>7. PICK r \in Int : r = h % dh /\ h = dh * d + r /\ 0 <= r /\ r <= dh - 1
    <2>1. PICK r : r = h % dh
      OBVIOUS
    <2>2. r \in Int /\ 0 <= r /\ r <= dh - 1 /\ h = dh * d + r
      BY <1>4, <1>6, <2>1, DivBounds
    <2> QED BY <2>1, <2>2, Zenon
  <1>8. DayOf(s) = d /\ HourOf(s) = r
    BY <1>2, <1>3, <1>4, <1>5, <1>6, <1>7, DivDiv, ZenonT(60) DEF DayOf, HourOf
  <1>9. hs * h <= s /\ s + 1 <= hs * (h + 1)
    BY <1>2, <1>3, <1>5, DivBounds
  <1>10. ASSUME NEW a \in Int, NEW b \in Int, a <= s, s + 1 <= b
         PROVE  a * p <= n /\ n < b * p
    <2>1. p * a <= p * s
      BY <1>2, <1>10, TimesLe
    <2>2. p * (s + 1) <= p * b
      <3>1. s + 1 \in Int
        BY <1>2
      <3> QED BY <1>10, <3>1, TimesLe
    <2>3. p * a = a * p /\ p * b = b * p
      OBVIOUS
    <2> QED BY <1>2, <2>1, <2>2, <2>3
  <1>11. WithinPath(<<d, r>>, unit, n)
    <2>1. PICK a \in Int : a = (d * dh + r) * hs
      OBVIOUS
    <2>2. d * dh + r = h
      BY <1>7
    <2>3. a = hs * h /\ a + hs = hs * (h + 1)
      BY <2>1, <2>2
    <2>4. PICK b \in Int : b = a + hs
      OBVIOUS
    <2>5. a * p <= n /\ n < b * p
      BY <1>9, <1>10, <2>3, <2>4
    <2>6. PICK path : path = <<d, r>>
      OBVIOUS
    <2>7. Len(path) = 2 /\ path[1] = d /\ path[2] = r
      BY <2>6
    <2>8. WithinPath(path, unit, n)
      BY <1>1, <1>3, <1>4, <2>1, <2>4, <2>5, <2>7 DEF WithinPath
    <2> QED BY <2>6, <2>8
  <1>12. WithinPath(<<d>>, unit, n)
    <2>1. PICK a \in Int : a = d * dh * hs
      OBVIOUS
    <2>2. PICK len \in Nat : len = dh * hs
      OBVIOUS
    <2>3. PICK b \in Int : b = a + len
      OBVIOUS
    <2>4. a <= s
      <3>1. d * dh <= h
        BY <1>7
      <3>2. PICK x \in Int : x = d * dh
        OBVIOUS
      <3>3. hs * x <= hs * h
        BY <3>1, <3>2, TimesLe
      <3>4. hs * x = a
        BY <2>1, <3>2
      <3> QED BY <1>2, <1>9, <3>3, <3>4
    <2>5. s + 1 <= b
      <3>1. h + 1 <= dh * d + dh
        BY <1>7
      <3>2. PICK x \in Int : x = dh * d + dh
        OBVIOUS
      <3>3. hs * (h + 1) <= hs * x
        <4>1. h + 1 \in Int
          OBVIOUS
        <4> QED BY <3>1, <3>2, <4>1, TimesLe
      <3>4. hs * x = b
        BY <2>1, <2>2, <2>3, <3>2
      <3> QED BY <1>2, <1>9, <3>3, <3>4
    <2>6. a * p <= n /\ n < b * p
      BY <1>10, <2>4, <2>5
    <2>7. PICK path : path = <<d>>
      OBVIOUS
    <2>8. Len(path) = 1 /\ path[1] = d
      BY <2>7
    <2>9. WithinPath(path, unit, n)
      BY <1>1, <1>3, <1>4, <2>1, <2>2, <2>3, <2>6, <2>8 DEF WithinPath
    <2> QED BY <2>7, <2>9
  <1> QED BY <1>8, <1>11, <1>12

(* A row with its number and a value for each column. *)
HasValues(row, cols) ==
    DOMAIN cols \cup {"id"} \subseteq DOMAIN row /\ \A c \in DOMAIN cols : row[c] \in Values

(* Under one key, of two values that differ one goes before the other, and this is *)
(* an order.                                                                       *)
LEMMA KeyOrders ==
    ASSUME NEW key, NEW a, NEW b, NEW c, NEW x, NEW y, NEW z,
           x = a[key.column], y = b[key.column], z = c[key.column],
           x \in Values, y \in Values, z \in Values
    PROVE  /\ x = y => ~GoesBefore(key, a, b) /\ ~GoesBefore(key, b, a)
           /\ x # y => (GoesBefore(key, a, b) <=> ~GoesBefore(key, b, a))
           /\ x # y /\ y # z /\ GoesBefore(key, a, b) /\ GoesBefore(key, b, c) => GoesBefore(key, a, c)
  <1>1. Null \notin Int
    BY RowLayoutAssumption
  <1>2. GoesBefore(key, a, b) <=>
          x # y /\ IF Null \in {x, y} THEN IF key.nullsFirst THEN x = Null ELSE y = Null
                   ELSE IF key.descending THEN x > y ELSE x < y
    BY DEF GoesBefore
  <1>3. GoesBefore(key, b, a) <=>
          y # x /\ IF Null \in {y, x} THEN IF key.nullsFirst THEN y = Null ELSE x = Null
                   ELSE IF key.descending THEN y > x ELSE y < x
    BY DEF GoesBefore
  <1>4. GoesBefore(key, b, c) <=>
          y # z /\ IF Null \in {y, z} THEN IF key.nullsFirst THEN y = Null ELSE z = Null
                   ELSE IF key.descending THEN y > z ELSE y < z
    BY DEF GoesBefore
  <1>5. GoesBefore(key, a, c) <=>
          x # z /\ IF Null \in {x, z} THEN IF key.nullsFirst THEN x = Null ELSE z = Null
                   ELSE IF key.descending THEN x > z ELSE x < z
    BY DEF GoesBefore
  <1>6. /\ x = Null \/ x \in Int
        /\ y = Null \/ y \in Int
        /\ z = Null \/ z \in Int
    BY DEF Values
  <1>7. x = y => ~GoesBefore(key, a, b) /\ ~GoesBefore(key, b, a)
    BY <1>2, <1>3
  <1>8. x # y => (GoesBefore(key, a, b) <=> ~GoesBefore(key, b, a))
    BY <1>1, <1>2, <1>3, <1>6
  <1>9. x # y /\ y # z /\ GoesBefore(key, a, b) /\ GoesBefore(key, b, c) => GoesBefore(key, a, c)
    BY <1>1, <1>2, <1>4, <1>5, <1>6
  <1> QED BY <1>7, <1>8, <1>9

(* Rows that differ under a key are in one of two orders. *)
LEMMA KeyDecides ==
    ASSUME NEW key, NEW a, NEW b, NEW x \in Values, NEW y \in Values,
           x = a[key.column], y = b[key.column], x # y, ~GoesBefore(key, b, a)
    PROVE  GoesBefore(key, a, b)
  BY KeyOrders

(* The order of rows under several keys is transitive: it is decided by the first *)
(* key under which the rows differ.                                               *)
LEMMA OrderIsTransitive ==
    ASSUME NEW keys, Len(keys) \in Nat, NEW cols, NEW a, NEW b, NEW c,
           HasValues(a, cols), HasValues(b, cols), HasValues(c, cols),
           InOrder(keys, cols, a, b), InOrder(keys, cols, b, c)
    PROVE  InOrder(keys, cols, a, c)
  <1> DEFINE There(k) == keys[k].column \in DOMAIN cols
             Tie(k) == a[keys[k].column] = b[keys[k].column] /\ b[keys[k].column] = c[keys[k].column]
  <1>1. SUFFICES ASSUME NEW k \in 1..Len(keys), There(k), GoesBefore(keys[k], c, a),
                        \A j \in 1..(k - 1) : ~(There(j) /\ GoesBefore(keys[j], a, c))
                 PROVE  FALSE
    BY DEF InOrder
  <1>2. ASSUME NEW i \in 1..Len(keys), There(i)
        PROVE  /\ a[keys[i].column] \in Values /\ b[keys[i].column] \in Values
               /\ c[keys[i].column] \in Values
    BY <1>2 DEF HasValues
  <1> DEFINE S == {i \in 1..k : There(i) /\ ~Tie(i)}
  <1>3. k \in S
    <2>1. a[keys[k].column] # c[keys[k].column]
      BY <1>1 DEF GoesBefore
    <2> QED BY <1>1, <2>1
  <1>4. S \in SUBSET Nat
    OBVIOUS
  <1>5. PICK m \in S : \A i \in S : m <= i
    <2> HIDE DEF S
    <2> QED BY <1>3, <1>4, LeastOf
  <1>6. m \in 1..k /\ m \in 1..Len(keys) /\ There(m) /\ ~Tie(m)
    BY <1>5
  <1>7. \A i \in 1..(m - 1) : There(i) => Tie(i)
    <2>1. SUFFICES ASSUME NEW i \in 1..(m - 1), There(i), ~Tie(i) PROVE FALSE
      OBVIOUS
    <2>2. i \in 1..k /\ ~(m <= i)
      BY <1>6
    <2> QED BY <1>5, <2>1, <2>2
  <1>8. \A i \in 1..(m - 1) : There(i) =>
          /\ ~GoesBefore(keys[i], a, b) /\ ~GoesBefore(keys[i], b, c)
    BY <1>7 DEF GoesBefore
  <1>9. ~GoesBefore(keys[m], b, a)
    BY <1>6, <1>8 DEF InOrder
  <1>10. ~GoesBefore(keys[m], c, b)
    BY <1>6, <1>8 DEF InOrder
  <1>11. PICK key : key = keys[m]
    OBVIOUS
  <1>12. PICK x \in Values : x = a[key.column]
    BY <1>2, <1>6, <1>11
  <1>13. PICK y \in Values : y = b[key.column]
    BY <1>2, <1>6, <1>11
  <1>14. PICK z \in Values : z = c[key.column]
    BY <1>2, <1>6, <1>11
  <1>15. /\ x = y => ~GoesBefore(key, a, b)
         /\ x # y => GoesBefore(key, a, b)
         /\ x # y /\ y # z /\ GoesBefore(key, a, b) /\ GoesBefore(key, b, c) => GoesBefore(key, a, c)
    BY <1>9, <1>11, <1>12, <1>13, <1>14, KeyOrders
  <1>16. y # z => GoesBefore(key, b, c)
    BY <1>10, <1>11, <1>12, <1>13, <1>14, KeyOrders
  <1>17. GoesBefore(key, a, c)
    <2>1. CASE x = y
      <3>1. y # z
        BY <1>6, <1>11, <1>12, <1>13, <1>14, <2>1
      <3>2. GoesBefore(key, b, c)
        BY <1>16, <3>1
      <3> QED BY <1>12, <1>13, <2>1, <3>2 DEF GoesBefore
    <2>2. CASE x # y /\ y = z
      <3>1. GoesBefore(key, a, b)
        BY <1>15, <2>2
      <3> QED BY <1>13, <1>14, <2>2, <3>1 DEF GoesBefore
    <2>3. CASE x # y /\ y # z
      BY <1>15, <1>16, <2>3
    <2> QED BY <2>1, <2>2, <2>3
  <1>18. ~GoesBefore(key, c, a)
    BY <1>12, <1>14, <1>17, KeyOrders DEF GoesBefore
  <1>19. m # k
    BY <1>1, <1>11, <1>18
  <1>20. m \in 1..(k - 1)
    BY <1>6, <1>19
  <1> QED BY <1>1, <1>6, <1>11, <1>17, <1>20

(* Rows that are in order one by one are in order. *)
LEMMA SortedPairs ==
    ASSUME NEW keys, Len(keys) \in Nat, NEW cols, NEW n \in Nat, NEW s,
           \A i \in 1..n : HasValues(s[i], cols),
           \A i \in 1..(n - 1) : InOrder(keys, cols, s[i], s[i + 1])
    PROVE  \A i, j \in 1..n : i < j => InOrder(keys, cols, s[i], s[j])
  <1>1. SUFFICES ASSUME NEW i \in 1..n PROVE \A j \in 1..n : i < j => InOrder(keys, cols, s[i], s[j])
    OBVIOUS
  <1> DEFINE Bad == {j \in 1..n : i < j /\ ~InOrder(keys, cols, s[i], s[j])}
  <1>2. SUFFICES ASSUME Bad # {} PROVE FALSE
    OBVIOUS
  <1>3. Bad \in SUBSET Nat
    OBVIOUS
  <1>4. PICK j \in Bad : \A k \in Bad : j <= k
    <2> HIDE DEF Bad
    <2> QED BY <1>2, <1>3, LeastOf
  <1>5. j \in 1..n /\ i < j /\ ~InOrder(keys, cols, s[i], s[j])
    BY <1>4
  <1>6. j - 1 \in 1..n /\ j - 1 \in 1..(n - 1) /\ (j - 1) + 1 = j /\ ~(j <= j - 1)
    BY <1>5
  <1>7. InOrder(keys, cols, s[j - 1], s[j])
    BY <1>6
  <1>8. CASE j - 1 = i
    BY <1>5, <1>7, <1>8
  <1>9. CASE j - 1 # i
    <2>1. i < j - 1
      BY <1>5, <1>6, <1>9
    <2>2. InOrder(keys, cols, s[i], s[j - 1])
      BY <1>4, <1>6, <2>1
    <2>3. PICK b : b = s[j - 1]
      OBVIOUS
    <2>4. HasValues(s[i], cols) /\ HasValues(b, cols) /\ HasValues(s[j], cols)
      BY <1>5, <1>6, <2>3
    <2>5. InOrder(keys, cols, s[i], s[j])
      BY <1>7, <2>2, <2>3, <2>4, OrderIsTransitive
    <2> QED BY <1>5, <2>5
  <1> QED BY <1>8, <1>9

(* Rows of a batch of n: each number once, each with its values. *)
IsRows(n, rows, cols) ==
    /\ rows = [i \in 1..n |-> rows[i]]
    /\ \A i \in 1..n : HasValues(rows[i], cols) /\ rows[i].id \in 1..n
    /\ \A i, j \in 1..n : rows[i].id = rows[j].id => i = j
    /\ \A x \in 1..n : \E i \in 1..n : rows[i].id = x

(* What a sort leaves alone, and that it sorts. *)
LEMMA SortIs ==
    ASSUME NEW n \in Nat, NEW batch, IsRows(n, batch.rows, batch.cols), Len(batch.rows) = n,
           NEW sorter, NEW lead, NEW keys,
           keys = SortKeys(sorter.keys, [i \in 1..Len(lead) |-> LeadKey(lead[i])]), Len(keys) \in Nat,
           NEW out \in Sort(sorter, batch, lead), out.result # "Err"
    PROVE  /\ out.result = "Ok" /\ out.batch.cols = batch.cols
           /\ Len(out.batch.rows) = n /\ IsRows(n, out.batch.rows, batch.cols)
           /\ \A i, j \in 1..n : i < j => InOrder(keys, batch.cols, out.batch.rows[i], out.batch.rows[j])
  <1>1. PICK rows : rows = batch.rows
    OBVIOUS
  <1>2. PICK cols : cols = batch.cols
    OBVIOUS
  <1> DEFINE present == {i \in 1..Len(keys) : keys[i].column \in DOMAIN cols}
             ok(r) == [result |-> "Ok", batch |-> [cols |-> cols, rows |-> r]]
             IsOut(r) == /\ IsRows(n, r, cols) /\ Len(r) = n
                         /\ \A i, j \in 1..n : i < j => InOrder(keys, cols, r[i], r[j])
  <1>3. \/ n <= 1 /\ out = ok(rows)
        \/ present = {} /\ out = ok(rows)
        \/ \E r \in SortedRows(keys, cols, rows) : out = ok(r)
    <2>2. out \in IF n <= 1 THEN {ok(rows)}
                  ELSE IF present # 1..Len(keys) /\ sorter.onMissing = "error" THEN {[result |-> "Err"]}
                  ELSE IF present = {} THEN {ok(rows)}
                  ELSE {ok(r) : r \in SortedRows(keys, cols, rows)}
      BY <1>1, <1>2, Zenon DEF Sort
    <2>3. out # [result |-> "Err"]
      OBVIOUS
    <2> HIDE DEF present, ok
    <2> QED BY <2>2, <2>3
  <1>4. IsRows(n, rows, cols) /\ Len(rows) = n
    BY <1>1, <1>2
  <1>5. CASE n <= 1 /\ out = ok(rows)
    <2>1. \A i, j \in 1..n : ~(i < j)
      BY <1>5
    <2> QED BY <1>2, <1>4, <1>5, <2>1
  <1>6. CASE present = {} /\ out = ok(rows)
    <2>1. \A i \in 1..Len(keys) : keys[i].column \notin DOMAIN cols
      BY <1>6
    <2>2. \A a, b : InOrder(keys, cols, a, b)
      BY <2>1 DEF InOrder
    <2> QED BY <1>2, <1>4, <1>6, <2>2
  <1>7. ASSUME NEW r \in SortedRows(keys, cols, rows), out = ok(r) PROVE IsOut(r)
    <2>1. PICK p \in Bijection(1..n, 1..n) : r = [i \in 1..n |-> rows[p[i]]]
      BY <1>4 DEF SortedRows
    <2>2. \A i \in 1..(n - 1) : InOrder(keys, cols, r[i], r[i + 1])
      BY <1>4 DEF SortedRows
    <2>3. /\ p \in [1..n -> 1..n] /\ \A x \in 1..n : \E i \in 1..n : p[i] = x
          /\ \A i, j \in 1..n : p[i] = p[j] => i = j
      BY <2>1 DEF Bijection, Injection, Surjection, IsInjective
    <2>4. Len(r) = n /\ r = [i \in 1..n |-> r[i]] /\ \A i \in 1..n : r[i] = rows[p[i]]
      BY <2>1
    <2>5. \A i \in 1..n : HasValues(r[i], cols) /\ r[i].id \in 1..n
      <3>1. SUFFICES ASSUME NEW i \in 1..n PROVE HasValues(r[i], cols) /\ r[i].id \in 1..n
        OBVIOUS
      <3>2. PICK k \in 1..n : k = p[i]
        BY <2>3
      <3>3. r[i] = rows[k]
        BY <2>4, <3>2
      <3>4. HasValues(rows[k], cols) /\ rows[k].id \in 1..n
        BY <1>4 DEF IsRows
      <3> QED BY <3>3, <3>4
    <2>6. \A i, j \in 1..n : r[i].id = r[j].id => i = j
      <3>1. SUFFICES ASSUME NEW i \in 1..n, NEW j \in 1..n, r[i].id = r[j].id PROVE i = j
        OBVIOUS
      <3>2. PICK k \in 1..n : k = p[i]
        BY <2>3
      <3>3. PICK l \in 1..n : l = p[j]
        BY <2>3
      <3>4. r[i] = rows[k] /\ r[j] = rows[l]
        BY <2>4, <3>2, <3>3
      <3>5. k = l
        BY <1>4, <3>1, <3>4 DEF IsRows
      <3> QED BY <2>3, <3>2, <3>3, <3>5
    <2>7. \A x \in 1..n : \E i \in 1..n : r[i].id = x
      <3>1. SUFFICES ASSUME NEW x \in 1..n PROVE \E i \in 1..n : r[i].id = x
        OBVIOUS
      <3>2. PICK k \in 1..n : rows[k].id = x
        BY <1>4 DEF IsRows
      <3>3. PICK i \in 1..n : p[i] = k
        BY <2>3
      <3> QED BY <2>4, <3>2, <3>3
    <2>8. IsRows(n, r, cols)
      BY <2>4, <2>5, <2>6, <2>7 DEF IsRows
    <2>9. \A i, j \in 1..n : i < j => InOrder(keys, cols, r[i], r[j])
      BY <2>2, <2>5, SortedPairs
    <2> QED BY <2>4, <2>8, <2>9
  <1>8. CASE \E r \in SortedRows(keys, cols, rows) : out = ok(r)
    <2>1. PICK r \in SortedRows(keys, cols, rows) : out = ok(r)
      BY <1>8
    <2>2. IsOut(r)
      BY <1>7, <2>1
    <2>3. out.result = "Ok" /\ out.batch.cols = cols /\ out.batch.rows = r
      BY <2>1
    <2> QED BY <1>2, <2>2, <2>3
  <1> QED BY <1>3, <1>5, <1>6, <1>8

(* How parts hold the n rows of s: place[k][m] is the place in s of the m-th row  *)
(* of part k.                                                                     *)
Spread(parts, s, n, place) ==
    /\ Len(parts) \in Nat
    /\ \A k \in 1..Len(parts) :
          /\ Len(parts[k].rows) \in 0..n
          /\ \A m \in 1..Len(parts[k].rows) : place[k][m] \in 1..n /\ parts[k].rows[m] = s[place[k][m]]
          /\ \A m, l \in 1..Len(parts[k].rows) : m < l => place[k][m] < place[k][l]
    /\ \A i \in 1..n : \E k \in 1..Len(parts) : \E m \in 1..Len(parts[k].rows) : place[k][m] = i
    /\ \A k, j \in 1..Len(parts) :
          \A m \in 1..Len(parts[k].rows), l \in 1..Len(parts[j].rows) : place[k][m] = place[j][l] => k = j

(* A row of a part. *)
LEMMA RowOfPart ==
    ASSUME NEW parts, NEW s, NEW n, NEW place, Spread(parts, s, n, place),
           NEW k \in 1..Len(parts), NEW m \in 1..Len(parts[k].rows)
    PROVE  place[k][m] \in 1..n /\ parts[k].rows[m] = s[place[k][m]]
  BY DEF Spread

(* Parts that hold the rows in this way hold each of them once. *)
LEMMA SpreadOnce ==
    ASSUME NEW n \in Nat, NEW s, NEW cols, IsRows(n, s, cols), NEW parts, NEW place, Spread(parts, s, n, place),
           NEW batch, Len(batch.rows) = n, \A i \in 1..n : batch.rows[i].id = i
    PROVE  EachRowOnce(batch, parts)
  <1>1. SUFFICES ASSUME NEW i \in 1..n
                 PROVE  Cardinality({w \in (1..Len(parts)) \X (1..n) :
                          /\ w[2] <= Len(parts[w[1]].rows)
                          /\ parts[w[1]].rows[w[2]].id = batch.rows[i].id}) = 1
    BY DEF EachRowOnce
  <1> DEFINE S == {w \in (1..Len(parts)) \X (1..n) :
                    /\ w[2] <= Len(parts[w[1]].rows)
                    /\ parts[w[1]].rows[w[2]].id = batch.rows[i].id}
  <1>2. PICK x \in 1..n : s[x].id = i
    BY DEF IsRows
  <1>3. PICK k \in 1..Len(parts) : \E m \in 1..Len(parts[k].rows) : place[k][m] = x
    BY DEF Spread
  <1>4. PICK m \in 1..Len(parts[k].rows) : place[k][m] = x
    BY <1>3
  <1>5. Len(parts[k].rows) \in 0..n
    BY DEF Spread
  <1>6. m \in 1..n /\ m <= Len(parts[k].rows)
    BY <1>5
  <1>7. parts[k].rows[m].id = i
    <2>1. parts[k].rows[m] = s[place[k][m]]
      BY RowOfPart
    <2> QED BY <1>2, <1>4, <2>1
  <1>8. <<k, m>> \in S
    <2>1. batch.rows[i].id = i
      OBVIOUS
    <2> QED BY <1>6, <1>7, <2>1
  <1>9. ASSUME NEW w \in S PROVE w = <<k, m>>
    <2>1. PICK j \in 1..Len(parts), l \in 1..n : w = <<j, l>>
      OBVIOUS
    <2>2. l <= Len(parts[j].rows) /\ parts[j].rows[l].id = i
      BY <2>1
    <2>3. Len(parts[j].rows) \in 0..n
      BY DEF Spread
    <2>4. l \in 1..Len(parts[j].rows)
      BY <2>2, <2>3
    <2>5. PICK y \in 1..n : y = place[j][l] /\ parts[j].rows[l] = s[y]
      <3>1. place[j][l] \in 1..n /\ parts[j].rows[l] = s[place[j][l]]
        BY <2>4, RowOfPart
      <3> QED BY <3>1
    <2>6. place[j][l] = x
      <3>1. s[y].id = s[x].id
        BY <1>2, <2>2, <2>5
      <3>2. \A a, b \in 1..n : s[a].id = s[b].id => a = b
        BY DEF IsRows
      <3> QED BY <2>5, <3>1, <3>2
    <2>7. j = k
      <3>1. \A a, b \in 1..Len(parts) : \A c \in 1..Len(parts[a].rows), d \in 1..Len(parts[b].rows) :
              place[a][c] = place[b][d] => a = b
        BY DEF Spread
      <3>2. place[j][l] = place[k][m]
        BY <1>4, <2>6
      <3>3. \A c \in 1..Len(parts[j].rows) : \A d \in 1..Len(parts[k].rows) :
              place[j][c] = place[k][d] => j = k
        BY <3>1
      <3>4. \A d \in 1..Len(parts[k].rows) : place[j][l] = place[k][d] => j = k
        BY <2>4, <3>3
      <3>5. m \in 1..Len(parts[k].rows)
        OBVIOUS
      <3> QED BY <3>2, <3>4, <3>5
    <2>8. ~(l < m) /\ ~(m < l)
      <3>1. x \in Int /\ ~(x < x)
        OBVIOUS
      <3>2. \A a, b \in 1..Len(parts[k].rows) : a < b => place[k][a] < place[k][b]
        BY DEF Spread
      <3> QED BY <1>4, <2>4, <2>6, <2>7, <3>1, <3>2, SMTT(30)
    <2>9. l = m
      BY <2>8
    <2> QED BY <2>1, <2>7, <2>9
  <1> HIDE DEF S
  <1>10. S = {<<k, m>>}
    BY <1>8, <1>9
  <1>11. Cardinality(S) = 1
    BY <1>10, FS_Singleton
  <1> QED BY <1>11 DEF S

(* Parts of rows in order are in order. *)
LEMMA SpreadInOrder ==
    ASSUME NEW n \in Nat, NEW s, NEW parts, NEW place, Spread(parts, s, n, place), NEW sorter, NEW cols,
           \A i, j \in 1..n : i < j => InOrder(sorter.keys, cols, s[i], s[j])
    PROVE  RowsInOrder(sorter, cols, parts)
  <1>1. SUFFICES ASSUME NEW k \in 1..Len(parts), NEW m \in 1..(Len(parts[k].rows) - 1)
                 PROVE  InOrder(sorter.keys, cols, parts[k].rows[m], parts[k].rows[m + 1])
    BY DEF RowsInOrder
  <1>2. Len(parts[k].rows) \in 0..n
    BY DEF Spread
  <1>3. m \in 1..Len(parts[k].rows) /\ m + 1 \in 1..Len(parts[k].rows) /\ m < m + 1
    BY <1>2
  <1>a. /\ \A l \in 1..Len(parts[k].rows) : place[k][l] \in 1..n /\ parts[k].rows[l] = s[place[k][l]]
        /\ \A l, o \in 1..Len(parts[k].rows) : l < o => place[k][l] < place[k][o]
    BY DEF Spread
  <1>4. PICK i \in 1..n : i = place[k][m] /\ parts[k].rows[m] = s[i]
    BY <1>3, <1>a
  <1>b. PICK o \in 1..Len(parts[k].rows) : o = m + 1
    BY <1>3
  <1>5. PICK j \in 1..n : j = place[k][o] /\ parts[k].rows[o] = s[j]
    BY <1>a
  <1>6. i < j
    BY <1>3, <1>4, <1>5, <1>a, <1>b
  <1> QED BY <1>4, <1>5, <1>6, <1>b

(* Places of the rows of each group. *)
Groups(key, list, n) == [k \in 1..Len(list) |-> Ascending({i \in 1..n : key[i] = list[k]})]

(* A list with each key of the rows once, and parts with the rows of each key. *)
ListsKeys(list, key, n) ==
    /\ Len(list) \in Nat
    /\ \A j, k \in 1..Len(list) : list[j] = list[k] => j = k
    /\ \A i \in 1..n : \E k \in 1..Len(list) : list[k] = key[i]

PartsBy(parts, rows, key, list) ==
    Len(parts) = Len(list) /\ \A k \in 1..Len(list) : parts[k].rows = RowsWith(rows, key, list[k])

(* Rows that are grouped by a key are spread over the groups. *)
LEMMA GroupsSpread ==
    ASSUME NEW n \in Nat, NEW rows, Len(rows) = n, NEW key, NEW list, ListsKeys(list, key, n),
           NEW parts, PartsBy(parts, rows, key, list), NEW place, place = Groups(key, list, n)
    PROVE  /\ Spread(parts, rows, n, place)
           /\ \A k \in 1..Len(parts) : \A m \in 1..Len(parts[k].rows) : key[place[k][m]] = list[k]
  <1> DEFINE S(k) == {i \in 1..n : key[i] = list[k]}
  <1>1. Len(list) \in Nat /\ Len(parts) = Len(list)
    BY DEF ListsKeys, PartsBy
  <1>2. ASSUME NEW k \in 1..Len(list)
        PROVE  /\ place[k] = Ascending(S(k)) /\ Cardinality(S(k)) \in 0..n
               /\ Len(parts[k].rows) = Cardinality(S(k))
               /\ \A m \in 1..Cardinality(S(k)) : place[k][m] \in S(k) /\ parts[k].rows[m] = rows[place[k][m]]
               /\ \A x \in S(k) : \E m \in 1..Cardinality(S(k)) : place[k][m] = x
               /\ \A j, m \in 1..Cardinality(S(k)) : j < m => place[k][j] < place[k][m]
    <2>1. PICK T \in SUBSET (1..n) : T = S(k)
      OBVIOUS
    <2>2. place[k] = Ascending(T)
      BY <2>1, Zenon DEF Groups
    <2>3. PICK c \in Nat : c = Cardinality(T)
      BY AscendingOnce
    <2>4. c <= n
      <3>1. IsFiniteSet(1..n) /\ Cardinality(1..n) = n
        BY FS_Interval
      <3> QED BY <2>3, <3>1, FS_Subset
    <2>5. parts[k].rows = AtPlaces(rows, T)
      BY <2>1, Zenon DEF RowsWith, PartsBy
    <2>6. parts[k].rows = [m \in 1..c |-> rows[place[k][m]]]
      BY <2>2, <2>3, <2>5, Zenon DEF AtPlaces
    <2>7. Len(parts[k].rows) = c /\ \A m \in 1..c : parts[k].rows[m] = rows[place[k][m]]
      BY <2>6
    <2>8. PICK a : a = Ascending(T)
      OBVIOUS
    <2>9. /\ \A m \in 1..c : a[m] \in T
          /\ \A x \in T : \E m \in 1..c : a[m] = x
          /\ \A j, m \in 1..c : j < m => a[j] < a[m]
      BY <2>3, <2>8, AscendingOnce
    <2> HIDE DEF S
    <2>10. place[k] = a
      BY <2>2, <2>8
    <2> QED BY <2>1, <2>2, <2>3, <2>4, <2>7, <2>9, <2>10
  <1>3. ASSUME NEW k \in 1..Len(parts), NEW m \in 1..Len(parts[k].rows)
        PROVE  place[k][m] \in 1..n /\ key[place[k][m]] = list[k] /\ parts[k].rows[m] = rows[place[k][m]]
    <2>1. k \in 1..Len(list)
      BY <1>1
    <2>2. place[k][m] \in S(k) /\ parts[k].rows[m] = rows[place[k][m]]
      <3> HIDE DEF S
      <3>1. m \in 1..Cardinality(S(k))
        BY <1>2, <2>1
      <3> QED BY <1>2, <2>1, <3>1
    <2> QED BY <2>2
  <1>4. \A i \in 1..n : \E k \in 1..Len(parts) : \E m \in 1..Len(parts[k].rows) : place[k][m] = i
    <2>1. SUFFICES ASSUME NEW i \in 1..n
                   PROVE  \E k \in 1..Len(parts) : \E m \in 1..Len(parts[k].rows) : place[k][m] = i
      OBVIOUS
    <2>2. PICK k \in 1..Len(list) : list[k] = key[i]
      BY DEF ListsKeys
    <2>3. i \in S(k)
      BY <2>2
    <2>4. PICK m \in 1..Len(parts[k].rows) : place[k][m] = i
      <3> HIDE DEF S
      <3> QED BY <1>2, <2>3
    <2> QED BY <1>1, <2>4
  <1>5. \A k, j \in 1..Len(parts) :
          \A m \in 1..Len(parts[k].rows), l \in 1..Len(parts[j].rows) : place[k][m] = place[j][l] => k = j
    <2>1. SUFFICES ASSUME NEW k \in 1..Len(parts), NEW j \in 1..Len(parts),
                          NEW m \in 1..Len(parts[k].rows), NEW l \in 1..Len(parts[j].rows),
                          place[k][m] = place[j][l]
                   PROVE  k = j
      OBVIOUS
    <2>2. key[place[k][m]] = list[k]
      BY <1>3
    <2>3. key[place[j][l]] = list[j]
      BY <1>3
    <2> QED BY <1>1, <2>1, <2>2, <2>3 DEF ListsKeys
  <1>6. ASSUME NEW k \in 1..Len(parts)
        PROVE  /\ Len(parts[k].rows) \in 0..n
               /\ \A m, l \in 1..Len(parts[k].rows) : m < l => place[k][m] < place[k][l]
    <2>1. k \in 1..Len(list)
      BY <1>1
    <2> HIDE DEF S
    <2> QED BY <1>2, <2>1
  <1>7. Len(parts) \in Nat
    BY <1>1
  <1>8. Spread(parts, rows, n, place)
    <2>1. \A k \in 1..Len(parts) :
            /\ Len(parts[k].rows) \in 0..n
            /\ \A m \in 1..Len(parts[k].rows) : place[k][m] \in 1..n /\ parts[k].rows[m] = rows[place[k][m]]
            /\ \A m, l \in 1..Len(parts[k].rows) : m < l => place[k][m] < place[k][l]
      BY <1>3, <1>6
    <2> QED BY <1>4, <1>5, <1>7, <2>1, Zenon DEF Spread
  <1> QED BY <1>3, <1>8

(* Keys, and keys with a lead column before them. *)
IsKeys(keys) == keys = [i \in 1..Len(keys) |-> keys[i]] /\ Len(keys) \in Nat
WithLead(keys, lead) == SortKeys(keys, [i \in 1..Len(lead) |-> LeadKey(lead[i])])

(* After a lead column, the keys stand one place further. *)
LEMMA LeadIs ==
    ASSUME NEW keys, IsKeys(keys), NEW lead, Len(lead) \in Nat, NEW all, all = WithLead(keys, lead)
    PROVE  /\ Len(all) = Len(lead) + Len(keys)
           /\ \A i \in 1..Len(lead) : all[i] = LeadKey(lead[i])
           /\ \A i \in 1..Len(keys) : all[Len(lead) + i] = keys[i]
  <1>1. PICK ks : ks = [i \in 1..Len(lead) |-> LeadKey(lead[i])]
    OBVIOUS
  <1>2. PICK nl \in Nat : nl = Len(lead)
    OBVIOUS
  <1>3. PICK nk \in Nat : nk = Len(keys)
    BY DEF IsKeys
  <1> DEFINE T == {keys[i] : i \in 1..nk} \cup {LeadKey(lead[i]) : i \in 1..nl}
  <1>4. keys \in [1..nk -> T]
    BY <1>3 DEF IsKeys
  <1>5. ks \in [1..nl -> T]
    BY <1>1, <1>2
  <1>6. \A i \in 1..nl : ks[i] = LeadKey(lead[i])
    BY <1>1, <1>2
  <1> HIDE DEF T
  <1>7. keys \in Seq(T) /\ ks \in Seq(T) /\ Len(ks) = nl
    BY <1>4, <1>5
  <1>8. all = ks \o keys
    BY <1>1 DEF SortKeys, WithLead
  <1>9. Len(all) = nl + nk
    <2>1. Len(ks \o keys) = Len(ks) + Len(keys)
      BY <1>7, ConcatProperties, Zenon
    <2> QED BY <1>3, <1>7, <1>8, <2>1, Zenon
  <1>10. \A i \in 1..nl : all[i] = ks[i]
    BY <1>3, <1>7, <1>8
  <1>11. \A i \in 1..nk : all[nl + i] = keys[i]
    <2>1. SUFFICES ASSUME NEW i \in 1..nk PROVE all[nl + i] = keys[i]
      OBVIOUS
    <2>2. PICK x \in 1..(nl + nk) : x = nl + i
      OBVIOUS
    <2>3. x > nl /\ x - nl = i
      BY <2>2
    <2>4. all[x] = keys[x - nl]
      <3>1. \A y \in 1..Len(ks) + Len(keys) :
              (ks \o keys)[y] = IF y <= Len(ks) THEN ks[y] ELSE keys[y - Len(ks)]
        BY <1>7, ConcatProperties, Zenon
      <3>2. (ks \o keys)[x] = IF x <= nl THEN ks[x] ELSE keys[x - nl]
        BY <1>3, <1>7, <3>1, Zenon
      <3>3. ~(x <= nl)
        BY <2>3
      <3> QED BY <1>8, <3>2, <3>3, Zenon
    <2> QED BY <2>2, <2>3, <2>4
  <1> QED BY <1>2, <1>3, <1>6, <1>9, <1>10, <1>11

(* Rows in order under all keys, and equal under the first of them, are in order *)
(* under the others.                                                             *)
LEMMA InOrderLater ==
    ASSUME NEW nl \in Nat, NEW keys, Len(keys) \in Nat, NEW all, Len(all) = nl + Len(keys),
           \A i \in 1..Len(keys) : all[nl + i] = keys[i], NEW cols, NEW a, NEW b,
           \A i \in 1..nl : a[all[i].column] = b[all[i].column],
           InOrder(all, cols, a, b)
    PROVE  InOrder(keys, cols, a, b)
  <1>1. SUFFICES ASSUME NEW k \in 1..Len(keys), keys[k].column \in DOMAIN cols, GoesBefore(keys[k], b, a)
                 PROVE  \E j \in 1..(k - 1) : keys[j].column \in DOMAIN cols /\ GoesBefore(keys[j], a, b)
    BY DEF InOrder
  <1>2. PICK o \in 1..Len(all) : o = nl + k
    OBVIOUS
  <1>3. all[o].column \in DOMAIN cols /\ GoesBefore(all[o], b, a)
    BY <1>1, <1>2
  <1>4. PICK i \in 1..(o - 1) : all[i].column \in DOMAIN cols /\ GoesBefore(all[i], a, b)
    BY <1>3 DEF InOrder
  <1>5. i \notin 1..nl
    BY <1>4 DEF GoesBefore
  <1>6. PICK j \in 1..(k - 1) : i = nl + j
    <2>1. i - nl \in 1..(k - 1) /\ i = nl + (i - nl)
      BY <1>2, <1>5
    <2> QED BY <2>1
  <1>7. j \in 1..Len(keys)
    OBVIOUS
  <1>8. all[i] = keys[j]
    BY <1>6, <1>7
  <1> QED BY <1>4, <1>8

(* Places of the rows of each slice. *)
Slices(begin, c, n) == [k \in 1..c |-> [m \in 1..n |-> begin[k] + m - 1]]

(* Where slices start and end: they follow each other, from the first row to the *)
(* last, and a slice starts where the key changes and nowhere else.              *)
SlicesAre(s, n, column, begin, until, c) ==
    /\ \A k \in 1..c : begin[k] \in 1..n /\ until[k] \in 1..n /\ begin[k] <= until[k]
    /\ \A j, k \in 1..c : j < k => begin[j] < begin[k] /\ until[j] < begin[k]
    /\ \A i \in 1..n : \E k \in 1..c : begin[k] <= i /\ i <= until[k]
    /\ \A k \in 1..c : begin[k] = 1 \/ s[begin[k]][column] # s[begin[k] - 1][column]
    /\ \A k \in 1..c : \A i \in 1..n : begin[k] <= i /\ i <= until[k] => s[i][column] = s[begin[k]][column]

(* Rows where a slice starts, their number in order, and where each slice ends. *)
StartsAre(s, n, column, starts) == starts = {i \in 1..n : i = 1 \/ s[i][column] # s[i - 1][column]}
FromIs(starts, begin, c) == begin = Ascending(starts) /\ c = Cardinality(starts)
UntilIs(begin, until, c, n) == \A k \in 1..c : until[k] = IF k = c THEN n ELSE begin[k + 1] - 1

LEMMA SlicesFollow ==
    ASSUME NEW n \in Nat, n # 0, NEW s, NEW column, NEW starts, StartsAre(s, n, column, starts),
           NEW begin, NEW c, FromIs(starts, begin, c), NEW until, UntilIs(begin, until, c, n)
    PROVE  c \in Nat /\ SlicesAre(s, n, column, begin, until, c)
  <1>1. starts \in SUBSET (1..n) /\ 1 \in starts
    BY DEF StartsAre
  <1>2. /\ c \in Nat
        /\ \A k \in 1..c : begin[k] \in starts
        /\ \A x \in starts : \E k \in 1..c : begin[k] = x
        /\ \A j, k \in 1..c : j < k => begin[j] < begin[k]
    <2>1. PICK T : T = Ascending(starts)
      OBVIOUS
    <2>2. PICK d : d = Cardinality(starts)
      OBVIOUS
    <2>3. /\ d \in Nat
          /\ \A k \in 1..d : T[k] \in starts
          /\ \A x \in starts : \E k \in 1..d : T[k] = x
          /\ \A j, k \in 1..d : j < k => T[j] < T[k]
      BY <1>1, <2>1, <2>2, AscendingOnce
    <2>4. T = begin /\ d = c
      BY <2>1, <2>2 DEF FromIs
    <2> QED BY <2>3, <2>4
  <1>3. \A k \in 1..c : begin[k] \in 1..n
    BY <1>1, <1>2
  <1>4. ASSUME NEW k \in 1..c
        PROVE  /\ until[k] \in 1..n /\ begin[k] <= until[k]
               /\ \A j \in 1..c : k < j => until[k] < begin[j]
    <2>1. CASE k = c
      <3>1. until[k] = n
        BY <2>1 DEF UntilIs
      <3>2. begin[k] \in 1..n
        BY <1>3
      <3>3. \A j \in 1..c : ~(k < j)
        BY <1>2, <2>1
      <3> QED BY <3>1, <3>2, <3>3
    <2>2. CASE k # c
      <3>1. PICK l \in 1..c : l = k + 1
        <4>1. k + 1 \in 1..c
          BY <1>2, <2>2
        <4> QED BY <4>1
      <3>2. until[k] = begin[l] - 1
        BY <2>2, <3>1 DEF UntilIs
      <3>3. begin[k] \in 1..n /\ begin[l] \in 1..n
        BY <1>3
      <3>4. begin[k] < begin[l]
        BY <1>2, <3>1
      <3>5. ASSUME NEW j \in 1..c, k < j PROVE until[k] < begin[j]
        <4>1. begin[j] \in 1..n
          BY <1>3
        <4>2. j = l \/ l < j
          BY <3>1, <3>5
        <4>3. begin[l] <= begin[j]
          BY <1>2, <3>3, <4>1, <4>2
        <4> QED BY <3>2, <3>3, <4>1, <4>3
      <3> QED BY <3>2, <3>3, <3>4, <3>5
    <2> QED BY <2>1, <2>2
  <1>5. ASSUME NEW i \in 1..n PROVE \E k \in 1..c : begin[k] <= i /\ i <= until[k]
    <2> DEFINE K == {k \in 1..c : begin[k] <= i}
    <2>1. PICK first \in 1..c : begin[first] = 1
      BY <1>1, <1>2
    <2>2. first \in K
      BY <2>1
    <2>3. K \in SUBSET (0..c) /\ K # {}
      BY <1>2, <2>2
    <2>4. PICK k \in K : \A j \in K : j <= k
      <3> HIDE DEF K
      <3> QED BY <1>2, <2>3, GreatestOf
    <2>5. k \in 1..c /\ begin[k] <= i
      BY <2>4
    <2>6. CASE k = c
      <3>1. until[k] = n /\ i <= n
        BY <2>5, <2>6 DEF UntilIs
      <3> HIDE DEF K
      <3> QED BY <2>5, <3>1
    <2>7. CASE k # c
      <3>1. PICK l \in 1..c : l = k + 1
        <4>1. k + 1 \in 1..c
          BY <1>2, <2>5, <2>7
        <4> QED BY <4>1
      <3>2. until[k] = begin[l] - 1
        BY <2>5, <2>7, <3>1 DEF UntilIs
      <3>3. ~(begin[l] <= i)
        <4>1. ~(l <= k)
          BY <2>5, <3>1
        <4> QED BY <2>4, <4>1
      <3>4. begin[l] \in 1..n
        BY <1>3
      <3>5. i <= until[k]
        BY <3>2, <3>3, <3>4
      <3> HIDE DEF K
      <3> QED BY <2>5, <3>5
    <2> QED BY <2>6, <2>7
  <1>6. \A k \in 1..c : begin[k] = 1 \/ s[begin[k]][column] # s[begin[k] - 1][column]
    BY <1>2 DEF StartsAre
  <1>7. ASSUME NEW k \in 1..c
        PROVE  \A i \in 1..n : begin[k] <= i /\ i <= until[k] => s[i][column] = s[begin[k]][column]
    <2> DEFINE Bad == {i \in 1..n : begin[k] <= i /\ i <= until[k] /\ s[i][column] # s[begin[k]][column]}
    <2>1. SUFFICES ASSUME Bad # {} PROVE FALSE
      OBVIOUS
    <2>2. Bad \in SUBSET Nat
      OBVIOUS
    <2>3. PICK i \in Bad : \A j \in Bad : i <= j
      <3> HIDE DEF Bad
      <3> QED BY <2>1, <2>2, LeastOf
    <2>4. i \in 1..n /\ begin[k] <= i /\ i <= until[k] /\ s[i][column] # s[begin[k]][column]
      BY <2>3
    <2>5. PICK a \in 1..n : a = begin[k]
      BY <1>3
    <2>6. PICK u \in 1..n : u = until[k]
      BY <1>4
    <2>7. a # i
      BY <2>4, <2>5
    <2>8. PICK o \in 1..n : o = i - 1 /\ a <= o /\ o <= u /\ ~(i <= o)
      <3>1. /\ i - 1 \in 1..n /\ a <= i - 1 /\ i - 1 <= u /\ ~(i <= i - 1)
        BY <2>4, <2>5, <2>6, <2>7
      <3> QED BY <3>1
    <2>9. s[o][column] = s[a][column]
      BY <2>3, <2>5, <2>6, <2>8
    <2>10. i \in starts
      <3>1. s[i][column] # s[i - 1][column]
        BY <2>4, <2>5, <2>8, <2>9
      <3> QED BY <2>4, <3>1 DEF StartsAre
    <2>11. PICK j \in 1..c : begin[j] = i
      BY <1>2, <2>10
    <2>12. ~(j < k)
      <3>1. begin[k] = a /\ begin[j] = i /\ a <= i /\ a # i
        BY <2>4, <2>5, <2>7, <2>11
      <3> QED BY <1>2, <2>4, <3>1
    <2>13. ~(k < j)
      BY <1>4, <2>4, <2>6, <2>11
    <2>14. j = k
      BY <1>2, <2>12, <2>13
    <2> QED BY <2>5, <2>7, <2>11, <2>14
  <1>8. /\ \A k \in 1..c : begin[k] \in 1..n /\ until[k] \in 1..n /\ begin[k] <= until[k]
        /\ \A j, k \in 1..c : j < k => begin[j] < begin[k] /\ until[j] < begin[k]
    BY <1>2, <1>3, <1>4
  <1> QED BY <1>2, <1>5, <1>6, <1>7, <1>8 DEF SlicesAre

(* Parts that are the slices of s. *)
SlicedInto(parts, s, n, column, begin, until, c) ==
    /\ SlicesAre(s, n, column, begin, until, c) /\ Len(parts) = c
    /\ \A k \in 1..c : /\ parts[k].path = s[begin[k]][column]
                       /\ parts[k].rows = SubSeq(s, begin[k], until[k])

(* Each part has one value in a column. *)
KeyIsPath(parts, column) ==
    \A k \in 1..Len(parts) : \A m \in 1..Len(parts[k].rows) : parts[k].rows[m][column] = parts[k].path

(* Rows that are cut into slices are spread over them. *)
LEMMA SlicesSpread ==
    ASSUME NEW n \in Nat, NEW s, NEW T, s \in Seq(T), Len(s) = n, NEW column, NEW begin, NEW until, NEW c \in Nat,
           NEW parts, SlicedInto(parts, s, n, column, begin, until, c)
    PROVE  Spread(parts, s, n, Slices(begin, c, n)) /\ KeyIsPath(parts, column)
  <1>1. PICK place : place = Slices(begin, c, n)
    OBVIOUS
  <1>2. ASSUME NEW k \in 1..c
        PROVE  /\ begin[k] \in 1..n /\ until[k] \in 1..n /\ begin[k] <= until[k]
               /\ Len(parts[k].rows) = until[k] - begin[k] + 1
               /\ \A m \in 1..Len(parts[k].rows) : place[k][m] = begin[k] + m - 1
               /\ \A m \in 1..Len(parts[k].rows) : parts[k].rows[m] = s[begin[k] + m - 1]
    <2>1. begin[k] \in 1..n /\ until[k] \in 1..n /\ begin[k] <= until[k]
      BY DEF SlicesAre, SlicedInto
    <2>2. PICK a \in 1..n : a = begin[k]
      BY <2>1
    <2>3. PICK b \in 1..n : b = until[k] /\ a <= b
      BY <2>1, <2>2
    <2>4. \A i \in a..b : s[i] \in T
      <3>1. SUFFICES ASSUME NEW i \in a..b PROVE s[i] \in T
        OBVIOUS
      <3>2. i \in 1..Len(s)
        OBVIOUS
      <3> QED BY <3>2
    <2>5. a \in Int /\ b \in Int
      OBVIOUS
    <2>6. /\ Len(SubSeq(s, a, b)) = IF a <= b THEN b - a + 1 ELSE 0
          /\ \A i \in 1..(b - a + 1) : SubSeq(s, a, b)[i] = s[a + i - 1]
      BY <2>4, <2>5, SubSeqProperties
    <2>7. parts[k].rows = SubSeq(s, a, b)
      BY <2>2, <2>3 DEF SlicedInto
    <2>8. Len(parts[k].rows) = b - a + 1
      BY <2>3, <2>6, <2>7
    <2>9. \A m \in 1..(b - a + 1) : parts[k].rows[m] = s[a + m - 1]
      BY <2>6, <2>7
    <2>10. place[k] = [m \in 1..n |-> begin[k] + m - 1]
      BY <1>1 DEF Slices
    <2>11. \A m \in 1..(b - a + 1) : place[k][m] = a + m - 1
      BY <2>2, <2>10
    <2> QED BY <2>1, <2>2, <2>3, <2>8, <2>9, <2>11
  <1>3. ASSUME NEW k \in 1..c, NEW m \in 1..Len(parts[k].rows)
        PROVE  \E x \in 1..n : /\ x = place[k][m] /\ x = begin[k] + m - 1 /\ begin[k] <= x /\ x <= until[k]
                               /\ parts[k].rows[m] = s[x]
    <2>1. PICK a \in 1..n : a = begin[k]
      BY <1>2
    <2>2. PICK b \in 1..n : b = until[k] /\ a <= b
      BY <1>2, <2>1
    <2>3. m \in 1..(b - a + 1)
      BY <1>2, <2>1, <2>2
    <2>4. PICK x \in 1..n : x = a + m - 1 /\ a <= x /\ x <= b
      BY <2>1, <2>2, <2>3, SMTT(30)
    <2>5. place[k][m] = x /\ parts[k].rows[m] = s[x]
      BY <1>2, <2>1, <2>4
    <2> QED BY <2>1, <2>2, <2>4, <2>5
  <1>4. ASSUME NEW k \in 1..c
        PROVE  /\ Len(parts[k].rows) \in 0..n
               /\ \A m \in 1..Len(parts[k].rows) : place[k][m] \in 1..n /\ parts[k].rows[m] = s[place[k][m]]
               /\ \A m, l \in 1..Len(parts[k].rows) : m < l => place[k][m] < place[k][l]
    <2>1. Len(parts[k].rows) \in 0..n
      <3>1. PICK a \in 1..n : a = begin[k]
        BY <1>2
      <3>2. PICK b \in 1..n : b = until[k] /\ a <= b
        BY <1>2, <3>1
      <3>3. Len(parts[k].rows) = b - a + 1
        BY <1>2, <3>1, <3>2
      <3> QED BY <3>1, <3>2, <3>3
    <2>2. \A m \in 1..Len(parts[k].rows) : place[k][m] \in 1..n /\ parts[k].rows[m] = s[place[k][m]]
      BY <1>3, SMTT(30)
    <2>3. ASSUME NEW m \in 1..Len(parts[k].rows), NEW l \in 1..Len(parts[k].rows), m < l
          PROVE  place[k][m] < place[k][l]
      <3>1. begin[k] \in 1..n /\ place[k][m] = begin[k] + m - 1 /\ place[k][l] = begin[k] + l - 1
        BY <1>2
      <3>2. m \in Int /\ l \in Int
        OBVIOUS
      <3> QED BY <2>3, <3>1, <3>2
    <2> QED BY <2>1, <2>2, <2>3
  <1>5. ASSUME NEW i \in 1..n PROVE \E k \in 1..c : \E m \in 1..Len(parts[k].rows) : place[k][m] = i
    <2>1. PICK k \in 1..c : begin[k] <= i /\ i <= until[k]
      BY DEF SlicesAre, SlicedInto
    <2>2. PICK a \in 1..n : a = begin[k]
      BY <1>2
    <2>3. PICK b \in 1..n : b = until[k]
      BY <1>2
    <2>4. PICK m \in 1..(b - a + 1) : a + m - 1 = i
      <3>1. i - a + 1 \in 1..(b - a + 1) /\ a + (i - a + 1) - 1 = i
        BY <2>1, <2>2, <2>3
      <3> QED BY <3>1
    <2>5. m \in 1..Len(parts[k].rows)
      BY <1>2, <2>2, <2>3
    <2>6. place[k][m] = i
      BY <1>2, <2>2, <2>4, <2>5
    <2> QED BY <2>5, <2>6
  <1>6. ASSUME NEW k \in 1..c, NEW j \in 1..c, NEW m \in 1..Len(parts[k].rows),
               NEW l \in 1..Len(parts[j].rows), place[k][m] = place[j][l]
        PROVE  k = j
    <2>1. PICK x \in 1..n : x = place[k][m] /\ begin[k] <= x /\ x <= until[k]
      BY <1>3
    <2>2. begin[j] <= x /\ x <= until[j]
      BY <1>3, <1>6, <2>1
    <2>3. /\ begin[k] \in 1..n /\ until[k] \in 1..n /\ begin[j] \in 1..n /\ until[j] \in 1..n
      BY <1>2
    <2>4. \A a, b \in 1..c : a < b => until[a] < begin[b]
      BY DEF SlicesAre, SlicedInto
    <2>5. ~(k < j)
      <3>1. k < j => until[k] < begin[j]
        BY <2>4
      <3> QED BY <2>1, <2>2, <2>3, <3>1
    <2>6. ~(j < k)
      <3>1. j < k => until[j] < begin[k]
        BY <2>4
      <3> QED BY <2>1, <2>2, <2>3, <3>1
    <2> QED BY <2>5, <2>6
  <1>a. Len(parts) = c
    BY DEF SlicedInto
  <1>7. Spread(parts, s, n, place)
    BY <1>4, <1>5, <1>6, <1>a, Zenon DEF Spread
  <1>8. ASSUME NEW k \in 1..c, NEW m \in 1..Len(parts[k].rows)
        PROVE  parts[k].rows[m][column] = parts[k].path
    <2>1. PICK x \in 1..n : begin[k] <= x /\ x <= until[k] /\ parts[k].rows[m] = s[x]
      BY <1>3
    <2>2. s[x][column] = s[begin[k]][column]
      BY <2>1 DEF SlicesAre, SlicedInto
    <2>3. parts[k].path = s[begin[k]][column]
      BY DEF SlicedInto
    <2> QED BY <2>1, <2>2, <2>3
  <1> QED BY <1>1, <1>7, <1>8, <1>a DEF KeyIsPath

(* Rows that all go to one part. *)
Whole(n) == [k \in 1..1 |-> [m \in 1..n |-> m]]

LEMMA WholeSpread ==
    ASSUME NEW n \in Nat, NEW s, Len(s) = n, NEW parts, Len(parts) = 1, parts[1].rows = s
    PROVE  Spread(parts, s, n, Whole(n))
  <1>1. PICK place : place = Whole(n)
    OBVIOUS
  <1>2. \A m \in 1..n : place[1][m] = m
    BY <1>1 DEF Whole
  <1>3. \A k \in 1..Len(parts) : k = 1 /\ parts[k].rows = s /\ Len(parts[k].rows) = n
    OBVIOUS
  <1>4. \A k \in 1..Len(parts) : \A m \in 1..Len(parts[k].rows) : place[k][m] = m /\ m \in 1..n
    BY <1>2, <1>3
  <1>5. \A i \in 1..n : \E k \in 1..Len(parts) : \E m \in 1..Len(parts[k].rows) : place[k][m] = i
    <2>1. 1 \in 1..Len(parts)
      OBVIOUS
    <2> QED BY <1>2, <1>3, <2>1
  <1>6. \A k \in 1..Len(parts) :
          /\ Len(parts[k].rows) \in 0..n
          /\ \A m \in 1..Len(parts[k].rows) : place[k][m] \in 1..n /\ parts[k].rows[m] = s[place[k][m]]
          /\ \A m, l \in 1..Len(parts[k].rows) : m < l => place[k][m] < place[k][l]
    BY <1>3, <1>4
  <1>7. \A k, j \in 1..Len(parts) :
          \A m \in 1..Len(parts[k].rows), l \in 1..Len(parts[j].rows) : place[k][m] = place[j][l] => k = j
    BY <1>3
  <1>8. Len(parts) \in Nat
    OBVIOUS
  <1>9. Spread(parts, s, n, place)
    BY <1>5, <1>6, <1>7, <1>8, Zenon DEF Spread
  <1> QED BY <1>1, <1>9

(* What the rows of a batch are. *)
LEMMA BatchIs ==
    ASSUME NEW batch, IsBatch(batch)
    PROVE  /\ Len(batch.rows) \in Nat
           /\ batch.rows \in Seq({batch.rows[i] : i \in 1..Len(batch.rows)})
           /\ \A i \in 1..Len(batch.rows) : batch.rows[i].id = i
           /\ IsRows(Len(batch.rows), batch.rows, batch.cols)
  <1>1. PICK rows : rows = batch.rows
    OBVIOUS
  <1>2. PICK n : n = Len(rows)
    OBVIOUS
  <1>3. rows \in Seq({rows[i] : i \in 1..n})
    BY <1>1, <1>2 DEF IsBatch
  <1>4. n \in Nat /\ rows = [i \in 1..n |-> rows[i]]
    BY <1>2, <1>3
  <1>5. \A i \in 1..n : rows[i].id = i
    BY <1>1, <1>2 DEF IsBatch
  <1>6. \A i \in 1..n : HasValues(rows[i], batch.cols)
    BY <1>1, <1>2 DEF IsBatch, HasValues
  <1>7. IsRows(n, rows, batch.cols)
    BY <1>4, <1>5, <1>6 DEF IsRows
  <1>8. batch.rows \in Seq({batch.rows[i] : i \in 1..Len(batch.rows)})
    BY DEF IsBatch
  <1> QED BY <1>1, <1>2, <1>4, <1>5, <1>7, <1>8

(* The rows after a sort, under the configured keys and under the lead column. *)
LEMMA SortedBy ==
    ASSUME NEW n \in Nat, NEW batch, IsRows(n, batch.rows, batch.cols), Len(batch.rows) = n,
           NEW sorter, IsKeys(sorter.keys), NEW lead, Len(lead) \in Nat,
           NEW out \in Sort(sorter, batch, lead), out.result # "Err"
    PROVE  /\ out.result = "Ok" /\ out.batch.cols = batch.cols
           /\ Len(out.batch.rows) = n /\ IsRows(n, out.batch.rows, batch.cols)
           /\ lead = << >> => \A i, j \in 1..n : i < j =>
                 InOrder(sorter.keys, batch.cols, out.batch.rows[i], out.batch.rows[j])
           /\ Len(lead) = 1 => \A i, j \in 1..n : i < j =>
                 /\ lead[1] \in DOMAIN batch.cols =>
                       ~GoesBefore(LeadKey(lead[1]), out.batch.rows[j], out.batch.rows[i])
                 /\ out.batch.rows[i][lead[1]] = out.batch.rows[j][lead[1]] =>
                       InOrder(sorter.keys, batch.cols, out.batch.rows[i], out.batch.rows[j])
  <1>1. PICK all : all = WithLead(sorter.keys, lead)
    OBVIOUS
  <1>2. PICK keys : keys = sorter.keys
    OBVIOUS
  <1>3. IsKeys(keys) /\ Len(keys) \in Nat
    BY <1>2 DEF IsKeys
  <1>4. all = WithLead(keys, lead)
    BY <1>1, <1>2
  <1>5. /\ Len(all) = Len(lead) + Len(keys)
        /\ \A i \in 1..Len(lead) : all[i] = LeadKey(lead[i])
        /\ \A i \in 1..Len(keys) : all[Len(lead) + i] = keys[i]
    BY <1>3, <1>4, LeadIs
  <1>6. Len(all) \in Nat
    BY <1>3, <1>5
  <1>7. PICK cols : cols = batch.cols
    OBVIOUS
  <1>8. PICK s : s = out.batch.rows
    OBVIOUS
  <1>9. /\ out.result = "Ok" /\ out.batch.cols = batch.cols
        /\ Len(out.batch.rows) = n /\ IsRows(n, out.batch.rows, batch.cols)
        /\ \A i, j \in 1..n : i < j => InOrder(all, batch.cols, out.batch.rows[i], out.batch.rows[j])
    <2>1. all = SortKeys(sorter.keys, [i \in 1..Len(lead) |-> LeadKey(lead[i])])
      BY <1>1 DEF WithLead
    <2> QED BY <1>6, <2>1, SortIs
  <1>10. \A i, j \in 1..n : i < j => InOrder(all, cols, s[i], s[j])
    BY <1>7, <1>8, <1>9
  <1>11. ASSUME lead = << >>, NEW i \in 1..n, NEW j \in 1..n, i < j
         PROVE  InOrder(keys, cols, s[i], s[j])
    <2>1. Len(lead) = 0
      BY <1>11
    <2>2. PICK nl \in Nat : nl = Len(lead)
      OBVIOUS
    <2>3. /\ Len(all) = nl + Len(keys)
          /\ \A k \in 1..Len(keys) : all[nl + k] = keys[k]
      BY <1>5, <2>2
    <2>a. PICK a : a = s[i]
      OBVIOUS
    <2>b. PICK b : b = s[j]
      OBVIOUS
    <2>4. \A k \in 1..nl : a[all[k].column] = b[all[k].column]
      BY <2>1, <2>2
    <2>5. InOrder(all, cols, a, b)
      BY <1>10, <1>11, <2>a, <2>b
    <2>6. InOrder(keys, cols, a, b)
      BY <1>3, <2>3, <2>4, <2>5, InOrderLater, Zenon
    <2> QED BY <2>6, <2>a, <2>b
  <1>12. ASSUME Len(lead) = 1, NEW i \in 1..n, NEW j \in 1..n, i < j
         PROVE  /\ lead[1] \in DOMAIN cols => ~GoesBefore(LeadKey(lead[1]), s[j], s[i])
                /\ s[i][lead[1]] = s[j][lead[1]] => InOrder(keys, cols, s[i], s[j])
    <2>1. /\ Len(all) = 1 + Len(keys)
          /\ \A k \in 1..Len(keys) : all[1 + k] = keys[k]
          /\ all[1] = LeadKey(lead[1])
      <3>1. 1 \in 1..Len(lead)
        BY <1>12
      <3> QED BY <1>5, <1>12, <3>1
    <2>2. all[1].column = lead[1]
      BY <2>1 DEF LeadKey
    <2>3. InOrder(all, cols, s[i], s[j])
      BY <1>10, <1>12
    <2>4. ASSUME lead[1] \in DOMAIN cols PROVE ~GoesBefore(LeadKey(lead[1]), s[j], s[i])
      <3>1. 1 \in 1..Len(all) /\ \A k \in 1..(1 - 1) : FALSE
        BY <1>6, <2>1
      <3> QED BY <2>1, <2>2, <2>3, <2>4, <3>1 DEF InOrder
    <2>5. ASSUME s[i][lead[1]] = s[j][lead[1]] PROVE InOrder(keys, cols, s[i], s[j])
      <3>1. \A k \in 1..1 : s[i][all[k].column] = s[j][all[k].column]
        BY <2>2, <2>5
      <3>2. 1 \in Nat
        OBVIOUS
      <3> QED BY <1>3, <2>1, <2>3, <3>1, <3>2, InOrderLater
    <2> QED BY <2>4, <2>5
  <1> QED BY <1>2, <1>7, <1>8, <1>9, <1>11, <1>12

(* Rows with the same value in a column are in order. *)
InOrderBy(s, n, column, sorter, cols) ==
    \A i, j \in 1..n : i < j => (s[i][column] = s[j][column] => InOrder(sorter.keys, cols, s[i], s[j]))

(* Parts of which each has one value in a column are in order, if rows with the *)
(* same value are.                                                              *)
LEMMA SpreadInOrderBy ==
    ASSUME NEW n \in Nat, NEW s, NEW parts, NEW place, Spread(parts, s, n, place), NEW sorter, NEW cols, NEW column,
           KeyIsPath(parts, column), InOrderBy(s, n, column, sorter, cols)
    PROVE  RowsInOrder(sorter, cols, parts)
  <1>1. SUFFICES ASSUME NEW k \in 1..Len(parts), NEW m \in 1..(Len(parts[k].rows) - 1)
                 PROVE  InOrder(sorter.keys, cols, parts[k].rows[m], parts[k].rows[m + 1])
    BY DEF RowsInOrder
  <1>2. Len(parts[k].rows) \in 0..n
    BY DEF Spread
  <1>3. m \in 1..Len(parts[k].rows) /\ m + 1 \in 1..Len(parts[k].rows) /\ m < m + 1
    BY <1>2
  <1>4. /\ \A l \in 1..Len(parts[k].rows) : place[k][l] \in 1..n /\ parts[k].rows[l] = s[place[k][l]]
        /\ \A l, o \in 1..Len(parts[k].rows) : l < o => place[k][l] < place[k][o]
    BY DEF Spread
  <1>5. PICK i \in 1..n : i = place[k][m] /\ parts[k].rows[m] = s[i]
    BY <1>3, <1>4
  <1>6. PICK o \in 1..Len(parts[k].rows) : o = m + 1
    BY <1>3
  <1>7. PICK j \in 1..n : j = place[k][o] /\ parts[k].rows[o] = s[j]
    BY <1>4
  <1>8. i < j
    BY <1>3, <1>4, <1>5, <1>6, <1>7
  <1>9. s[i][column] = s[j][column]
    BY <1>3, <1>5, <1>7 DEF KeyIsPath
  <1> QED BY <1>5, <1>6, <1>7, <1>8, <1>9 DEF InOrderBy

(* What extract_partition_slices returns. *)
LEMMA SlicesOf ==
    ASSUME NEW n \in Nat, n # 0, NEW batch, NEW s, s = batch.rows, Len(s) = n, NEW column, NEW out,
           out = ExtractPartitionSlices(batch, column), out.result = "Ok"
    PROVE  /\ column \in DOMAIN batch.cols
           /\ \E c \in Nat : \E begin, until : SlicedInto(out.parts, s, n, column, begin, until, c)
  <1>1. PICK starts : StartsAre(s, n, column, starts)
    BY DEF StartsAre
  <1>2. PICK begin : begin = Ascending(starts)
    OBVIOUS
  <1>3. PICK c : c = Cardinality(starts)
    OBVIOUS
  <1>4. FromIs(starts, begin, c)
    BY <1>2, <1>3 DEF FromIs
  <1> DEFINE un == [k \in 1..c |-> IF k = c THEN n ELSE begin[k + 1] - 1]
  <1>5. PICK until : until = un
    OBVIOUS
  <1>6. UntilIs(begin, until, c, n)
    BY <1>5 DEF UntilIs
  <1>7. c \in Nat /\ SlicesAre(s, n, column, begin, until, c)
    BY <1>1, <1>4, <1>6, SlicesFollow
  <1>8. Len(begin) = c
    <2>1. starts \in SUBSET (1..n)
      BY <1>1 DEF StartsAre
    <2>2. begin = [k \in 1..c |-> begin[k]]
      BY <1>2, <1>3, <2>1, AscendingOnce
    <2> QED BY <1>7, <2>2
  <1> DEFINE parts == [k \in 1..c |->
                [path |-> s[begin[k]][column],
                 rows |-> SubSeq(s, begin[k], IF k = c THEN n ELSE begin[k + 1] - 1)]]
             bad == column \notin DOMAIN batch.cols \/ batch.cols[column] # "utf8"
  <1>9. out = IF bad THEN LayoutErr ELSE Parts(parts)
    <2>1. starts = {i \in 1..n : i = 1 \/ s[i][column] # s[i - 1][column]}
      BY <1>1 DEF StartsAre
    <2>2. starts = {i \in 1..n : i = 1 \/ batch.rows[i][column] # batch.rows[i - 1][column]}
      BY <2>1
    <2>3. Len(batch.rows) = n
      OBVIOUS
    <2>4. out = IF bad THEN LayoutErr
                ELSE Parts([k \in 1..Len(Ascending(starts)) |->
                  [path |-> batch.rows[Ascending(starts)[k]][column],
                   rows |-> SubSeq(batch.rows, Ascending(starts)[k],
                      IF k = Len(Ascending(starts)) THEN n ELSE Ascending(starts)[k + 1] - 1)]])
      BY <2>2, <2>3, Zenon DEF ExtractPartitionSlices
    <2> QED BY <1>2, <1>8, <2>4, Zenon
  <1>10. ~bad /\ out.parts = parts
    BY <1>9 DEF LayoutErr, Parts
  <1>11. Len(parts) = c
    BY <1>7
  <1>12. ASSUME NEW k \in 1..c
         PROVE  parts[k].path = s[begin[k]][column] /\ parts[k].rows = SubSeq(s, begin[k], until[k])
    <2>1. until[k] = IF k = c THEN n ELSE begin[k + 1] - 1
      BY <1>6 DEF UntilIs
    <2>2. PICK u : u = until[k]
      OBVIOUS
    <2>3. parts[k] = [path |-> s[begin[k]][column],
                      rows |-> SubSeq(s, begin[k], IF k = c THEN n ELSE begin[k + 1] - 1)]
      BY Zenon
    <2>4. parts[k] = [path |-> s[begin[k]][column], rows |-> SubSeq(s, begin[k], u)]
      BY <2>1, <2>2, <2>3, Zenon
    <2> HIDE DEF parts
    <2>5. PICK p : p = parts[k]
      OBVIOUS
    <2>6. PICK a : a = s[begin[k]][column]
      OBVIOUS
    <2>7. PICK b : b = SubSeq(s, begin[k], u)
      OBVIOUS
    <2>8. p = [path |-> a, rows |-> b]
      BY <2>4, <2>5, <2>6, <2>7
    <2>9. p.path = a /\ p.rows = b
      BY <2>8
    <2> QED BY <2>2, <2>5, <2>6, <2>7, <2>9
  <1> HIDE DEF parts
  <1>13. SlicedInto(out.parts, s, n, column, begin, until, c)
    BY <1>7, <1>10, <1>11, <1>12 DEF SlicedInto
  <1> QED BY <1>7, <1>10, <1>13

(* Parts that hold a batch of no rows: none. *)
LEMMA NoRows ==
    ASSUME NEW batch, NEW out, out = Parts(<< >>), Len(batch.rows) = 0
    PROVE  out.parts = << >> /\ Len(out.parts) = 0 /\ EachRowOnce(batch, out.parts)
  <1>1. out.parts = << >> /\ Len(out.parts) = 0
    BY DEF Parts
  <1>2. \A i \in 1..Len(batch.rows) : FALSE
    OBVIOUS
  <1>3. EachRowOnce(batch, out.parts)
    BY <1>2 DEF EachRowOnce
  <1> QED BY <1>1, <1>3

(* A slice of a batch that is sorted by the key has a key of its own. *)
LEMMA SlicesDiffer ==
    ASSUME NEW n \in Nat, NEW s, NEW column, NEW cols, column \in DOMAIN cols, NEW parts,
           NEW begin, NEW until, NEW c \in Nat, SlicedInto(parts, s, n, column, begin, until, c),
           \A i \in 1..n : HasValues(s[i], cols),
           \A i, j \in 1..n : i < j => ~GoesBefore(LeadKey(column), s[j], s[i])
    PROVE  OnePartPerPath(parts)
  <1>1. ASSUME NEW j \in 1..c, NEW k \in 1..c, j < k PROVE parts[j].path # parts[k].path
    <2>1. PICK a \in 1..n : a = begin[j]
      BY DEF SlicedInto, SlicesAre
    <2>2. PICK b \in 1..n : b = begin[k]
      BY DEF SlicedInto, SlicesAre
    <2>3. a < b
      BY <1>1, <2>1, <2>2 DEF SlicedInto, SlicesAre
    <2>4. begin[k] = 1 \/ s[begin[k]][column] # s[begin[k] - 1][column]
      BY DEF SlicedInto, SlicesAre
    <2>5. PICK o \in 1..n : o = b - 1 /\ o < b /\ (a = o \/ a < o)
      <3>1. b - 1 \in 1..n /\ b - 1 < b /\ (a = b - 1 \/ a < b - 1)
        BY <2>3
      <3> QED BY <3>1
    <2>6. s[b][column] # s[o][column]
      BY <2>2, <2>4, <2>5
    <2>7. parts[j].path = s[a][column] /\ parts[k].path = s[b][column]
      BY <2>1, <2>2 DEF SlicedInto
    <2>8. SUFFICES ASSUME s[a][column] = s[b][column] PROVE FALSE
      BY <2>7
    <2>9. a # o
      BY <2>6, <2>8
    <2>10. ~GoesBefore(LeadKey(column), s[b], s[o])
      BY <2>5
    <2>11. ~GoesBefore(LeadKey(column), s[o], s[a])
      BY <2>5, <2>9
    <2>12. PICK key : key = LeadKey(column)
      OBVIOUS
    <2>13. key.column = column
      BY <2>12 DEF LeadKey
    <2>14. s[a][column] \in Values /\ s[o][column] \in Values /\ s[b][column] \in Values
      BY DEF HasValues
    <2>15. PICK ra : ra = s[a]
      OBVIOUS
    <2>16. PICK ro : ro = s[o]
      OBVIOUS
    <2>17. PICK rb : rb = s[b]
      OBVIOUS
    <2>18. PICK x \in Values : x = ra[key.column]
      BY <2>13, <2>14, <2>15
    <2>19. PICK y \in Values : y = ro[key.column]
      BY <2>13, <2>14, <2>16
    <2>20. PICK z \in Values : z = rb[key.column]
      BY <2>13, <2>14, <2>17
    <2>21. x = z /\ x # y
      BY <2>6, <2>8, <2>13, <2>15, <2>16, <2>17, <2>18, <2>19, <2>20
    <2>22. ~GoesBefore(key, ro, ra)
      BY <2>11, <2>12, <2>15, <2>16
    <2>23. GoesBefore(key, ra, ro)
      BY <2>18, <2>19, <2>21, <2>22, KeyDecides
    <2>24. GoesBefore(key, rb, ro)
      <3>1. ra[key.column] = rb[key.column]
        BY <2>18, <2>20, <2>21
      <3> QED BY <2>23, <3>1 DEF GoesBefore
    <2> QED BY <2>10, <2>12, <2>16, <2>17, <2>24
  <1>2. Len(parts) = c
    BY DEF SlicedInto
  <1>3. SUFFICES ASSUME NEW j \in 1..c, NEW k \in 1..c, parts[j].path = parts[k].path PROVE j = k
    BY <1>2 DEF OnePartPerPath
  <1>4. ~(j < k) /\ ~(k < j)
    BY <1>1, <1>3
  <1> QED BY <1>4

(* The messages of a batch: each key in one of them, with its rows in order. *)
LEMMA KafkaIs ==
    ASSUME NEW batch, IsBatch(batch), NEW sorter, IsKeys(sorter.keys), NEW conf,
           conf.key = << >> \/ Len(conf.key) = 1,
           NEW out \in PrepareKafka(sorter, conf, batch), out.result = "Ok"
    PROVE  EachRowOnce(batch, out.parts) /\ KafkaIsLaidOut(sorter, conf, batch, out.parts)
  <1>1. PICK n \in Nat : n = Len(batch.rows)
    BY BatchIs
  <1>2. /\ \A i \in 1..n : batch.rows[i].id = i
        /\ IsRows(n, batch.rows, batch.cols) /\ Len(batch.rows) = n
    BY <1>1, BatchIs
  <1>3. PICK parts : parts = out.parts
    OBVIOUS
  <1>4. CASE batch.rows = << >>
    <2>1. out = Parts(<< >>)
      BY <1>4 DEF PrepareKafka
    <2>2. Len(batch.rows) = 0
      BY <1>4
    <2>3. Len(parts) = 0 /\ EachRowOnce(batch, parts)
      BY <1>3, <2>1, <2>2, NoRows
    <2>4. \A k \in 1..Len(parts) : FALSE
      BY <2>3
    <2> QED BY <1>3, <2>3, <2>4 DEF KafkaIsLaidOut, OnePartPerPath, RowsInOrder
  <1>5. CASE batch.rows # << >>
    <2>1. PICK s \in Sort(sorter, batch, conf.key) :
            out = CASE s.result = "Err" -> LayoutErr
                    [] s.result = "Ok" /\ conf.key = << >> -> Parts(<<[path |-> Null, rows |-> s.batch.rows]>>)
                    [] OTHER -> ExtractPartitionSlices(s.batch, conf.key[1])
      BY <1>5 DEF PrepareKafka
    <2>2. s.result # "Err"
      BY <2>1 DEF LayoutErr
    <2>3. PICK key : key = conf.key
      OBVIOUS
    <2>4. Len(key) \in Nat /\ (key = << >> \/ Len(key) = 1)
      BY <2>3
    <2>5. PICK cols : cols = batch.cols
      OBVIOUS
    <2>6. PICK r : r = s.batch.rows
      OBVIOUS
    <2>7. s \in Sort(sorter, batch, key)
      BY <2>3
    <2>8. /\ s.result = "Ok" /\ s.batch.cols = cols
          /\ Len(r) = n /\ IsRows(n, r, cols)
          /\ key = << >> => \A i, j \in 1..n : i < j => InOrder(sorter.keys, cols, r[i], r[j])
          /\ Len(key) = 1 => \A i, j \in 1..n : i < j =>
                /\ key[1] \in DOMAIN cols => ~GoesBefore(LeadKey(key[1]), r[j], r[i])
                /\ r[i][key[1]] = r[j][key[1]] => InOrder(sorter.keys, cols, r[i], r[j])
      BY <1>2, <2>2, <2>4, <2>5, <2>6, <2>7, SortedBy
    <2>9. CASE key = << >>
      <3>1. out = Parts(<<[path |-> Null, rows |-> r]>>)
        BY <2>1, <2>3, <2>6, <2>8, <2>9
      <3>2. Len(parts) = 1 /\ parts[1].rows = r
        BY <1>3, <3>1 DEF Parts
      <3>3. PICK place : Spread(parts, r, n, place)
        BY <2>8, <3>2, WholeSpread
      <3>4. EachRowOnce(batch, parts)
        BY <1>2, <2>8, <3>3, SpreadOnce
      <3>5. RowsInOrder(sorter, cols, parts)
        BY <2>8, <2>9, <3>3, SpreadInOrder
      <3>6. OnePartPerPath(parts)
        BY <3>2 DEF OnePartPerPath
      <3> QED BY <1>3, <2>3, <2>5, <2>9, <3>4, <3>5, <3>6 DEF KafkaIsLaidOut
    <2>10. CASE Len(key) = 1
      <3>1. key # << >>
        <4>1. SUFFICES ASSUME key = << >> PROVE FALSE
          OBVIOUS
        <4>2. Len(key) = 0
          BY <4>1
        <4> QED BY <2>10, <4>2
      <3>2. PICK column : column = key[1]
        OBVIOUS
      <3>3. out = ExtractPartitionSlices(s.batch, column)
        BY <2>1, <2>3, <2>8, <3>1, <3>2
      <3>4. n # 0
        <4>2. ASSUME n = 0 PROVE batch.rows = << >>
          <5>1. PICK T : batch.rows \in Seq(T)
            BY BatchIs
          <5>2. Len(batch.rows) = 0
            BY <1>1, <4>2
          <5> QED BY <5>1, <5>2, EmptySeq
        <4> QED BY <1>5, <4>2
      <3>5. /\ column \in DOMAIN cols
            /\ \E c \in Nat : \E begin, until : SlicedInto(parts, r, n, column, begin, until, c)
        BY <1>3, <2>6, <2>8, <3>3, <3>4, SlicesOf
      <3>a. PICK c \in Nat : \E begin, until : SlicedInto(parts, r, n, column, begin, until, c)
        BY <3>5
      <3>6. PICK begin, until : SlicedInto(parts, r, n, column, begin, until, c)
        BY <3>a
      <3>7. r \in Seq({r[i] : i \in 1..n})
        BY <2>8 DEF IsRows
      <3>8. Spread(parts, r, n, Slices(begin, c, n)) /\ KeyIsPath(parts, column)
        <4>1. PICK T : T = {r[i] : i \in 1..n}
          OBVIOUS
        <4>2. r \in Seq(T) /\ Len(r) = n
          BY <2>8, <3>7, <4>1
        <4> QED BY <3>6, <4>2, SlicesSpread
      <3>9. EachRowOnce(batch, parts)
        BY <1>2, <2>8, <3>8, SpreadOnce
      <3>10. RowsInOrder(sorter, cols, parts)
        <4>1. InOrderBy(r, n, column, sorter, cols)
          BY <2>8, <2>10, <3>2 DEF InOrderBy
        <4> QED BY <3>8, <4>1, SpreadInOrderBy
      <3>11. OnePartPerPath(parts)
        <4>1. \A i, j \in 1..n : i < j => ~GoesBefore(LeadKey(column), r[j], r[i])
          BY <2>8, <2>10, <3>2, <3>5
        <4>2. \A i \in 1..n : HasValues(r[i], cols)
          BY <2>8 DEF IsRows
        <4> QED BY <3>5, <3>6, <4>1, <4>2, SlicesDiffer
      <3> QED BY <1>3, <2>3, <2>5, <3>2, <3>8, <3>9, <3>10, <3>11 DEF KafkaIsLaidOut, KeyIsPath
    <2> QED BY <2>4, <2>9, <2>10
  <1> QED BY <1>4, <1>5

(* Rows with the same values have the same order. *)
LEMMA SameOrder ==
    ASSUME NEW keys, NEW cols, NEW a, NEW b, NEW x, NEW y,
           \A c \in DOMAIN cols : x[c] = a[c] /\ y[c] = b[c], InOrder(keys, cols, a, b)
    PROVE  InOrder(keys, cols, x, y)
  <1>1. \A key : key.column \in DOMAIN cols => (GoesBefore(key, y, x) <=> GoesBefore(key, b, a))
    BY DEF GoesBefore
  <1>2. \A key : key.column \in DOMAIN cols => (GoesBefore(key, x, y) <=> GoesBefore(key, a, b))
    BY DEF GoesBefore
  <1> QED BY <1>1, <1>2 DEF InOrder

(* A batch with the signal's name in each row is the same batch otherwise. *)
LEMMA Injected ==
    ASSUME NEW n \in Nat, NEW batch, NEW cols, "signal_type" \notin DOMAIN cols, "id" \notin DOMAIN cols,
           NEW r, r = batch.rows, IsRows(n, r, cols), Len(r) = n, NEW signal, NEW f,
           f = InjectSignalType(batch, "signal_type", signal).rows
    PROVE  /\ Len(f) = n /\ IsRows(n, f, cols)
           /\ \A i \in 1..n : f[i]["signal_type"] = signal
           /\ \A i \in 1..n : \A c \in DOMAIN cols : f[i][c] = r[i][c]
  <1>1. f = [i \in 1..n |-> [c \in DOMAIN r[i] \cup {"signal_type"} |->
                IF c = "signal_type" THEN signal ELSE r[i][c]]]
    BY DEF InjectSignalType
  <1>2. Len(f) = n /\ f = [i \in 1..n |-> f[i]]
    BY <1>1
  <1>3. ASSUME NEW i \in 1..n
        PROVE  /\ DOMAIN f[i] = DOMAIN r[i] \cup {"signal_type"}
               /\ f[i]["signal_type"] = signal /\ f[i].id = r[i].id
               /\ \A c \in DOMAIN cols : f[i][c] = r[i][c]
               /\ HasValues(f[i], cols)
    <2>1. PICK row : row = r[i]
      OBVIOUS
    <2>2. PICK g : g = f[i]
      OBVIOUS
    <2>3. g = [c \in DOMAIN row \cup {"signal_type"} |-> IF c = "signal_type" THEN signal ELSE row[c]]
      BY <1>1, <2>1, <2>2
    <2>4. HasValues(row, cols)
      BY <2>1 DEF IsRows
    <2>5. DOMAIN g = DOMAIN row \cup {"signal_type"} /\ g["signal_type"] = signal
      BY <2>3
    <2>6. \A c \in DOMAIN row : c # "signal_type" => g[c] = row[c]
      BY <2>3
    <2>7. "id" \in DOMAIN row /\ "id" # "signal_type"
      BY <2>4 DEF HasValues
    <2>8. g["id"] = row["id"]
      BY <2>6, <2>7
    <2>9. \A c \in DOMAIN cols : g[c] = row[c]
      BY <2>4, <2>6 DEF HasValues
    <2>10. HasValues(g, cols)
      BY <2>4, <2>5, <2>9 DEF HasValues
    <2> QED BY <2>1, <2>2, <2>5, <2>8, <2>9, <2>10
  <1>4. \A i \in 1..n : HasValues(f[i], cols) /\ f[i].id \in 1..n
    BY <1>3 DEF IsRows
  <1>5. \A i, j \in 1..n : f[i].id = f[j].id => i = j
    BY <1>3 DEF IsRows
  <1>6. ASSUME NEW x \in 1..n PROVE \E i \in 1..n : f[i].id = x
    <2>1. PICK i \in 1..n : r[i].id = x
      BY DEF IsRows
    <2>2. f[i].id = x
      BY <1>3, <2>1
    <2> QED BY <2>2
  <1>7. IsRows(n, f, cols)
    BY <1>2, <1>4, <1>5, <1>6 DEF IsRows
  <1> QED BY <1>2, <1>3, <1>7

(* The payload of a lease: all rows, in order. *)
LEMMA StarRocksIs ==
    ASSUME NEW batch, IsBatch(batch), "signal_type" \notin DOMAIN batch.cols,
           NEW sorter, IsKeys(sorter.keys), NEW conf,
           NEW out \in PrepareStarRocks(sorter, conf, batch), out.result = "Ok"
    PROVE  EachRowOnce(batch, out.parts) /\ StarRocksIsLaidOut(sorter, conf, batch, out.parts)
  <1>1. PICK n \in Nat : n = Len(batch.rows)
    BY BatchIs
  <1>2. /\ \A i \in 1..n : batch.rows[i].id = i
        /\ IsRows(n, batch.rows, batch.cols) /\ Len(batch.rows) = n
    BY <1>1, BatchIs
  <1>3. PICK parts : parts = out.parts
    OBVIOUS
  <1>4. CASE batch.rows = << >>
    <2>1. out = Parts(<< >>)
      BY <1>4 DEF PrepareStarRocks
    <2>2. Len(batch.rows) = 0
      BY <1>4
    <2>3. Len(parts) = 0 /\ EachRowOnce(batch, parts)
      BY <1>3, <2>1, <2>2, NoRows
    <2>4. \A k \in 1..Len(parts) : FALSE
      BY <2>3
    <2> QED BY <1>3, <2>3, <2>4 DEF StarRocksIsLaidOut, RowsInOrder
  <1>5. CASE batch.rows # << >>
    <2> DEFINE final(b) == IF conf.unified THEN InjectSignalType(b, "signal_type", conf.signal) ELSE b
    <2>1. PICK s \in Sort(sorter, batch, << >>) :
            out = IF s.result = "Err" THEN LayoutErr
                  ELSE Parts(<<[path |-> Null, rows |-> final(s.batch).rows]>>)
      BY <1>5 DEF PrepareStarRocks
    <2>2. s.result # "Err"
      BY <2>1 DEF LayoutErr
    <2>3. PICK cols : cols = batch.cols
      OBVIOUS
    <2>4. PICK r : r = s.batch.rows
      OBVIOUS
    <2>5. /\ Len(r) = n /\ IsRows(n, r, cols)
          /\ \A i, j \in 1..n : i < j => InOrder(sorter.keys, cols, r[i], r[j])
      <3>1. PICK lead : lead = << >>
        OBVIOUS
      <3>2. Len(lead) \in Nat
        BY <3>1
      <3>3. s \in Sort(sorter, batch, lead)
        BY <3>1
      <3> QED BY <1>2, <2>2, <2>3, <2>4, <3>1, <3>2, <3>3, SortedBy
    <2>6. PICK f : f = final(s.batch).rows
      OBVIOUS
    <2>7. out = Parts(<<[path |-> Null, rows |-> f]>>)
      BY <2>1, <2>2, <2>6
    <2>8. Len(parts) = 1 /\ parts[1].rows = f
      BY <1>3, <2>7 DEF Parts
    <2>9. /\ Len(f) = n /\ IsRows(n, f, cols)
          /\ conf.unified => \A i \in 1..n : f[i]["signal_type"] = conf.signal
          /\ \A i, j \in 1..n : i < j => InOrder(sorter.keys, cols, f[i], f[j])
      <3>1. CASE ~conf.unified
        <4>1. f = r
          BY <2>4, <2>6, <3>1
        <4> QED BY <2>5, <3>1, <4>1
      <3>2. CASE conf.unified
        <4>1. f = InjectSignalType(s.batch, "signal_type", conf.signal).rows
          BY <2>6, <3>2
        <4>2. "signal_type" \notin DOMAIN cols /\ "id" \notin DOMAIN cols
          BY <2>3 DEF IsBatch
        <4>3. PICK signal : signal = conf.signal
          OBVIOUS
        <4>4. PICK b : b = s.batch
          OBVIOUS
        <4>5. f = InjectSignalType(b, "signal_type", signal).rows /\ r = b.rows
          BY <2>4, <4>1, <4>3, <4>4
        <4>6. /\ Len(f) = n /\ IsRows(n, f, cols)
              /\ \A i \in 1..n : f[i]["signal_type"] = signal
              /\ \A i \in 1..n : \A c \in DOMAIN cols : f[i][c] = r[i][c]
          BY <2>5, <4>2, <4>5, Injected
        <4>7. ASSUME NEW i \in 1..n, NEW j \in 1..n, i < j PROVE InOrder(sorter.keys, cols, f[i], f[j])
          <5>1. InOrder(sorter.keys, cols, r[i], r[j])
            BY <2>5, <4>7
          <5>2. \A c \in DOMAIN cols : f[i][c] = r[i][c] /\ f[j][c] = r[j][c]
            BY <4>6
          <5> QED BY <5>1, <5>2, SameOrder
        <4> QED BY <4>3, <4>6, <4>7
      <3> QED BY <3>1, <3>2
    <2>10. Spread(parts, f, n, Whole(n))
      BY <2>8, <2>9, WholeSpread
    <2>11. EachRowOnce(batch, parts)
      BY <1>2, <2>9, <2>10, SpreadOnce
    <2>12. RowsInOrder(sorter, cols, parts)
      BY <2>9, <2>10, SpreadInOrder
    <2>13. conf.unified => \A k \in 1..Len(parts) : \A m \in 1..Len(parts[k].rows) :
                                parts[k].rows[m]["signal_type"] = conf.signal
      BY <2>8, <2>9
    <2> QED BY <1>3, <2>3, <2>11, <2>12, <2>13 DEF StarRocksIsLaidOut
  <1> QED BY <1>4, <1>5

(* A row is filed under the time it has, or under the time now. *)
RowIsWithin(path, batch, row, now) ==
    LET unit == TimeUnit(batch)
        t == row["timestamp"]
    IN  IF unit # "none" /\ t # Null /\ HasDate(Seconds(unit, t)) THEN WithinPath(path, unit, t)
        ELSE WithinPath(path, "seconds", now)

LEMMA RowKeyIsWithin ==
    ASSUME NEW batch, NEW row, NEW now \in Int, NEW pattern,
           TimeUnit(batch) # "none" => row["timestamp"] \in Values
    PROVE  RowIsWithin(FormatPartitionPath(pattern, RowKey(batch, row, now)), batch, row, now)
  <1>1. PICK unit : unit = TimeUnit(batch)
    OBVIOUS
  <1>2. unit \in TimeUnits \cup {"none"}
    BY <1>1 DEF TimeUnit, TimeUnits
  <1>3. PICK t : t = row["timestamp"]
    OBVIOUS
  <1>4. "seconds" \in TimeUnits
    BY DEF TimeUnits
  <1> DEFINE dated == unit # "none" /\ t # Null /\ HasDate(Seconds(unit, t))
  <1>5. PICK s : s = IF dated THEN Seconds(unit, t) ELSE now
    OBVIOUS
  <1>6. RowKey(batch, row, now) = <<DayOf(s), HourOf(s)>>
    BY <1>1, <1>3, <1>5 DEF RowKey
  <1>7. PICK path : path = FormatPartitionPath(pattern, RowKey(batch, row, now))
    OBVIOUS
  <1>8. path = <<DayOf(s), HourOf(s)>> \/ path = <<DayOf(s)>>
    <2>1. PICK key : key = <<DayOf(s), HourOf(s)>>
      OBVIOUS
    <2>2. key[1] = DayOf(s)
      BY <2>1
    <2>3. path = key \/ path = <<key[1]>>
      BY <1>6, <1>7, <2>1 DEF FormatPartitionPath
    <2> QED BY <2>1, <2>2, <2>3
  <1>9. CASE dated
    <2>1. unit \in TimeUnits /\ t \in Int
      BY <1>1, <1>2, <1>3, <1>9 DEF Values
    <2>2. s = Seconds(unit, t)
      BY <1>5, <1>9
    <2>3. WithinPath(path, unit, t)
      BY <1>8, <2>1, <2>2, TimeIsWithin
    <2> QED BY <1>1, <1>3, <1>7, <1>9, <2>3 DEF RowIsWithin
  <1>10. CASE ~dated
    <2>1. s = now
      BY <1>5, <1>10
    <2>2. s = Seconds("seconds", now)
      <3>1. now \div 1 = now
        OBVIOUS
      <3> QED BY <2>1, <3>1, PerSecondIs DEF Seconds
    <2>3. WithinPath(path, "seconds", now)
      BY <1>4, <1>8, <2>2, TimeIsWithin
    <2> QED BY <1>1, <1>3, <1>7, <1>10, <2>3 DEF RowIsWithin
  <1> QED BY <1>9, <1>10

(* Rows with which a key is met first, and the keys in this order: each once. *)
FirstsIn(key, n, S) == S = {i \in 1..n : \A j \in 1..(i - 1) : key[j] # key[i]}
KeysAt(key, S, firsts, list) == firsts = Ascending(S) /\ list = [k \in 1..Len(firsts) |-> key[firsts[k]]]

LEMMA FirstsAre ==
    ASSUME NEW n \in Nat, NEW key, NEW firsts, NEW S, NEW list, FirstsIn(key, n, S), KeysAt(key, S, firsts, list)
    PROVE  Len(firsts) \in Nat /\ Len(list) = Len(firsts) /\ ListsKeys(list, key, n)
  <1>1. S \in SUBSET (1..n)
    BY DEF FirstsIn
  <1>2. PICK c : c = Cardinality(S)
    OBVIOUS
  <1>3. /\ c \in Nat /\ firsts = [k \in 1..c |-> firsts[k]]
        /\ \A k \in 1..c : firsts[k] \in S
        /\ \A x \in S : \E k \in 1..c : firsts[k] = x
        /\ \A j, k \in 1..c : j < k => firsts[j] < firsts[k]
    <2>1. PICK a : a = Ascending(S)
      OBVIOUS
    <2>2. /\ c \in Nat /\ a = [k \in 1..c |-> a[k]]
          /\ \A k \in 1..c : a[k] \in S
          /\ \A x \in S : \E k \in 1..c : a[k] = x
          /\ \A j, k \in 1..c : j < k => a[j] < a[k]
      BY <1>1, <1>2, <2>1, AscendingOnce
    <2>3. a = firsts
      BY <2>1 DEF KeysAt
    <2> QED BY <2>2, <2>3
  <1>4. Len(firsts) = c
    BY <1>3
  <1>5. Len(list) = c /\ \A k \in 1..c : list[k] = key[firsts[k]]
    <2>1. list = [k \in 1..c |-> key[firsts[k]]]
      BY <1>4 DEF KeysAt
    <2> QED BY <1>3, <2>1
  <1>6. ASSUME NEW j \in 1..c, NEW k \in 1..c, j < k PROVE list[j] # list[k]
    <2>1. PICK x \in S : x = firsts[j]
      BY <1>3
    <2>2. PICK y \in S : y = firsts[k]
      BY <1>3
    <2>3. x < y
      BY <1>3, <1>6, <2>1, <2>2
    <2>4. x \in 1..(y - 1)
      BY <1>1, <2>3
    <2>5. key[x] # key[y]
      BY <2>4 DEF FirstsIn
    <2> QED BY <1>5, <2>1, <2>2, <2>5
  <1>7. ASSUME NEW j \in 1..c, NEW k \in 1..c, list[j] = list[k] PROVE j = k
    <2>1. ~(j < k) /\ ~(k < j)
      BY <1>6, <1>7
    <2> QED BY <2>1
  <1>8. ASSUME NEW i \in 1..n PROVE \E k \in 1..c : list[k] = key[i]
    <2> DEFINE T == {j \in 1..n : key[j] = key[i]}
    <2>1. T \in SUBSET Nat /\ i \in T
      OBVIOUS
    <2>2. PICK j \in T : \A x \in T : j <= x
      <3> HIDE DEF T
      <3> QED BY <2>1, LeastOf
    <2>3. j \in 1..n /\ key[j] = key[i]
      BY <2>2
    <2>4. ASSUME NEW x \in 1..(j - 1) PROVE key[x] # key[j]
      <3>1. x \in 1..n /\ ~(j <= x)
        BY <2>3
      <3> QED BY <2>2, <2>3, <3>1
    <2>5. j \in S
      BY <2>3, <2>4 DEF FirstsIn
    <2>6. PICK k \in 1..c : firsts[k] = j
      BY <1>3, <2>5
    <2> QED BY <1>5, <2>3, <2>6
  <1> QED BY <1>3, <1>4, <1>5, <1>7, <1>8 DEF ListsKeys

(* The writers of a batch: each row with those of its hour, in their order. *)
LEMMA ParquetIs ==
    ASSUME NEW batch, IsBatch(batch), NEW conf, conf.now \in Int, NEW out, out = RouteBatch(conf, batch)
    PROVE  EachRowOnce(batch, out.parts) /\ ParquetIsLaidOut(conf, batch, out.parts)
  <1>1. PICK n \in Nat : n = Len(batch.rows)
    BY BatchIs
  <1>2. /\ \A i \in 1..n : batch.rows[i].id = i
        /\ IsRows(n, batch.rows, batch.cols) /\ Len(batch.rows) = n
    BY <1>1, BatchIs
  <1>3. PICK rows : rows = batch.rows
    OBVIOUS
  <1>4. PICK now \in Int : now = conf.now
    OBVIOUS
  <1>5. PICK key : key = [i \in 1..n |-> RowKey(batch, rows[i], now)]
    OBVIOUS
  <1>6. PICK S : S = {i \in 1..n : \A j \in 1..(i - 1) : key[j] # key[i]}
    OBVIOUS
  <1>7. PICK firsts : firsts = Ascending(S)
    OBVIOUS
  <1>8. PICK list : list = [k \in 1..Len(firsts) |-> key[firsts[k]]]
    OBVIOUS
  <1>9. Len(firsts) \in Nat /\ Len(list) = Len(firsts) /\ ListsKeys(list, key, n)
    <2>1. FirstsIn(key, n, S) /\ KeysAt(key, S, firsts, list)
      BY <1>6, <1>7, <1>8 DEF FirstsIn, KeysAt
    <2> QED BY <2>1, FirstsAre
  <1> DEFINE made == [k \in 1..Len(firsts) |->
                [path |-> FormatPartitionPath(conf.pattern, key[firsts[k]]),
                 rows |-> RowsWith(rows, key, key[firsts[k]])]]
  <1>10. out = Parts(made)
    <2>1. S = {i \in 1..Len(batch.rows) : \A j \in 1..(i - 1) : key[j] # key[i]}
      BY <1>1, <1>6
    <2>2. key = [i \in 1..Len(batch.rows) |-> RowKey(batch, batch.rows[i], conf.now)]
      BY <1>1, <1>3, <1>4, <1>5, SMTT(30)
    <2>3. out = Parts([k \in 1..Len(Ascending(S)) |->
                [path |-> FormatPartitionPath(conf.pattern, key[Ascending(S)[k]]),
                 rows |-> RowsWith(batch.rows, key, key[Ascending(S)[k]])]])
      BY <2>1, <2>2, ZenonT(60) DEF RouteBatch
    <2> QED BY <1>3, <1>7, <2>3
  <1>11. PICK parts : parts = out.parts
    OBVIOUS
  <1>12. parts = made
    BY <1>10, <1>11 DEF Parts
  <1>13. Len(parts) = Len(list)
    BY <1>9, <1>12
  <1>14. ASSUME NEW k \in 1..Len(list)
         PROVE  /\ parts[k].path = FormatPartitionPath(conf.pattern, list[k])
                /\ parts[k].rows = RowsWith(rows, key, list[k])
    <2>1. list[k] = key[firsts[k]]
      BY <1>8, <1>9
    <2>2. k \in 1..Len(firsts)
      BY <1>9
    <2>3. parts[k] = [path |-> FormatPartitionPath(conf.pattern, key[firsts[k]]),
                      rows |-> RowsWith(rows, key, key[firsts[k]])]
      BY <1>12, <2>2, Zenon
    <2>4. PICK a : a = FormatPartitionPath(conf.pattern, list[k])
      OBVIOUS
    <2>5. PICK b : b = RowsWith(rows, key, list[k])
      OBVIOUS
    <2>6. PICK p : p = parts[k]
      OBVIOUS
    <2>7. p = [path |-> a, rows |-> b]
      BY <2>1, <2>3, <2>4, <2>5, <2>6, Zenon
    <2>8. p.path = a /\ p.rows = b
      BY <2>7
    <2> QED BY <2>4, <2>5, <2>6, <2>8
  <1> HIDE DEF made
  <1>15. PICK place : place = Groups(key, list, n)
    OBVIOUS
  <1>16. /\ Spread(parts, rows, n, place)
         /\ \A k \in 1..Len(parts) : \A m \in 1..Len(parts[k].rows) : key[place[k][m]] = list[k]
    <2>1. Len(rows) = n
      BY <1>1, <1>3
    <2>2. PartsBy(parts, rows, key, list)
      BY <1>13, <1>14 DEF PartsBy
    <2> QED BY <1>9, <1>15, <2>1, <2>2, GroupsSpread
  <1>17. EachRowOnce(batch, parts)
    BY <1>2, <1>3, <1>16, SpreadOnce
  <1>18. ASSUME NEW k \in 1..Len(parts), NEW m \in 1..Len(parts[k].rows)
         PROVE  \E x \in 1..n : /\ x = place[k][m] /\ parts[k].rows[m] = rows[x] /\ rows[x].id = x
                                /\ RowIsWithin(parts[k].path, batch, rows[x], now)
    <2>1. place[k][m] \in 1..n /\ parts[k].rows[m] = rows[place[k][m]]
      BY <1>16 DEF Spread
    <2>2. PICK x \in 1..n : x = place[k][m]
      BY <2>1
    <2>3. key[x] = list[k]
      BY <1>16, <2>2
    <2>4. key[x] = RowKey(batch, rows[x], now)
      BY <1>5
    <2>5. parts[k].path = FormatPartitionPath(conf.pattern, RowKey(batch, rows[x], now))
      BY <1>13, <1>14, <2>3, <2>4
    <2>6. TimeUnit(batch) # "none" => rows[x]["timestamp"] \in Values
      <3>1. HasValues(rows[x], batch.cols)
        BY <1>2, <1>3 DEF IsRows
      <3>2. TimeUnit(batch) # "none" => "timestamp" \in DOMAIN batch.cols
        BY DEF TimeUnit, TimeUnits
      <3> QED BY <3>1, <3>2 DEF HasValues
    <2>7. PICK row : row = rows[x]
      OBVIOUS
    <2>8. PICK pattern : pattern = conf.pattern
      OBVIOUS
    <2>9. RowIsWithin(FormatPartitionPath(pattern, RowKey(batch, row, now)), batch, row, now)
      BY <2>6, <2>7, RowKeyIsWithin
    <2>10. rows[x].id = x
      BY <1>2, <1>3
    <2> QED BY <2>1, <2>2, <2>5, <2>7, <2>8, <2>9, <2>10
  <1>19. ASSUME NEW k \in 1..Len(parts), NEW m \in 1..Len(parts[k].rows), m > 1
         PROVE  parts[k].rows[m - 1].id < parts[k].rows[m].id
    <2>1. Len(parts[k].rows) \in 0..n
      BY <1>16 DEF Spread
    <2>2. PICK l \in 1..Len(parts[k].rows) : l = m - 1 /\ l < m
      <3>1. m - 1 \in 1..Len(parts[k].rows) /\ m - 1 < m
        BY <1>19, <2>1
      <3> QED BY <3>1
    <2>3. place[k][l] < place[k][m]
      BY <1>16, <2>2 DEF Spread
    <2>4. parts[k].rows[l].id = place[k][l] /\ parts[k].rows[m].id = place[k][m]
      BY <1>18
    <2> QED BY <2>2, <2>3, <2>4
  <1>20. ParquetIsLaidOut(conf, batch, parts)
    <2>1. ASSUME NEW k \in 1..Len(parts), NEW m \in 1..Len(parts[k].rows)
          PROVE  RowIsWithin(parts[k].path, batch, parts[k].rows[m], now)
      BY <1>18
    <2> QED BY <1>4, <1>19, <2>1 DEF ParquetIsLaidOut, RowIsWithin, HasDate, Seconds
  <1> QED BY <1>11, <1>17, <1>20

(* A timestamp in another unit is a timestamp, or Null. *)
LEMMA CastIs ==
    ASSUME NEW begin \in TimeUnits, NEW to \in TimeUnits, NEW n \in Values
    PROVE  CastTimestamp(begin, to, n) \in Values
  <1>1. PICK p \in Nat : p = PerSecond(begin) /\ p # 0
    BY PerSecondIs
  <1>2. PICK q \in Nat : q = PerSecond(to) /\ q # 0
    BY PerSecondIs
  <1>3. PICK up \in Int : up = q \div p
    BY <1>1, DivIs
  <1>4. PICK down \in Int : down = p \div q
    BY <1>2, DivIs
  <1>5. CASE n = Null
    BY <1>5 DEF CastTimestamp, Values
  <1>6. CASE n # Null
    <2>1. n \in Int
      BY <1>6 DEF Values
    <2>2. CastTimestamp(begin, to, n) =
            IF q >= p THEN IF InI64(n * up) THEN n * up ELSE Null
            ELSE IF n >= 0 THEN n \div down ELSE -((-n) \div down)
      BY <1>1, <1>2, <1>3, <1>4, <1>6 DEF CastTimestamp
    <2>3. CASE q >= p
      <3>1. n * up \in Int
        BY <2>1
      <3> QED BY <2>2, <2>3, <3>1 DEF Values
    <2>4. CASE ~(q >= p)
      <3>1. p < q * (down + 1)
        <4>1. PICK r : r = p % q
          OBVIOUS
        <4>2. p \in Int
          OBVIOUS
        <4> QED BY <1>2, <1>4, <4>1, <4>2, DivBounds
      <3>2. ~(down + 1 <= 1)
        <4>1. SUFFICES ASSUME down + 1 <= 1 PROVE FALSE
          OBVIOUS
        <4>2. PICK d \in Int : d = down + 1
          OBVIOUS
        <4>3. q * d <= q * 1
          BY <4>1, <4>2, TimesLe
        <4> QED BY <2>4, <3>1, <4>2, <4>3
      <3>3. down \in Nat /\ down # 0
        BY <3>2
      <3>4. n \div down \in Int
        BY <2>1, <3>3, DivIs
      <3>5. PICK m \in Int : m = -n
        BY <2>1
      <3>6. m \div down \in Int
        BY <3>3, DivIs
      <3>7. -(m \div down) \in Int
        BY <3>6
      <3> QED BY <2>2, <2>4, <3>4, <3>5, <3>7 DEF Values
    <2> QED BY <2>3, <2>4
  <1> QED BY <1>5, <1>6

(* A batch that is cast to the table's columns. *)
CastRow(row, cols, table) ==
    [c \in DOMAIN row |->
        IF c \in DOMAIN cols \cap DOMAIN table /\ cols[c] # table[c]
        THEN CastTimestamp(cols[c], table[c], row[c]) ELSE row[c]]

Castable(cols, table) ==
    \A c \in DOMAIN cols \cap DOMAIN table :
        cols[c] = table[c] \/ {cols[c], table[c]} \subseteq {"nanos", "micros"}

OnlyKnown(new, cols, table) == DOMAIN new = DOMAIN cols \cap DOMAIN table

LEMMA CastRowIs ==
    ASSUME NEW cols, "id" \notin DOMAIN cols, NEW table, NEW new, OnlyKnown(new, cols, table),
           NEW row, HasValues(row, cols), Castable(cols, table)
    PROVE  HasValues(CastRow(row, cols, table), new) /\ CastRow(row, cols, table).id = row.id
  <1>1. PICK g : g = CastRow(row, cols, table)
    OBVIOUS
  <1>2. DOMAIN g = DOMAIN row
    BY <1>1 DEF CastRow
  <1>3. DOMAIN new = DOMAIN cols \cap DOMAIN table
    BY DEF OnlyKnown
  <1>4. "id" \in DOMAIN row
    BY DEF HasValues
  <1>5. g["id"] = row["id"]
    BY <1>1, <1>4 DEF CastRow
  <1>6. ASSUME NEW c \in DOMAIN new PROVE c \in DOMAIN g /\ g[c] \in Values
    <2>1. c \in DOMAIN cols /\ c \in DOMAIN table /\ c \in DOMAIN row /\ row[c] \in Values
      BY <1>3, <1>6 DEF HasValues
    <2>2. PICK v \in Values : v = row[c]
      BY <2>1
    <2>3. g[c] = IF cols[c] # table[c] THEN CastTimestamp(cols[c], table[c], v) ELSE v
      BY <1>1, <2>1, <2>2 DEF CastRow
    <2>4. CASE cols[c] = table[c]
      BY <1>2, <2>1, <2>3, <2>4
    <2>5. CASE cols[c] # table[c]
      <3>1. cols[c] \in TimeUnits /\ table[c] \in TimeUnits
        BY <2>1, <2>5 DEF TimeUnits, Castable
      <3>2. CastTimestamp(cols[c], table[c], v) \in Values
        BY <3>1, CastIs
      <3> QED BY <1>2, <2>1, <2>3, <2>5, <3>2
    <2> QED BY <2>4, <2>5
  <1>7. HasValues(g, new)
    BY <1>2, <1>4, <1>6 DEF HasValues
  <1> QED BY <1>1, <1>5, <1>7

(* Whatever the schema mode, the batch keeps its rows. *)
LEMMA MappedIs ==
    ASSUME NEW batch, IsBatch(batch), NEW n, n = Len(batch.rows), NEW mode \in {"fixed", "auto", "catalog"},
           NEW table, NEW mapped, mapped = ApplySchemaMode(mode, table, batch), mapped.result # "Err"
    PROVE  IsRows(n, mapped.batch.rows, mapped.batch.cols) /\ Len(mapped.batch.rows) = n
  <1>1. PICK rows : rows = batch.rows
    OBVIOUS
  <1>2. PICK cols : cols = batch.cols
    OBVIOUS
  <1>3. n \in Nat /\ IsRows(n, rows, cols) /\ Len(rows) = n /\ \A i \in 1..n : rows[i].id = i
    BY <1>1, <1>2, BatchIs
  <1>4. "id" \notin DOMAIN cols
    BY <1>2 DEF IsBatch
  <1> DEFINE known == DOMAIN cols \cap DOMAIN table
             castable == \A c \in known : cols[c] = table[c] \/ {cols[c], table[c]} \subseteq {"nanos", "micros"}
             new == [c \in known |-> table[c]]
             cast == [i \in 1..n |-> CastRow(rows[i], cols, table)]
  <1>5. \/ mapped = [result |-> "Ok", batch |-> batch]
        \/ castable /\ mapped = [result |-> "Ok", batch |-> [cols |-> new, rows |-> cast]]
    BY <1>1, <1>2 DEF ApplySchemaMode, CastRow
  <1>6. CASE mapped = [result |-> "Ok", batch |-> batch]
    <2>1. mapped.batch = batch
      BY <1>6
    <2> QED BY <1>1, <1>2, <1>3, <2>1
  <1>7. CASE castable /\ mapped = [result |-> "Ok", batch |-> [cols |-> new, rows |-> cast]]
    <2>1. mapped.batch.rows = cast /\ mapped.batch.cols = new
      BY <1>7, SMTT(30)
    <2>2. PICK nc : nc = new
      OBVIOUS
    <2>3. PICK f : f = cast
      OBVIOUS
    <2>4. Len(f) = n /\ f = [i \in 1..n |-> f[i]] /\ \A i \in 1..n : f[i] = CastRow(rows[i], cols, table)
      BY <1>3, <2>3
    <2>5. ASSUME NEW i \in 1..n PROVE HasValues(f[i], nc) /\ f[i].id = i
      <3>1. PICK row : row = rows[i]
        OBVIOUS
      <3>2. HasValues(row, cols) /\ row.id = i
        BY <1>3, <3>1 DEF IsRows
      <3>3. HasValues(CastRow(row, cols, table), nc) /\ CastRow(row, cols, table).id = row.id
        <4>1. OnlyKnown(nc, cols, table)
          BY <2>2 DEF OnlyKnown
        <4>2. Castable(cols, table)
          BY <1>7 DEF Castable
        <4> QED BY <1>4, <3>2, <4>1, <4>2, CastRowIs
      <3> QED BY <2>4, <3>1, <3>2, <3>3
    <2>6. IsRows(n, f, nc)
      <3>1. \A i \in 1..n : HasValues(f[i], nc) /\ f[i].id \in 1..n
        BY <2>5
      <3>2. \A i, j \in 1..n : f[i].id = f[j].id => i = j
        BY <2>5
      <3>3. \A x \in 1..n : \E i \in 1..n : f[i].id = x
        BY <2>5
      <3>4. f = [i \in 1..n |-> f[i]]
        BY <2>4
      <3> QED BY <3>1, <3>2, <3>3, <3>4 DEF IsRows
    <2> QED BY <2>1, <2>2, <2>3, <2>4, <2>6
  <1> QED BY <1>5, <1>6, <1>7

(* A row's directory is that of its own time. *)
LEMMA PathIsWithin ==
    ASSUME NEW type \in {"nanos", "micros"}, NEW t \in Int, NEW granularity, NEW nanos,
           nanos = IF type = "nanos" THEN t ELSE t * Scale
    PROVE  WithinPath(PartitionPath(granularity, nanos), type, t)
  <1>1. PICK s : s = Seconds(type, t)
    OBVIOUS
  <1>2. Seconds("nanos", nanos) = s
    <2>1. CASE type = "nanos"
      BY <1>1, <2>1
    <2>2. CASE type = "micros"
      <3>1. PICK p \in Nat : p = PerSecond("micros") /\ p # 0
        BY PerSecondIs DEF TimeUnits
      <3>2. PICK sc \in Nat : sc = Scale /\ sc # 0
        BY PerSecondIs
      <3>3. PerSecond("nanos") = sc * p
        BY <3>1, <3>2, PerSecondIs
      <3>4. nanos = t * sc
        BY <2>2, <3>2
      <3>5. (t * sc) \div (sc * p) = t \div p
        BY <3>1, <3>2, DivScaled
      <3>6. Seconds("nanos", nanos) = (t * sc) \div (sc * p)
        BY <3>3, <3>4 DEF Seconds
      <3> QED BY <1>1, <2>2, <3>1, <3>5, <3>6 DEF Seconds
    <2> QED BY <2>1, <2>2
  <1>3. PICK path : path = PartitionPath(granularity, nanos)
    OBVIOUS
  <1>4. path = <<DayOf(s), HourOf(s)>> \/ path = <<DayOf(s)>>
    BY <1>2, <1>3 DEF PartitionPath
  <1>5. type \in TimeUnits
    BY DEF TimeUnits
  <1>6. WithinPath(path, type, t)
    BY <1>1, <1>4, <1>5, TimeIsWithin
  <1> QED BY <1>3, <1>6

(* Rows in order, and parts with the rows of their time. *)
AllInOrder(s, n, sorter, cols) == \A i, j \in 1..n : i < j => InOrder(sorter.keys, cols, s[i], s[j])
FiledByTime(parts, cols) ==
    \A k \in 1..Len(parts) : \A m \in 1..Len(parts[k].rows) :
        WithinPath(parts[k].path, cols["timestamp"], parts[k].rows[m]["timestamp"])

(* What partition_batch makes of rows in order. *)
LEMMA PartitionsAre ==
    ASSUME NEW n \in Nat, NEW b, NEW cols, cols = b.cols, NEW r, r = b.rows, Len(r) = n, IsRows(n, r, cols),
           NEW granularity, NEW out, out = PartitionBatch(b, granularity), out.result = "Ok",
           NEW sorter, AllInOrder(r, n, sorter, cols), NEW batch, IsBatch(batch), n = Len(batch.rows)
    PROVE  /\ EachRowOnce(batch, out.parts) /\ OnePartPerPath(out.parts)
           /\ RowsInOrder(sorter, cols, out.parts) /\ FiledByTime(out.parts, cols)
  <1>1. PICK type : type = cols["timestamp"]
    OBVIOUS
  <1> DEFINE nanos(i) == IF type = "nanos" THEN r[i]["timestamp"] ELSE r[i]["timestamp"] * Scale
             bad == \/ "timestamp" \notin DOMAIN cols \/ type \notin {"nanos", "micros"}
                    \/ \E i \in 1..n : r[i]["timestamp"] = Null \/ ~InI64(nanos(i))
  <1>2. PICK path : path = [i \in 1..n |-> PartitionPath(granularity, nanos(i))]
    OBVIOUS
  <1>3. PICK P : P = {path[i] : i \in 1..n}
    OBVIOUS
  <1>4. PICK list : list = SetToSeq(P)
    OBVIOUS
  <1> DEFINE made == [k \in 1..Len(list) |-> [path |-> list[k], rows |-> RowsWith(r, path, list[k])]]
  <1>5. out = IF bad THEN LayoutErr ELSE Parts(made)
    <2>1. out = IF bad THEN LayoutErr
                ELSE Parts([k \in 1..Len(SetToSeq(P)) |->
                        [path |-> SetToSeq(P)[k], rows |-> RowsWith(r, path, SetToSeq(P)[k])]])
      BY <1>1, <1>2, <1>3, ZenonT(60) DEF PartitionBatch
    <2> QED BY <1>4, <2>1, SMTT(30)
  <1>6. PICK parts : parts = out.parts
    OBVIOUS
  <1>7. ~bad /\ parts = made
    <2> HIDE DEF made, bad
    <2> QED BY <1>5, <1>6 DEF LayoutErr, Parts
  <1>8. type \in {"nanos", "micros"} /\ \A i \in 1..n : r[i]["timestamp"] \in Int
    <2>1. "timestamp" \in DOMAIN cols /\ type \in {"nanos", "micros"}
          /\ \A i \in 1..n : r[i]["timestamp"] # Null
      BY <1>7
    <2>2. ASSUME NEW i \in 1..n PROVE r[i]["timestamp"] \in Int
      <3>1. HasValues(r[i], cols)
        BY DEF IsRows
      <3>2. r[i]["timestamp"] \in Values
        BY <2>1, <3>1 DEF HasValues
      <3> QED BY <2>1, <3>2 DEF Values
    <2> QED BY <2>1, <2>2
  <1>9. /\ Len(list) \in Nat
        /\ \A j, k \in 1..Len(list) : list[j] = list[k] => j = k
        /\ \A i \in 1..n : \E k \in 1..Len(list) : list[k] = path[i]
    <2>1. path \in Surjection(1..n, P)
      BY <1>2, <1>3 DEF Surjection
    <2>2. IsFiniteSet(1..n)
      BY FS_Interval
    <2>3. IsFiniteSet(P)
      BY <2>1, <2>2, FS_Surjection
    <2>4. /\ list \in Seq(P)
          /\ \A x \in P : \E i \in 1..Len(list) : list[i] = x
          /\ \A i, j \in 1..Len(list) : list[i] = list[j] => i = j
      BY <1>4, <2>3, SetToSeqFacts
    <2>5. \A i \in 1..n : path[i] \in P
      BY <1>3
    <2>6. Len(list) \in Nat
      BY <2>4
    <2> HIDE DEF nanos, bad, made
    <2> QED BY <2>4, <2>5, <2>6
  <1>10. Len(parts) = Len(list)
    BY <1>7, <1>9
  <1>11. ASSUME NEW k \in 1..Len(list)
         PROVE  parts[k].path = list[k] /\ parts[k].rows = RowsWith(r, path, list[k])
    BY <1>7
  <1> HIDE DEF made
  <1>12. PICK place : place = Groups(path, list, n)
    OBVIOUS
  <1>13. /\ Spread(parts, r, n, place)
         /\ \A k \in 1..Len(parts) : \A m \in 1..Len(parts[k].rows) : path[place[k][m]] = list[k]
    <2>1. PartsBy(parts, r, path, list)
      BY <1>10, <1>11 DEF PartsBy
    <2>2. ListsKeys(list, path, n)
      BY <1>9 DEF ListsKeys
    <2> QED BY <1>12, <2>1, <2>2, GroupsSpread
  <1>14. EachRowOnce(batch, parts)
    <2>1. Len(batch.rows) = n /\ \A i \in 1..n : batch.rows[i].id = i
      BY BatchIs
    <2> QED BY <1>13, <2>1, SpreadOnce
  <1>15. RowsInOrder(sorter, cols, parts)
    BY <1>13, SpreadInOrder DEF AllInOrder
  <1>16. OnePartPerPath(parts)
    BY <1>9, <1>10, <1>11 DEF OnePartPerPath
  <1>17. ASSUME NEW k \in 1..Len(parts), NEW m \in 1..Len(parts[k].rows)
         PROVE  WithinPath(parts[k].path, type, parts[k].rows[m]["timestamp"])
    <2>1. place[k][m] \in 1..n /\ parts[k].rows[m] = r[place[k][m]]
      BY <1>13, RowOfPart
    <2>2. PICK x \in 1..n : x = place[k][m]
      BY <2>1
    <2>3. path[x] = list[k]
      BY <1>13, <2>2
    <2>4. PICK t \in Int : t = r[x]["timestamp"]
      BY <1>8
    <2>5. PICK ns : ns = IF type = "nanos" THEN t ELSE t * Scale
      OBVIOUS
    <2>6. path[x] = PartitionPath(granularity, ns)
      BY <1>2, <2>4, <2>5
    <2>7. WithinPath(PartitionPath(granularity, ns), type, t)
      BY <1>8, <2>5, PathIsWithin
    <2>8. parts[k].path = list[k]
      BY <1>10, <1>11
    <2> QED BY <2>1, <2>2, <2>3, <2>4, <2>6, <2>7, <2>8
  <1> QED BY <1>1, <1>6, <1>14, <1>15, <1>16, <1>17 DEF FiledByTime

(* The data files of a batch: each row with those of its hour or day, in order. *)
LEMMA IcebergIs ==
    ASSUME NEW batch, IsBatch(batch), NEW sorter, IsKeys(sorter.keys), NEW conf,
           conf.mode \in {"fixed", "auto", "catalog"},
           NEW out \in PrepareIceberg(sorter, conf, batch), out.result = "Ok"
    PROVE  EachRowOnce(batch, out.parts) /\ IcebergIsLaidOut(sorter, conf, batch, out.parts)
  <1>1. PICK n \in Nat : n = Len(batch.rows)
    BY BatchIs
  <1>2. Len(batch.rows) = n /\ \A i \in 1..n : batch.rows[i].id = i
    BY <1>1, BatchIs
  <1>3. PICK parts : parts = out.parts
    OBVIOUS
  <1>4. PICK mapped : mapped = ApplySchemaMode(conf.mode, conf.table, batch)
    OBVIOUS
  <1>5. CASE batch.rows = << >>
    <2>1. out = Parts(<< >>)
      BY <1>5 DEF PrepareIceberg
    <2>2. Len(batch.rows) = 0
      BY <1>5
    <2>3. Len(parts) = 0 /\ EachRowOnce(batch, parts)
      BY <1>3, <2>1, <2>2, NoRows
    <2>4. \A k \in 1..Len(parts) : FALSE
      BY <2>3
    <2> QED BY <1>3, <2>3, <2>4 DEF IcebergIsLaidOut, OnePartPerPath, RowsInOrder
  <1>6. CASE batch.rows # << >>
    <2>1. /\ mapped.result # "Err"
          /\ \E s \in Sort(sorter, mapped.batch, << >>) :
                out = IF s.result = "Err" THEN LayoutErr ELSE PartitionBatch(s.batch, conf.granularity)
      BY <1>4, <1>6 DEF PrepareIceberg, LayoutErr
    <2>2. PICK s \in Sort(sorter, mapped.batch, << >>) :
            out = IF s.result = "Err" THEN LayoutErr ELSE PartitionBatch(s.batch, conf.granularity)
      BY <2>1
    <2>3. s.result # "Err"
      BY <2>2 DEF LayoutErr
    <2>4. PICK mb : mb = mapped.batch
      OBVIOUS
    <2>5. IsRows(n, mb.rows, mb.cols) /\ Len(mb.rows) = n
      <3>1. PICK mode \in {"fixed", "auto", "catalog"} : mode = conf.mode
        OBVIOUS
      <3>2. PICK table : table = conf.table
        OBVIOUS
      <3>3. mapped = ApplySchemaMode(mode, table, batch)
        BY <1>4, <3>1, <3>2
      <3> QED BY <1>1, <2>1, <2>4, <3>3, MappedIs
    <2>6. PICK cols : cols = mb.cols
      OBVIOUS
    <2>7. PICK b : b = s.batch
      OBVIOUS
    <2>8. PICK r : r = b.rows
      OBVIOUS
    <2>9. /\ b.cols = cols /\ Len(r) = n /\ IsRows(n, r, cols)
          /\ \A i, j \in 1..n : i < j => InOrder(sorter.keys, cols, r[i], r[j])
      <3>1. PICK lead : lead = << >>
        OBVIOUS
      <3>2. Len(lead) \in Nat
        BY <3>1
      <3>3. s \in Sort(sorter, mb, lead)
        BY <2>4, <3>1
      <3> QED BY <2>3, <2>5, <2>6, <2>7, <2>8, <3>1, <3>2, <3>3, SortedBy
    <2>10. out = PartitionBatch(b, conf.granularity)
      BY <2>2, <2>3, <2>7
    <2>11. /\ EachRowOnce(batch, parts) /\ OnePartPerPath(parts)
           /\ RowsInOrder(sorter, cols, parts) /\ FiledByTime(parts, cols)
      <3>1. PICK granularity : granularity = conf.granularity
        OBVIOUS
      <3>2. out = PartitionBatch(b, granularity)
        BY <2>10, <3>1
      <3>3. AllInOrder(r, n, sorter, cols)
        BY <2>9 DEF AllInOrder
      <3>4. cols = b.cols /\ r = b.rows /\ Len(r) = n /\ IsRows(n, r, cols)
        BY <2>8, <2>9
      <3>5. /\ EachRowOnce(batch, out.parts) /\ OnePartPerPath(out.parts)
            /\ RowsInOrder(sorter, cols, out.parts) /\ FiledByTime(out.parts, cols)
        BY <1>1, <3>2, <3>3, <3>4, PartitionsAre
      <3> QED BY <1>3, <3>5
    <2> QED BY <1>3, <1>4, <2>4, <2>6, <2>11 DEF IcebergIsLaidOut, FiledByTime
  <1> QED BY <1>5, <1>6

(* The keys of any sorter that a sink is built with. *)
LEMMA KeysOf ==
    ASSUME NEW order, NEW n \in Nat, n = Len(order.defs)
    PROVE  IsKeys(FromConfig(order).keys)
  <1>1. PICK keys : keys = NormalizeColumnDefs(order.defs).keys
    OBVIOUS
  <1>2. FromConfig(order).keys = keys
    BY <1>1 DEF FromConfig
  <1>3. DOMAIN keys = 1..n /\ keys = [i \in 1..n |-> keys[i]]
    BY <1>1 DEF NormalizeColumnDefs
  <1>4. Len(keys) = n
    BY <1>3
  <1> QED BY <1>2, <1>3, <1>4 DEF IsKeys

LEMMA SorterIs ==
    ASSUME NEW j \in LayoutJobs
    PROVE  IsKeys(SorterOf(j).keys)
  <1>1. PICK orderBy : orderBy = j.orderBy
    OBVIOUS
  <1>2. ASSUME orderBy # << >> PROVE IsKeys(FromConfig(orderBy[1]).keys)
    <2>1. 1 \in 1..Len(orderBy)
      BY <1>1, <1>2, LayoutJobsAssumption
    <2>2. PICK order : order = orderBy[1]
      OBVIOUS
    <2>3. PICK defs : defs = order.defs
      OBVIOUS
    <2>4. orderBy[1].defs \in Seq({orderBy[1].defs[k] : k \in 1..Len(orderBy[1].defs)})
      <3>1. \A i \in 1..Len(j.orderBy) :
              j.orderBy[i].defs \in Seq({j.orderBy[i].defs[k] : k \in 1..Len(j.orderBy[i].defs)})
        BY LayoutJobsAssumption, Zenon
      <3> QED BY <1>1, <2>1, <3>1, Zenon
    <2>5. PICK T : defs \in Seq(T)
      BY <2>2, <2>3, <2>4
    <2>6. PICK n \in Nat : n = Len(defs)
      BY <2>5
    <2>7. IsKeys(FromConfig(order).keys)
      BY <2>3, <2>6, KeysOf
    <2> QED BY <2>2, <2>7
  <1>3. IsKeys(FromConfig(NoOrder).keys)
    <2>1. NoOrder.defs = << >>
      BY DEF NoOrder
    <2>2. 0 \in Nat /\ 0 = Len(NoOrder.defs)
      BY <2>1
    <2> QED BY <2>2, KeysOf
  <1>4. IsKeys(FromConfig(IcebergOrder).keys)
    <2>1. PICK defs : defs = IcebergOrder.defs
      OBVIOUS
    <2>2. DOMAIN defs = 1..3 /\ defs = [i \in 1..3 |-> defs[i]]
      BY <2>1 DEF IcebergOrder
    <2>3. 3 \in Nat /\ 3 = Len(defs)
      BY <2>2
    <2> QED BY <2>1, <2>3, KeysOf
  <1>5. CASE j.sink = "iceberg"
    <2>1. SorterOf(j) = IcebergSorter(orderBy)
      BY <1>1, <1>5 DEF SorterOf
    <2> QED BY <1>2, <1>4, <2>1 DEF IcebergSorter
  <1>6. CASE j.sink # "iceberg"
    <2>1. SorterOf(j) = SinkSorter(orderBy)
      BY <1>1, <1>6 DEF SorterOf
    <2>2. CASE orderBy = << >>
      BY <1>3, <2>1, <2>2 DEF SinkSorter
    <2>3. CASE orderBy # << >>
      BY <1>2, <2>1, <2>3 DEF SinkSorter
    <2> QED BY <2>2, <2>3
  <1> QED BY <1>5, <1>6

(* Whatever a sink makes of a batch, its rows are where they belong. *)
LEMMA LayoutsAreRight ==
    ASSUME NEW j \in LayoutJobs, NEW out \in LayoutAnswers(j)
    PROVE  LaidOut(j.sink, SorterOf(j), j.config, j.batch, out)
  <1>1. SUFFICES ASSUME out.result = "Ok" PROVE LaidOut(j.sink, SorterOf(j), j.config, j.batch, out)
    BY DEF LaidOut
  <1>2. PICK sorter : sorter = SorterOf(j)
    OBVIOUS
  <1>3. PICK conf : conf = j.config
    OBVIOUS
  <1>4. PICK batch : batch = j.batch
    OBVIOUS
  <1>5. IsKeys(sorter.keys)
    BY <1>2, SorterIs
  <1>6. IsBatch(batch) /\ "signal_type" \notin DOMAIN batch.cols
    BY <1>4, LayoutJobsAssumption
  <1>7. out # LayoutErr
    BY <1>1 DEF LayoutErr
  <1>8. out \in CASE j.sink = "iceberg" -> PrepareIceberg(sorter, conf, batch)
                  [] j.sink = "kafka" -> PrepareKafka(sorter, conf, batch)
                  [] j.sink = "starrocks" -> PrepareStarRocks(sorter, conf, batch)
                  [] j.sink = "parquet" -> {RouteBatch(conf, batch)}
    BY <1>2, <1>3, <1>4, <1>7 DEF LayoutAnswers
  <1>9. CASE j.sink = "iceberg"
    <2>1. out \in PrepareIceberg(sorter, conf, batch)
      BY <1>8, <1>9
    <2>2. conf.mode \in {"fixed", "auto", "catalog"}
      BY <1>3, <1>9, LayoutJobsAssumption
    <2>3. EachRowOnce(batch, out.parts) /\ IcebergIsLaidOut(sorter, conf, batch, out.parts)
      BY <1>1, <1>5, <1>6, <2>1, <2>2, IcebergIs
    <2> QED BY <1>2, <1>3, <1>4, <1>9, <2>3 DEF LaidOut
  <1>10. CASE j.sink = "kafka"
    <2>1. out \in PrepareKafka(sorter, conf, batch)
      BY <1>8, <1>10
    <2>2. PICK key : key = conf.key
      OBVIOUS
    <2>3. key \in {<< >>} \cup {<<key[i]>> : i \in 1..Len(key)}
      BY <1>3, <1>10, <2>2, LayoutJobsAssumption
    <2>4. key = << >> \/ Len(key) = 1
      <3>1. CASE key = << >>
        BY <3>1
      <3>2. CASE key # << >>
        <4>1. PICK i \in 1..Len(key) : key = <<key[i]>>
          BY <2>3, <3>2
        <4>2. PICK x : x = key[i]
          OBVIOUS
        <4>3. key = <<x>>
          BY <4>1, <4>2
        <4>4. Len(<<x>>) = 1
          OBVIOUS
        <4> QED BY <4>3, <4>4, Zenon
      <3> QED BY <3>1, <3>2
    <2>5. conf.key = << >> \/ Len(conf.key) = 1
      BY <2>2, <2>4
    <2>6. EachRowOnce(batch, out.parts) /\ KafkaIsLaidOut(sorter, conf, batch, out.parts)
      BY <1>1, <1>5, <1>6, <2>1, <2>5, KafkaIs
    <2> QED BY <1>2, <1>3, <1>4, <1>10, <2>6 DEF LaidOut
  <1>11. CASE j.sink = "starrocks"
    <2>1. out \in PrepareStarRocks(sorter, conf, batch)
      BY <1>8, <1>11
    <2>2. EachRowOnce(batch, out.parts) /\ StarRocksIsLaidOut(sorter, conf, batch, out.parts)
      BY <1>1, <1>5, <1>6, <2>1, StarRocksIs
    <2> QED BY <1>2, <1>3, <1>4, <1>11, <2>2 DEF LaidOut
  <1>12. CASE j.sink = "parquet"
    <2>1. out = RouteBatch(conf, batch)
      BY <1>8, <1>12
    <2>2. conf.now \in Int
      BY <1>3, <1>12, LayoutJobsAssumption
    <2>3. EachRowOnce(batch, out.parts) /\ ParquetIsLaidOut(conf, batch, out.parts)
      BY <1>6, <2>1, <2>2, ParquetIs
    <2> QED BY <1>2, <1>3, <1>4, <1>12, <2>3 DEF LaidOut
  <1>13. j.sink \in {"iceberg", "kafka", "starrocks", "parquet"}
    BY LayoutJobsAssumption
  <1> QED BY <1>9, <1>10, <1>11, <1>12, <1>13

(* What was asked, and one of its answers. *)
RowsAsked ==
    /\ job \in LayoutJobs \cup DocumentJobs
    /\ \/ answer = << >>
       \/ job.kind = "layout" /\ \E a \in LayoutAnswers(job) : answer = <<a>>
       \/ job.kind = "document" /\ answer = <<WriteValue(job.type, job.value, job.unpack)>>

(* Whatever the batch, the sink, its order and its configuration, each row is      *)
(* written once, where its key or its time belongs and in the configured order,    *)
(* and a bulk document is one line with the row's own time.                        *)
THEOREM RowsAreInPlace == RowSpec => []RowsKeepTheirPlace
  <1>1. Asked(LayoutJobs \cup DocumentJobs) => RowsAsked
    BY DEF Asked, RowsAsked
  <1>2. RowsAsked /\ [AnswerLayout \/ AnswerDocument]_jobVars => RowsAsked'
    <2>1. SUFFICES ASSUME RowsAsked, [AnswerLayout \/ AnswerDocument]_jobVars PROVE RowsAsked'
      OBVIOUS
    <2>2. CASE AnswerLayout
      BY <2>1, <2>2 DEF RowsAsked, AnswerLayout, Answer
    <2>3. CASE AnswerDocument
      BY <2>1, <2>3 DEF RowsAsked, AnswerDocument, Answer
    <2>4. CASE UNCHANGED jobVars
      BY <2>1, <2>4 DEF RowsAsked, jobVars
    <2> QED BY <2>1, <2>2, <2>3, <2>4
  <1>3. RowsAsked => RowsKeepTheirPlace
    <2>1. SUFFICES ASSUME RowsAsked PROVE RowsKeepTheirPlace
      OBVIOUS
    <2>2. ASSUME Done("layout")
          PROVE  LaidOut(job.sink, SorterOf(job), job.config, job.batch, answer[1])
      <3>1. PICK a \in LayoutAnswers(job) : answer = <<a>>
        BY <2>1, <2>2 DEF RowsAsked, Done
      <3>2. job \in LayoutJobs
        BY <2>1, <2>2, LayoutJobsAssumption DEF RowsAsked, Done
      <3>3. answer[1] = a
        BY <3>1
      <3>4. LaidOut(job.sink, SorterOf(job), job.config, job.batch, a)
        BY <3>2, LayoutsAreRight
      <3> QED BY <3>3, <3>4
    <2>3. ASSUME Done("document") PROVE DocumentIsFaithful(job.type, job.value, answer[1])
      <3>1. PICK text : text = WriteValue(job.type, job.value, job.unpack)
        OBVIOUS
      <3>2. answer = <<text>>
        BY <2>1, <2>3, <3>1 DEF RowsAsked, Done
      <3>3. job \in DocumentJobs
        BY <2>1, <2>3, LayoutJobsAssumption DEF RowsAsked, Done
      <3>4. answer[1] = text
        BY <3>2
      <3>5. DocumentIsFaithful(job.type, job.value, text)
        BY <3>1, <3>3, DocumentsAreFaithful
      <3> QED BY <3>4, <3>5
    <2> QED BY <2>2, <2>3 DEF RowsKeepTheirPlace
  <1> QED BY <1>1, <1>2, <1>3, PTL DEF RowSpec

=============================================================================
