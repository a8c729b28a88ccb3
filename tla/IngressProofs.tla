----------------------------- MODULE IngressProofs -----------------------------
(***************************************************************************)
(* ChannelIngress is correct for any number of events, requests, workers,  *)
(* identities, threads and faults.                                         *)
(***************************************************************************)
EXTENDS ChannelIngress, TLAPS

\* A row has a digest exactly when it exists, a request past its check knows its
\* event and payload, and what was answered agrees with the row.
RequestInv ==
    /\ \A e \in Events : event[e].status = "none" <=> event[e].digest = NoDigest
    /\ \A q \in Requests :
          /\ request[q].pc # "new" => request[q].event \in Events /\ request[q].digest \in Digests
          /\ request[q].pc # "done" => request[q].answer = "none"

\* A busy worker has an event, which is PROCESSING and nobody else's.
HolderInv ==
    /\ \A w \in Workers : worker[w].pc # "idle" =>
          worker[w].event \in Events /\ event[worker[w].event].status = "PROCESSING"
    /\ \A v, w \in Workers :
          worker[v].pc # "idle" /\ worker[w].pc # "idle" /\ worker[v].event = worker[w].event
          => v = w

\* What an open transaction has resolved so far, seen or inserted, is there or
\* will be when it commits; no two open transactions insert one conversation.
TransactionInv ==
    /\ \A w \in Workers :
          /\ worker[w].newCustomer \/ worker[w].newConversation => worker[w].pc # "idle"
          /\ worker[w].pc \in {"conversation", "create_conversation", "message"} =>
                worker[w].newCustomer \/ identity(w) \in customers
          /\ worker[w].pc = "message" =>
                worker[w].newConversation \/ conversation[conv(w)] # "none"
          /\ worker[w].newConversation => conversation[conv(w)] = "none"
    /\ \A v, w \in Workers :
          worker[v].newConversation /\ worker[w].newConversation /\ conv(v) = conv(w) => v = w

\* A conversation was opened for one customer, whose row is committed with it.
ConversationInv ==
    \A c \in Conversations :
        IF conversation[c] = "none" THEN owner[c] = {}
                                    ELSE \E i \in customers : owner[c] = {i}

IInv == /\ TypeOK /\ RequestInv /\ AnswersAgree /\ HolderInv /\ TransactionInv
        /\ ConversationInv /\ OneMessagePerEvent /\ ProcessedIsReachable

\* The name of an event's conversation is one.
LEMMA ConversationName == \A e \in Events : ConversationOf(e) \in Conversations
BY IngressAssumption DEF ConversationOf, Conversations

\* Nothing has been received yet.
LEMMA InitInv == Init => IInv
<1> SUFFICES ASSUME Init PROVE IInv
  OBVIOUS
<1>1. TypeOK
  BY IngressAssumption DEF Init, TypeOK, NewRequest, IdleWorker, EventStatuses,
       ConversationStatuses, PCs, Answers
<1>2. RequestInv /\ AnswersAgree
  BY IngressAssumption DEF Init, RequestInv, AnswersAgree, NewRequest
<1>3. HolderInv /\ TransactionInv
  BY DEF Init, HolderInv, TransactionInv, IdleWorker
<1>4. ConversationInv /\ OneMessagePerEvent /\ ProcessedIsReachable
  BY DEF Init, ConversationInv, OneMessagePerEvent, ProcessedIsReachable
<1> QED
  BY <1>1, <1>2, <1>3, <1>4 DEF IInv

-----------------------------------------------------------------------------
(* Requests *)

\* A request changes nothing but itself and a row that was not there.
LEMMA RequestStep ==
    ASSUME IInv, UNCHANGED <<domain, worker>>,
           TypeOK', RequestInv', AnswersAgree',
           \A e \in Events : event[e].status # "none" => event'[e] = event[e],
           \A e \in Events : event[e].status = "none" => event'[e].status \in {"none", "RECEIVED"}
    PROVE  IInv'
<1>1. HolderInv'
  BY DEF IInv, HolderInv
<1>2. TransactionInv' /\ ConversationInv'
  BY DEF IInv, TransactionInv, ConversationInv, domain, identity, conv
<1>3. \A e \in Events : event'[e].status = "PROCESSED" <=> event[e].status = "PROCESSED"
  OBVIOUS
<1>4. OneMessagePerEvent' /\ ProcessedIsReachable'
  BY <1>3 DEF IInv, OneMessagePerEvent, ProcessedIsReachable, domain
<1> QED
  BY <1>1, <1>2, <1>4 DEF IInv

\* The check answers from the row or goes on to the insert.
LEMMA CheckStep ==
    ASSUME IInv, NEW q \in Requests, NEW e \in Events, NEW d \in Digests, check_existing(q, e, d)
    PROVE  IInv'
<1>1. PICK new : /\ request' = [request EXCEPT ![q] = new]
                 /\ \/ /\ event[e].status # "none"
                       /\ new = [pc |-> "done", event |-> e, digest |-> d,
                                 answer |-> AnswerFromRow(e, d)]
                    \/ new = [pc |-> "insert", event |-> e, digest |-> d, answer |-> "none"]
  BY DEF check_existing, Answer
<1>2. UNCHANGED <<event, domain, tasks, worker, faults>>
  BY DEF check_existing
<1>3. /\ new \in [pc : {"new", "insert", "done"}, event : Events \cup {NoEvent},
                  digest : Digests \cup {NoDigest}, answer : Answers]
      /\ new.event = e /\ new.digest = d /\ new.pc \in {"insert", "done"}
      /\ new.pc # "done" => new.answer = "none"
      /\ new.answer \in {"accepted", "duplicate"} => event[e].digest = d
      /\ new.answer = "conflict" => event[e].status # "none" /\ event[e].digest # d
  BY <1>1 DEF AnswerFromRow, Answers
<1>4. TypeOK'
  BY <1>1, <1>2, <1>3 DEF IInv, TypeOK, domain
<1>5. RequestInv'
  BY <1>1, <1>2, <1>3 DEF IInv, TypeOK, RequestInv
<1>6. AnswersAgree'
  BY <1>1, <1>2, <1>3 DEF IInv, TypeOK, AnswersAgree
<1> QED
  BY <1>2, <1>4, <1>5, <1>6, RequestStep

\* The insert makes the row, or answers from the one that won.
LEMMA InsertStep ==
    ASSUME IInv, NEW q \in Requests, insert_event(q)
    PROVE  IInv'
<1> DEFINE e == request[q].event
           d == request[q].digest
           rec(a) == [pc |-> "done", event |-> e, digest |-> d, answer |-> a]
<1>1. e \in Events /\ d \in Digests /\ UNCHANGED <<domain, worker>> /\ d # NoDigest
  BY IngressAssumption DEF insert_event, IInv, RequestInv
<1>2. PICK a \in Answers : request' = [request EXCEPT ![q] = rec(a)]
  BY DEF insert_event, Answer, Answers, AnswerFromRow
<1>3. CASE event[e].status = "none"
  <2>1. /\ event' = [event EXCEPT ![e] = [status |-> "RECEIVED", digest |-> d]]
        /\ tasks' \subseteq tasks \cup {e} /\ faults' \in {faults, faults - 1}
        /\ faults' # faults => faults > 0
        /\ a \in {"accepted", "error"}
    <3>1. rec(a) \in {rec("accepted"), rec("error")}
      BY <1>2, <1>3 DEF insert_event, Answer, IInv, TypeOK
    <3>2. a \in {"accepted", "error"}
      BY <3>1
    <3> QED
      BY <1>3, <3>2 DEF insert_event
  <2>2. TypeOK'
    <3>1. event' \in [Events -> [status : EventStatuses, digest : Digests \cup {NoDigest}]]
      BY <1>1, <2>1 DEF IInv, TypeOK, EventStatuses
    <3>2. faults' \in 0..MaxFaults /\ tasks' \subseteq Events
      BY <1>1, <2>1, IngressAssumption DEF IInv, TypeOK
    <3>3. request' \in [Requests -> [pc : {"new", "insert", "done"},
                                     event : Events \cup {NoEvent},
                                     digest : Digests \cup {NoDigest}, answer : Answers]]
      BY <1>1, <1>2 DEF IInv, TypeOK
    <3> QED
      BY <1>1, <3>1, <3>2, <3>3 DEF IInv, TypeOK, domain
  <2>3. RequestInv'
    BY <1>1, <1>2, <2>1 DEF IInv, TypeOK, RequestInv
  <2>4. AnswersAgree'
    <3> SUFFICES ASSUME NEW p \in Requests
                 PROVE  /\ request'[p].answer \in {"accepted", "duplicate"} =>
                              event'[request'[p].event].digest = request'[p].digest
                        /\ request'[p].answer = "conflict" =>
                              /\ event'[request'[p].event].status # "none"
                              /\ event'[request'[p].event].digest # request'[p].digest
      BY DEF AnswersAgree
    <3>1. CASE p = q
      BY <1>1, <1>2, <2>1, <3>1 DEF IInv, TypeOK
    <3>2. CASE p # q
      <4>1. request'[p] = request[p]
        BY <1>2, <3>2 DEF IInv, TypeOK
      <4>2. CASE request[p].answer \in {"accepted", "duplicate", "conflict"}
        <5>1. request[p].event \in Events /\ request[p].digest \in Digests
          BY <4>2 DEF IInv, RequestInv
        <5>2. request[p].event # e
          BY <1>1, <1>3, <4>2, <5>1, IngressAssumption DEF IInv, RequestInv, AnswersAgree
        <5>3. event'[request[p].event] = event[request[p].event]
          BY <1>1, <2>1, <5>1, <5>2 DEF IInv, TypeOK
        <5> QED
          BY <4>1, <5>3 DEF IInv, AnswersAgree
      <4> QED
        BY <4>1, <4>2
    <3> QED
      BY <3>1, <3>2
  <2>5. \A f \in Events : IF f = e THEN event'[f].status = "RECEIVED" ELSE event'[f] = event[f]
    BY <1>1, <2>1 DEF IInv, TypeOK
  <2> QED
    BY <1>1, <1>3, <2>2, <2>3, <2>4, <2>5, RequestStep
<1>4. CASE event[e].status # "none"
  <2>1. UNCHANGED <<event, tasks, faults>>
    BY <1>4 DEF insert_event
  <2>2. request' = [request EXCEPT ![q] = rec(AnswerFromRow(e, d))]
    BY <1>4 DEF insert_event, Answer
  <2>3. TypeOK'
    BY <1>1, <1>2, <2>1 DEF IInv, TypeOK, domain
  <2>4. RequestInv'
    BY <1>1, <1>2, <2>1 DEF IInv, TypeOK, RequestInv
  <2>5. AnswersAgree'
    BY <1>1, <1>4, <2>1, <2>2 DEF IInv, TypeOK, AnswersAgree, AnswerFromRow
  <2> QED
    BY <1>1, <2>1, <2>3, <2>4, <2>5, RequestStep
<1> QED
  BY <1>3, <1>4

-----------------------------------------------------------------------------
(* Workers *)

WorkerRecords ==
    [pc : PCs, event : Events \cup {NoEvent}, newCustomer : BOOLEAN,
     newConversation : BOOLEAN, seen : ConversationStatuses]

\* A step inside the transaction, or its end without commit: only the worker
\* changes, and its new record keeps what TransactionInv says.
LEMMA MoveStep ==
    ASSUME IInv, NEW w \in Workers, NEW new \in WorkerRecords,
           worker' = [worker EXCEPT ![w] = new],
           UNCHANGED <<request, event, domain, tasks>>, faults' \in 0..MaxFaults,
           new.pc # "idle" => worker[w].pc # "idle" /\ new.event = worker[w].event,
           new.newCustomer \/ new.newConversation => new.pc # "idle",
           new.pc \in {"conversation", "create_conversation", "message"} =>
              new.newCustomer \/ IdentityOf[new.event] \in customers,
           new.pc = "message" =>
              new.newConversation \/ conversation[ConversationOf(new.event)] # "none",
           new.newConversation =>
              /\ conversation[ConversationOf(new.event)] = "none"
              /\ \A v \in Workers : v # w /\ worker[v].newConversation =>
                    conv(v) # ConversationOf(new.event)
    PROVE  IInv'
<1>1. /\ worker \in [Workers -> WorkerRecords] /\ worker'[w] = new
      /\ \A v \in Workers : v # w => worker'[v] = worker[v]
  BY DEF IInv, TypeOK, WorkerRecords
<1>2. TypeOK'
  BY DEF IInv, TypeOK, WorkerRecords, domain
<1>3. RequestInv' /\ AnswersAgree'
  BY DEF IInv, RequestInv, AnswersAgree
<1>4. HolderInv'
  BY <1>1 DEF IInv, HolderInv
<1>5. TransactionInv'
  BY <1>1 DEF IInv, TransactionInv, identity, conv, domain
<1>6. ConversationInv' /\ OneMessagePerEvent' /\ ProcessedIsReachable'
  BY DEF IInv, ConversationInv, OneMessagePerEvent, ProcessedIsReachable, domain
<1> QED
  BY <1>2, <1>3, <1>4, <1>5, <1>6 DEF IInv

\* Rolling back to mark the event failed forgets what was inserted.
LEMMA FailStep ==
    ASSUME IInv, NEW w \in Workers, worker[w].pc # "idle", Fail(w),
           UNCHANGED <<request, event, domain, tasks, faults>>
    PROVE  IInv'
<1> DEFINE new == [IdleWorker EXCEPT !.pc = "mark_failed", !.event = worker[w].event]
<1>1. /\ new \in WorkerRecords /\ new.pc = "mark_failed" /\ new.event = worker[w].event
      /\ new.newCustomer = FALSE /\ new.newConversation = FALSE
  BY DEF IdleWorker, WorkerRecords, PCs, ConversationStatuses, IInv, HolderInv
<1>2. worker' = [worker EXCEPT ![w] = new] /\ faults' \in 0..MaxFaults
  BY DEF Fail, IInv, TypeOK
<1> HIDE DEF new
<1> QED
  BY <1>1, <1>2, MoveStep

\* The steps of the transaction before its last.
LEMMA ResolveStep ==
    ASSUME IInv, NEW w \in Workers,
           \/ resolve_customer_identity(w) \/ create_customer(w)
           \/ resolve_conversation(w) \/ create_conversation(w)
    PROVE  IInv'
<1> DEFINE old == worker[w]
<1>1. /\ UNCHANGED <<request, event, domain, tasks, faults>> /\ faults' \in 0..MaxFaults
      /\ old.pc # "idle" /\ old \in WorkerRecords /\ old.event \in Events
      /\ worker \in [Workers -> WorkerRecords]
  BY DEF resolve_customer_identity, create_customer, resolve_conversation,
         create_conversation, IInv, TypeOK, HolderInv, WorkerRecords
<1>2. /\ old.newConversation => conversation[conv(w)] = "none"
      /\ old.newConversation => \A v \in Workers : v # w /\ worker[v].newConversation =>
            conv(v) # conv(w)
      /\ old.pc \in {"conversation", "create_conversation", "message"} =>
            old.newCustomer \/ identity(w) \in customers
  BY DEF IInv, TransactionInv
<1>3. ASSUME NEW next \in {"conversation", "create_customer", "create_conversation"}, Go(w, next),
             next # "create_customer" => old.newCustomer \/ identity(w) \in customers
      PROVE  IInv'
  <2> DEFINE new == [old EXCEPT !.pc = next]
  <2>1. /\ new \in WorkerRecords /\ new.pc = next /\ new.event = old.event
        /\ new.newCustomer = old.newCustomer /\ new.newConversation = old.newConversation
        /\ worker' = [worker EXCEPT ![w] = new]
    BY <1>1, <1>3 DEF WorkerRecords, PCs, Go
  <2> HIDE DEF new
  <2> QED
    BY <1>1, <1>2, <1>3, <2>1, MoveStep DEF identity, conv
<1>4. CASE resolve_customer_identity(w)
  <2>1. CASE identity(w) \in customers /\ Go(w, "conversation")
    BY <1>3, <2>1
  <2>2. CASE Fail(w)
    BY <1>1, <2>2, FailStep
  <2>3. CASE Go(w, "create_customer")
    BY <1>3, <2>3
  <2> QED
    BY <1>4, <2>1, <2>2, <2>3 DEF resolve_customer_identity
<1>5. CASE create_customer(w)
  <2>1. CASE Fail(w)
    BY <1>1, <2>1, FailStep
  <2>2. CASE worker' = [worker EXCEPT ![w].pc = "conversation", ![w].newCustomer = TRUE]
    <3> DEFINE new == [old EXCEPT !.pc = "conversation", !.newCustomer = TRUE]
    <3>1. /\ new \in WorkerRecords /\ new.pc = "conversation" /\ new.event = old.event
          /\ new.newCustomer /\ new.newConversation = old.newConversation
          /\ worker' = [worker EXCEPT ![w] = new]
      BY <1>1, <2>2 DEF WorkerRecords, PCs
    <3> HIDE DEF new
    <3> QED
      BY <1>1, <1>2, <3>1, MoveStep DEF identity, conv
  <2> QED
    BY <1>5, <2>1, <2>2 DEF create_customer
<1>6. ASSUME old.pc \in {"conversation", "create_conversation"},
             conversation[conv(w)] # "none", SeeConversation(w)
      PROVE  IInv'
  <2> DEFINE new == [old EXCEPT !.pc = "message", !.seen = conversation[conv(w)]]
  <2>1. conversation[conv(w)] \in ConversationStatuses
    BY <1>1, ConversationName DEF conv, IInv, TypeOK
  <2>2. /\ new \in WorkerRecords /\ new.pc = "message" /\ new.event = old.event
        /\ new.newCustomer = old.newCustomer /\ new.newConversation = old.newConversation
        /\ worker' = [worker EXCEPT ![w] = new]
    BY <1>1, <1>6, <2>1 DEF WorkerRecords, PCs, SeeConversation
  <2> HIDE DEF new
  <2> QED
    BY <1>1, <1>2, <1>6, <2>2, MoveStep DEF identity, conv
<1>7. CASE resolve_conversation(w)
  <2>1. CASE conversation[conv(w)] # "none"
    BY <1>6, <1>7, <2>1 DEF resolve_conversation
  <2>2. CASE conversation[conv(w)] = "none"
    BY <1>2, <1>3, <1>7, <2>2 DEF resolve_conversation
  <2> QED
    BY <2>1, <2>2
<1>8. CASE create_conversation(w)
  <2>1. CASE conversation[conv(w)] # "none"
    BY <1>6, <1>8, <2>1 DEF create_conversation
  <2>2. CASE conversation[conv(w)] = "none"
    <3> DEFINE new == [old EXCEPT !.pc = "message", !.seen = "OPEN", !.newConversation = TRUE]
    <3>1. /\ new \in WorkerRecords /\ new.pc = "message" /\ new.event = old.event
          /\ new.newCustomer = old.newCustomer /\ new.newConversation
          /\ worker' = [worker EXCEPT ![w] = new]
      BY <1>1, <1>8, <2>2 DEF WorkerRecords, PCs, ConversationStatuses, create_conversation
    <3>2. /\ old.pc = "create_conversation"
          /\ \A v \in Workers : worker[v].newConversation => conv(v) # conv(w)
      BY <1>8 DEF create_conversation
    <3> HIDE DEF new
    <3> QED
      BY <1>1, <1>2, <2>2, <3>1, <3>2, MoveStep DEF identity, conv
  <2> QED
    BY <2>1, <2>2
<1> QED
  BY <1>4, <1>5, <1>7, <1>8

\* A claim takes a RECEIVED event, which no busy worker has.
LEMMA ClaimStep ==
    ASSUME IInv, NEW w \in Workers, NEW e \in Events, claim_inbound_channel_event(w, e)
    PROVE  IInv'
<1>1. /\ UNCHANGED <<request, domain>> /\ worker[w].pc = "idle"
      /\ tasks' \subseteq Events /\ faults' \in 0..MaxFaults
  BY IngressAssumption DEF claim_inbound_channel_event, IInv, TypeOK
<1>2. CASE event[e].status # "RECEIVED"
  <2>1. UNCHANGED <<event, worker>>
    BY <1>2 DEF claim_inbound_channel_event
  <2>2. TypeOK'
    BY <1>1, <2>1 DEF IInv, TypeOK, domain
  <2> QED
    BY <1>1, <2>1, <2>2, RequestStep DEF IInv, RequestInv, AnswersAgree
<1>3. CASE event[e].status = "RECEIVED"
  <2> DEFINE new == [IdleWorker EXCEPT !.pc = "identity", !.event = e]
  <2>1. /\ event' = [event EXCEPT ![e].status = "PROCESSING"]
        /\ worker' = [worker EXCEPT ![w] = new]
    BY <1>3 DEF claim_inbound_channel_event
  <2>2. /\ new \in WorkerRecords /\ new.pc = "identity" /\ new.event = e
        /\ new.newCustomer = FALSE /\ new.newConversation = FALSE
    BY DEF IdleWorker, WorkerRecords, PCs, ConversationStatuses
  <2> HIDE DEF new
  <2>3. /\ worker \in [Workers -> WorkerRecords] /\ worker'[w] = new
        /\ \A v \in Workers : v # w => worker'[v] = worker[v]
    BY <2>1 DEF IInv, TypeOK, WorkerRecords
  <2>4. /\ event'[e].status = "PROCESSING" /\ event'[e].digest = event[e].digest
        /\ \A f \in Events : f # e => event'[f] = event[f]
    BY <2>1 DEF IInv, TypeOK
  <2>5. TypeOK'
    <3>1. event' \in [Events -> [status : EventStatuses, digest : Digests \cup {NoDigest}]]
      BY <2>1 DEF IInv, TypeOK, EventStatuses
    <3>2. worker' \in [Workers -> WorkerRecords]
      BY <2>1, <2>2, <2>3
    <3> QED
      BY <1>1, <3>1, <3>2 DEF IInv, TypeOK, domain, WorkerRecords
  <2>6. RequestInv'
    BY <1>1, <1>3, <2>4 DEF IInv, RequestInv
  <2>7. AnswersAgree'
    <3>1. \A q \in Requests : request[q].answer # "none" => request[q].event \in Events
      BY DEF IInv, RequestInv
    <3> QED
      BY <1>1, <1>3, <2>4, <3>1 DEF IInv, AnswersAgree
  <2>8. \A v \in Workers : worker[v].pc # "idle" => worker[v].event \in Events \ {e}
    BY <1>3 DEF IInv, HolderInv
  <2>9. HolderInv'
    BY <2>2, <2>3, <2>4, <2>8 DEF IInv, HolderInv
  <2>10. TransactionInv'
    BY <1>1, <2>2, <2>3 DEF IInv, TransactionInv, identity, conv, domain
  <2>11. ConversationInv' /\ OneMessagePerEvent' /\ ProcessedIsReachable'
    BY <1>1, <1>3, <2>4 DEF IInv, ConversationInv, OneMessagePerEvent, ProcessedIsReachable, domain
  <2> QED
    BY <2>5, <2>6, <2>7, <2>9, <2>10, <2>11 DEF IInv
<1> QED
  BY <1>2, <1>3

\* A worker that ends its event leaves the other workers' events alone.
LEMMA EndStep ==
    ASSUME IInv, NEW w \in Workers, worker[w].pc # "idle", NEW status \in Ended,
           event' = [event EXCEPT ![worker[w].event].status = status],
           Finish(w), UNCHANGED <<request, tasks, faults>>
    PROVE  /\ event' \in [Events -> [status : EventStatuses, digest : Digests \cup {NoDigest}]]
           /\ worker' \in [Workers -> WorkerRecords]
           /\ RequestInv' /\ AnswersAgree' /\ HolderInv'
           /\ worker'[w].pc = "idle"
           /\ worker'[w].newCustomer = FALSE /\ worker'[w].newConversation = FALSE
           /\ \A v \in Workers : v # w => worker'[v] = worker[v]
           /\ event'[worker[w].event].status = status
           /\ \A f \in Events : f # worker[w].event => event'[f] = event[f]
<1> DEFINE e == worker[w].event
<1>1. e \in Events /\ event[e].status = "PROCESSING"
  BY DEF IInv, HolderInv
<1>2. /\ event' \in [Events -> [status : EventStatuses, digest : Digests \cup {NoDigest}]]
      /\ event'[e].status = status /\ event'[e].digest = event[e].digest
      /\ \A f \in Events : f # e => event'[f] = event[f]
  BY <1>1 DEF IInv, TypeOK, EventStatuses, Ended
<1>3. /\ IdleWorker \in WorkerRecords /\ IdleWorker.pc = "idle"
      /\ IdleWorker.newCustomer = FALSE /\ IdleWorker.newConversation = FALSE
  BY DEF IdleWorker, WorkerRecords, PCs, ConversationStatuses
<1>4. /\ worker' \in [Workers -> WorkerRecords] /\ worker'[w] = IdleWorker
      /\ \A v \in Workers : v # w => worker'[v] = worker[v]
  BY <1>3 DEF Finish, IInv, TypeOK, WorkerRecords
<1>5. RequestInv'
  BY <1>1, <1>2 DEF IInv, RequestInv, Ended
<1>6. AnswersAgree'
  <2>1. \A q \in Requests : request[q].answer # "none" => request[q].event \in Events
    BY DEF IInv, RequestInv
  <2> QED
    BY <1>1, <1>2, <2>1 DEF IInv, AnswersAgree, Ended
<1>7. HolderInv'
  BY <1>1, <1>2, <1>3, <1>4 DEF IInv, HolderInv
<1> QED
  BY <1>2, <1>3, <1>4, <1>5, <1>6, <1>7

\* Marking an event failed writes nothing else.
LEMMA MarkStep ==
    ASSUME IInv, NEW w \in Workers, mark_event_failed(w)
    PROVE  IInv'
<1>1. /\ worker[w].pc # "idle" /\ Finish(w) /\ UNCHANGED <<request, domain, tasks, faults>>
      /\ event' = [event EXCEPT ![worker[w].event].status = "FAILED"] /\ "FAILED" \in Ended
  BY DEF mark_event_failed, Ended
<1>2. /\ event' \in [Events -> [status : EventStatuses, digest : Digests \cup {NoDigest}]]
      /\ worker' \in [Workers -> WorkerRecords]
      /\ RequestInv' /\ AnswersAgree' /\ HolderInv'
      /\ worker'[w].pc = "idle"
      /\ worker'[w].newCustomer = FALSE /\ worker'[w].newConversation = FALSE
      /\ \A v \in Workers : v # w => worker'[v] = worker[v]
      /\ event'[worker[w].event].status = "FAILED"
      /\ \A f \in Events : f # worker[w].event => event'[f] = event[f]
  BY <1>1, EndStep
<1>3. TypeOK'
  BY <1>1, <1>2 DEF IInv, TypeOK, domain, WorkerRecords
<1>4. TransactionInv' /\ ConversationInv'
  BY <1>1, <1>2 DEF IInv, TransactionInv, ConversationInv, identity, conv, domain
<1>5. event[worker[w].event].status = "PROCESSING"
  BY <1>1 DEF IInv, HolderInv
<1>6. OneMessagePerEvent' /\ ProcessedIsReachable'
  BY <1>1, <1>2, <1>5 DEF IInv, OneMessagePerEvent, ProcessedIsReachable, domain
<1> QED
  BY <1>2, <1>3, <1>4, <1>6 DEF IInv

\* The commit makes customer, conversation, link, message, run and status
\* visible together.
LEMMA CommitStep ==
    ASSUME IInv, NEW w \in Workers, worker[w].pc = "message", Commit(w),
           linked' = Link(worker[w].event),
           messages' = [messages EXCEPT ![worker[w].event] = @ + 1],
           runs' = [runs EXCEPT ![worker[w].event] = @ + 1],
           event' = [event EXCEPT ![worker[w].event].status = "PROCESSED"],
           Finish(w), UNCHANGED <<request, tasks, faults>>
    PROVE  IInv'
<1> DEFINE e == worker[w].event
           c == conv(w)
           i == identity(w)
<1>1. /\ e \in Events /\ event[e].status = "PROCESSING" /\ c \in Conversations
      /\ i \in Identities /\ "PROCESSED" \in Ended
  BY ConversationName, IngressAssumption DEF IInv, HolderInv, conv, identity, Ended
<1>2. /\ event' \in [Events -> [status : EventStatuses, digest : Digests \cup {NoDigest}]]
      /\ worker' \in [Workers -> WorkerRecords]
      /\ RequestInv' /\ AnswersAgree' /\ HolderInv'
      /\ worker'[w].pc = "idle"
      /\ worker'[w].newCustomer = FALSE /\ worker'[w].newConversation = FALSE
      /\ \A v \in Workers : v # w => worker'[v] = worker[v]
      /\ event'[e].status = "PROCESSED"
      /\ \A f \in Events : f # e => event'[f] = event[f]
  BY <1>1, EndStep
<1>3. /\ customers \subseteq customers' /\ customers' \subseteq Identities /\ i \in customers'
  BY <1>1 DEF Commit, IInv, TypeOK, TransactionInv
<1>4. /\ conversation' \in [Conversations -> ConversationStatuses]
      /\ conversation'[c] # "none"
      /\ \A b \in Conversations : b # c => conversation'[b] = conversation[b]
  <2>1. worker[w].newConversation \/ conversation[c] # "none"
    BY DEF IInv, TransactionInv
  <2> QED
    BY <1>1, <2>1 DEF Commit, IInv, TypeOK, ConversationStatuses
<1>5. /\ owner' \in [Conversations -> SUBSET Identities]
      /\ \E j \in customers' : owner'[c] = {j}
      /\ \A b \in Conversations : b # c => owner'[b] = owner[b]
  <2>1. owner' = [owner EXCEPT ![c] = IF worker[w].newConversation THEN @ \cup {i} ELSE @]
    BY DEF Commit
  <2>2. /\ owner \in [Conversations -> SUBSET Identities]
        /\ owner' \in [Conversations -> SUBSET Identities]
        /\ \A b \in Conversations : b # c => owner'[b] = owner[b]
    BY <1>1, <2>1 DEF IInv, TypeOK
  <2>3. CASE worker[w].newConversation
    <3>1. owner[c] = {}
      BY <1>1, <2>3 DEF IInv, TransactionInv, ConversationInv
    <3>2. owner'[c] = {i}
      BY <1>1, <2>1, <2>2, <2>3, <3>1
    <3> QED
      BY <1>3, <2>2, <3>2
  <2>4. CASE ~worker[w].newConversation
    <3>1. conversation[c] # "none"
      BY <2>4 DEF IInv, TransactionInv
    <3>2. owner'[c] = owner[c]
      BY <1>1, <2>1, <2>2, <2>4
    <3> QED
      BY <1>1, <1>3, <2>2, <3>1, <3>2 DEF IInv, ConversationInv
  <2> QED
    BY <2>3, <2>4
<1>6. linked \subseteq linked' /\ linked' \subseteq Threads
  BY <1>1, IngressAssumption DEF Link, IInv, TypeOK
<1>7. Channel = "WEB_CHAT" /\ ThreadOf[e] # NoThread => ThreadOf[e] \in linked'
  BY DEF Link
<1>8. TypeOK'
  <2>1. messages' \in [Events -> Nat] /\ runs' \in [Events -> Nat]
    BY <1>1 DEF IInv, TypeOK
  <2>2. request' = request /\ tasks' = tasks /\ faults' = faults
    OBVIOUS
  <2> QED
    BY <1>2, <1>3, <1>4, <1>5, <1>6, <2>1, <2>2 DEF IInv, TypeOK, WorkerRecords
<1>9. ConversationInv'
  BY <1>3, <1>4, <1>5 DEF IInv, ConversationInv
<1>10. TransactionInv'
  <2>1. \A v \in Workers : v # w /\ worker[v].newConversation =>
           worker[v].event \in Events /\ conv(v) # c
    BY DEF IInv, TransactionInv, HolderInv
  <2>2. \A v \in Workers : worker[v].pc # "idle" => conv(v) \in Conversations
    BY ConversationName DEF IInv, HolderInv, conv
  <2> QED
    BY <1>2, <1>3, <1>4, <2>1, <2>2 DEF IInv, TransactionInv, identity, conv
<1>11. OneMessagePerEvent'
  BY <1>1, <1>2 DEF IInv, TypeOK, OneMessagePerEvent
<1>12. ProcessedIsReachable'
  <2> SUFFICES ASSUME NEW f \in Events, event'[f].status = "PROCESSED"
               PROVE  /\ conversation'[ConversationOf(f)] # "none"
                      /\ Channel = "WEB_CHAT" /\ ThreadOf[f] # NoThread => ThreadOf[f] \in linked'
    BY <1>9, ConversationName DEF ProcessedIsReachable, ConversationInv
  <2>1. CASE f = e
    BY <1>4, <1>7, <2>1 DEF conv
  <2>2. CASE f # e
    BY <1>2, <1>4, <1>6, <2>2, ConversationName DEF IInv, ProcessedIsReachable
  <2> QED
    BY <2>1, <2>2
<1> QED
  BY <1>2, <1>8, <1>9, <1>10, <1>11, <1>12 DEF IInv


\* The last step of the transaction commits or rolls back.
LEMMA ProcessStep ==
    ASSUME IInv, NEW w \in Workers, process_inbound_channel_event(w)
    PROVE  IInv'
<1> DEFINE e == worker[w].event
           done == /\ Commit(w)
                   /\ linked' = Link(e)
                   /\ messages' = [messages EXCEPT ![e] = @ + 1]
                   /\ event' = [event EXCEPT ![e].status = "PROCESSED"]
                   /\ runs' = [runs EXCEPT ![e] = @ + 1]
                   /\ Finish(w)
           failed == Fail(w) /\ UNCHANGED <<event, domain>>
<1>1. worker[w].pc = "message" /\ (done \/ failed) /\ UNCHANGED <<request, tasks, faults>>
  BY DEF process_inbound_channel_event
<1>2. CASE done
  BY <1>1, <1>2, CommitStep
<1>3. CASE failed
  BY <1>1, <1>3, FailStep
<1> QED
  BY <1>1, <1>2, <1>3

-----------------------------------------------------------------------------
(* Staff, sweep and faults *)

\* Staff moves a conversation that exists from one status to another.
LEMMA StatusStep ==
    ASSUME IInv, NEW c \in Conversations, NEW s \in ConversationStatuses,
           change_conversation_status(c, s)
    PROVE  IInv'
<1>1. /\ conversation' = [conversation EXCEPT ![c] = s]
      /\ UNCHANGED <<request, event, customers, owner, linked, messages, runs, tasks,
                     worker, faults>>
  BY DEF change_conversation_status
<1>2. conversation[c] # "none" /\ s # "none"
  BY DEF change_conversation_status, StatusTransitions, IInv, TypeOK, ConversationStatuses
<1>3. /\ conversation' \in [Conversations -> ConversationStatuses]
      /\ \A b \in Conversations : conversation'[b] = "none" <=> conversation[b] = "none"
  BY <1>1, <1>2 DEF IInv, TypeOK
<1>4. TypeOK'
  BY <1>1, <1>3 DEF IInv, TypeOK
<1>5. RequestInv' /\ AnswersAgree' /\ HolderInv' /\ OneMessagePerEvent'
  BY <1>1 DEF IInv, RequestInv, AnswersAgree, HolderInv, OneMessagePerEvent
<1>6. \A w \in Workers : worker[w].pc # "idle" => conv(w) \in Conversations
  BY ConversationName DEF IInv, HolderInv, conv
<1>7. TransactionInv'
  BY <1>1, <1>3, <1>6 DEF IInv, TransactionInv, identity, conv
<1>8. ConversationInv' /\ ProcessedIsReachable'
  BY <1>1, <1>3, ConversationName DEF IInv, ConversationInv, ProcessedIsReachable
<1> QED
  BY <1>4, <1>5, <1>7, <1>8 DEF IInv

\* The sweep publishes a message or loses it.
LEMMA SweepStep ==
    ASSUME IInv, NEW e \in Events, recover_stuck_inbound_events(e)
    PROVE  IInv'
<1>1. /\ UNCHANGED <<request, event, domain, worker>>
      /\ tasks' \subseteq Events /\ faults' \in 0..MaxFaults
  BY IngressAssumption DEF recover_stuck_inbound_events, IInv, TypeOK
<1>2. TypeOK'
  BY <1>1 DEF IInv, TypeOK, domain
<1> QED
  BY <1>1, <1>2, RequestStep DEF IInv, RequestInv, AnswersAgree

\* A crash rolls the worker's transaction back.
LEMMA CrashStep ==
    ASSUME IInv, NEW w \in Workers, WorkerCrash(w)
    PROVE  IInv'
<1>1. /\ worker' = [worker EXCEPT ![w] = IdleWorker]
      /\ UNCHANGED <<request, event, domain, tasks>> /\ faults' \in 0..MaxFaults
  BY IngressAssumption DEF WorkerCrash, Finish, IInv, TypeOK
<1>2. /\ IdleWorker \in WorkerRecords /\ IdleWorker.pc = "idle"
      /\ IdleWorker.newCustomer = FALSE /\ IdleWorker.newConversation = FALSE
  BY DEF IdleWorker, WorkerRecords, PCs, ConversationStatuses
<1> QED
  BY <1>1, <1>2, MoveStep

\* Every step keeps the invariant.
LEMMA NextInv == IInv /\ [Next]_vars => IInv'
<1> SUFFICES ASSUME IInv, [Next]_vars PROVE IInv'
  OBVIOUS
<1>1. CASE \E q \in Requests, e \in Events, d \in Digests : check_existing(q, e, d)
  BY <1>1, CheckStep
<1>2. CASE \E q \in Requests : insert_event(q)
  BY <1>2, InsertStep
<1>3. CASE \E w \in Workers, e \in Events : claim_inbound_channel_event(w, e)
  BY <1>3, ClaimStep
<1>4. ASSUME NEW w \in Workers, WorkerStep(w) PROVE IInv'
  BY <1>4, ResolveStep, ProcessStep, MarkStep DEF WorkerStep
<1>5. CASE \E w \in Workers : WorkerCrash(w)
  BY <1>5, CrashStep
<1>6. CASE \E c \in Conversations, s \in ConversationStatuses : change_conversation_status(c, s)
  BY <1>6, StatusStep
<1>7. CASE \E e \in Events : recover_stuck_inbound_events(e)
  BY <1>7, SweepStep
<1>8. CASE UNCHANGED vars
  <2>1. TypeOK'
    BY <1>8 DEF IInv, TypeOK, vars
  <2> QED
    BY <1>8, <2>1, RequestStep DEF IInv, RequestInv, AnswersAgree, vars, domain
<1> QED
  BY <1>1, <1>2, <1>3, <1>4, <1>5, <1>6, <1>7, <1>8 DEF Next

-----------------------------------------------------------------------------

\* For any number of events, requests, workers, identities, threads and faults:
\* what a provider is told agrees with the stored payload, a processed event has
\* made one message and one run, and its conversation can be reached.
THEOREM IngressSafety ==
    Spec => [](TypeOK /\ AnswersAgree /\ OneMessagePerEvent /\ ProcessedIsReachable)
<1>1. IInv => TypeOK /\ AnswersAgree /\ OneMessagePerEvent /\ ProcessedIsReachable
  BY DEF IInv
<1> QED
  BY InitInv, NextInv, <1>1, PTL DEF Spec

\* The conversation of a processed event exists, has one customer, who exists, and is
\* known to its chat session, whichever worker lost the race for their rows.
THEOREM ProcessedEventsAreReachable == Spec => []ProcessedIsReachable
BY IngressSafety, PTL

\* No step replaces a stored payload or reopens an ended event.
THEOREM EventsAreFrozen == Spec => EventFrozen
<1> DEFINE Kept == \A e \in Events :
              /\ event[e].status # "none" => event'[e].digest = event[e].digest
              /\ event[e].status \in Ended => event'[e] = event[e]
<1>1. ASSUME IInv, [Next]_vars PROVE Kept
  <2>1. CASE UNCHANGED event
    BY <2>1
  <2>2. ASSUME NEW f \in Events, event[f].status \notin Ended,
               event[f].status = "none" \/ event'[f].digest = event[f].digest,
               \A e \in Events : e # f => event'[e] = event[e]
        PROVE  Kept
    BY <2>2
  <2>3. ASSUME NEW q \in Requests, insert_event(q) PROVE Kept
    <3> DEFINE f == request[q].event
    <3>1. CASE event[f].status = "none"
      <4>1. f \in Events /\ event' = [event EXCEPT ![f] =
                                        [status |-> "RECEIVED", digest |-> request[q].digest]]
        BY <2>3, <3>1, <1>1 DEF insert_event, IInv, RequestInv
      <4>2. \A e \in Events : e # f => event'[e] = event[e]
        BY <4>1, <1>1 DEF IInv, TypeOK
      <4> HIDE DEF f
      <4> QED
        BY <2>2, <3>1, <4>1, <4>2 DEF Ended
    <3>2. CASE event[f].status # "none"
      BY <2>1, <2>3, <3>2 DEF insert_event
    <3> QED
      BY <3>1, <3>2
  <2>4. ASSUME NEW f \in Events, event[f].status \notin Ended, NEW s,
               event' = [event EXCEPT ![f].status = s]
        PROVE  Kept
    <3>1. /\ event'[f].digest = event[f].digest
          /\ \A e \in Events : e # f => event'[e] = event[e]
      BY <1>1, <2>4 DEF IInv, TypeOK
    <3> QED
      BY <2>2, <2>4, <3>1
  <2>5. ASSUME NEW w \in Workers, NEW e \in Events, claim_inbound_channel_event(w, e)
        PROVE  Kept
    <3>1. CASE event[e].status = "RECEIVED"
      BY <2>4, <2>5, <3>1 DEF claim_inbound_channel_event, Ended
    <3>2. CASE event[e].status # "RECEIVED"
      BY <2>1, <2>5, <3>2 DEF claim_inbound_channel_event
    <3> QED
      BY <3>1, <3>2
  <2>6. ASSUME NEW w \in Workers, mark_event_failed(w) \/ process_inbound_channel_event(w)
        PROVE  Kept
    <3>1. worker[w].event \in Events /\ event[worker[w].event].status = "PROCESSING"
      BY <1>1, <2>6 DEF mark_event_failed, process_inbound_channel_event, IInv, HolderInv
    <3>2. \/ UNCHANGED event
          \/ event' = [event EXCEPT ![worker[w].event].status = "FAILED"]
          \/ event' = [event EXCEPT ![worker[w].event].status = "PROCESSED"]
      BY <2>6 DEF mark_event_failed, process_inbound_channel_event
    <3> QED
      BY <2>1, <2>4, <3>1, <3>2 DEF Ended
  <2> HIDE DEF Kept
  <2> QED
    BY <1>1, <2>1, <2>3, <2>5, <2>6 DEF Next, WorkerStep, check_existing,
         resolve_customer_identity, create_customer, resolve_conversation,
         create_conversation, WorkerCrash, change_conversation_status,
         recover_stuck_inbound_events, vars
<1>2. IInv /\ [Next]_vars => [Kept]_vars
  BY <1>1
<1> QED
  BY InitInv, NextInv, <1>2, PTL DEF Spec, EventFrozen

=============================================================================
