---------------------------- MODULE ChannelIngress ----------------------------
(***************************************************************************)
(* Inbound channel events of one endpoint (backend/channel_ingress): HTTP  *)
(* requests persist an event once, Celery workers claim it and, in one     *)
(* transaction, resolve the customer and the conversation, write the       *)
(* message and start the agent run; a sweep re-publishes forgotten events. *)
(*                                                                         *)
(* The processing transaction runs under READ COMMITTED.  Its reads see    *)
(* committed rows; the rows it inserts are flags of the worker until it    *)
(* commits, and an insert of a key another open transaction has inserted   *)
(* waits for that transaction to end.                                      *)
(***************************************************************************)
EXTENDS Naturals

CONSTANTS
    Events,           \* provider_event_id values
    Digests,          \* payload digests a request may carry
    Identities,       \* Customer.external_id values: channel and external identity
    Threads,          \* provider_thread_id values
    NoThread,
    IdentityOf,       \* the identity an event comes from
    ThreadOf,         \* the thread an event belongs to
    KnownCustomers,   \* identities that have a Customer row already
    Channel,          \* ChannelEndpoint.channel
    UnknownCustomer,  \* ChannelEndpoint.unknown_customer_policy
    Requests,         \* bound: HTTP deliveries by the provider
    Workers,          \* Celery worker slots
    NoEvent, NoDigest,
    MaxFaults         \* bound: crashes, lost or repeated messages

ASSUME IngressAssumption ==
    /\ NoThread \notin Threads
    /\ NoEvent \notin Events
    /\ NoDigest \notin Digests
    /\ IdentityOf \in [Events -> Identities]
    /\ ThreadOf \in [Events -> Threads \cup {NoThread}]
    /\ KnownCustomers \subseteq Identities
    /\ Threads \cap Events = {}
    /\ Channel \in {"WEB_CHAT", "EMAIL", "GENERIC_WEBHOOK"}
    /\ UnknownCustomer \in {"CREATE", "REJECT"}
    /\ MaxFaults \in Nat

VARIABLES
    request,       \* HTTP requests in ingest_channel_event
    event,         \* InboundChannelEvent rows
    customers,     \* Customer rows
    conversation,  \* Conversation.status by the name of the conversation
    owner,         \* identities a conversation was created for (at most one)
    linked,        \* threads whose ChatSession has its conversation
    messages,      \* inbound messages written for an event
    runs,          \* agent runs started for an event
    tasks,         \* published process_inbound_channel_event_task messages
    worker,        \* what each worker slot is doing
    faults         \* faults still allowed

vars == <<request, event, customers, conversation, owner, linked, messages, runs,
          tasks, worker, faults>>
domain == <<customers, conversation, owner, linked, messages, runs>>

EventStatuses == {"none", "RECEIVED", "PROCESSING", "PROCESSED", "FAILED"}
Ended == {"PROCESSED", "FAILED"}
ConversationStatuses == {"none", "OPEN", "PENDING", "CLOSED"}

\* CONVERSATION_STATUS_TRANSITIONS
StatusTransitions ==
    [none |-> {}, OPEN |-> {"PENDING", "CLOSED"}, PENDING |-> {"OPEN", "CLOSED"},
     CLOSED |-> {"OPEN"}]

\* A conversation is named by its thread, or by its event when it has none.
Conversations == Threads \cup Events
ConversationOf(e) == IF ThreadOf[e] = NoThread THEN e ELSE ThreadOf[e]

NewRequest == [pc |-> "new", event |-> NoEvent, digest |-> NoDigest, answer |-> "none"]

IdleWorker ==
    [pc |-> "idle", event |-> NoEvent, newCustomer |-> FALSE,
     newConversation |-> FALSE, seen |-> "none"]

Init ==
    /\ request = [q \in Requests |-> NewRequest]
    /\ event = [e \in Events |-> [status |-> "none", digest |-> NoDigest]]
    /\ customers = KnownCustomers
    /\ conversation = [c \in Conversations |-> "none"]
    /\ owner = [c \in Conversations |-> {}]
    /\ linked = {}
    /\ messages = [e \in Events |-> 0]
    /\ runs = [e \in Events |-> 0]
    /\ tasks = {}
    /\ worker = [w \in Workers |-> IdleWorker]
    /\ faults = MaxFaults

-----------------------------------------------------------------------------
(* Ingestion *)

Answer(q, e, d, a) ==
    request' = [request EXCEPT ![q] =
                  [pc |-> "done", event |-> e, digest |-> d, answer |-> a]]

\* An existing row accepts its own payload again and refuses any other.
AnswerFromRow(e, d) == IF event[e].digest = d THEN "duplicate" ELSE "conflict"

\* ingest_channel_event, up to the existence check.
check_existing(q, e, d) ==
    /\ request[q].pc = "new"
    /\ IF event[e].status # "none"
       THEN Answer(q, e, d, AnswerFromRow(e, d))
       ELSE request' = [request EXCEPT ![q] =
                          [pc |-> "insert", event |-> e, digest |-> d, answer |-> "none"]]
    /\ UNCHANGED <<event, domain, tasks, worker, faults>>

\* Mutation: a lost race is answered like a created row.
insert_event_blindly(q) ==
    LET e == request[q].event
        d == request[q].digest IN
    /\ request[q].pc = "insert"
    /\ event' = [event EXCEPT ![e] = [status |-> "RECEIVED", digest |-> d]]
    /\ tasks' = tasks \cup {e}
    /\ Answer(q, e, d, "accepted")
    /\ UNCHANGED <<domain, worker, faults>>

\* The insert, its unique constraint, the commit and the publication.  A broker
\* that refuses the publication fails the request after the commit.
insert_event(q) ==
    LET e == request[q].event
        d == request[q].digest IN
    /\ request[q].pc = "insert"
    /\ IF event[e].status = "none"
       THEN /\ event' = [event EXCEPT ![e] = [status |-> "RECEIVED", digest |-> d]]
            /\ \/ tasks' = tasks \cup {e} /\ Answer(q, e, d, "accepted") /\ UNCHANGED faults
               \/ /\ faults > 0 /\ faults' = faults - 1
                  /\ \E a \in {"accepted", "error"} : Answer(q, e, d, a)
                  /\ UNCHANGED tasks
       ELSE /\ Answer(q, e, d, AnswerFromRow(e, d))
            /\ UNCHANGED <<event, tasks, faults>>
    /\ UNCHANGED <<domain, worker>>

-----------------------------------------------------------------------------
(* Processing *)

Go(w, next) == worker' = [worker EXCEPT ![w].pc = next]
Finish(w) == worker' = [worker EXCEPT ![w] = IdleWorker]

\* The transaction rolls back and the event is about to be marked.
Fail(w) ==
    worker' = [worker EXCEPT ![w] =
                 [IdleWorker EXCEPT !.pc = "mark_failed", !.event = worker[w].event]]

identity(w) == IdentityOf[worker[w].event]
conv(w) == ConversationOf(worker[w].event)

\* Mutation: whatever is not finished may be claimed.
claim_inbound_channel_event_unfinished(w, e) ==
    /\ worker[w].pc = "idle"
    /\ e \in tasks
    /\ \/ tasks' = tasks \ {e} /\ UNCHANGED faults
       \/ faults > 0 /\ faults' = faults - 1 /\ UNCHANGED tasks
    /\ IF event[e].status \in {"RECEIVED", "PROCESSING"}
       THEN /\ event' = [event EXCEPT ![e].status = "PROCESSING"]
            /\ worker' = [worker EXCEPT ![w] =
                            [IdleWorker EXCEPT !.pc = "identity", !.event = e]]
       ELSE UNCHANGED <<event, worker>>
    /\ UNCHANGED <<request, domain>>

claim_inbound_channel_event(w, e) ==
    /\ worker[w].pc = "idle"
    /\ e \in tasks
    /\ \/ tasks' = tasks \ {e} /\ UNCHANGED faults
       \/ faults > 0 /\ faults' = faults - 1 /\ UNCHANGED tasks
    /\ IF event[e].status = "RECEIVED"
       THEN /\ event' = [event EXCEPT ![e].status = "PROCESSING"]
            /\ worker' = [worker EXCEPT ![w] =
                            [IdleWorker EXCEPT !.pc = "identity", !.event = e]]
       ELSE UNCHANGED <<event, worker>>
    /\ UNCHANGED <<request, domain>>

resolve_customer_identity(w) ==
    /\ worker[w].pc = "identity"
    /\ CASE identity(w) \in customers -> Go(w, "conversation")
         [] identity(w) \notin customers /\ UnknownCustomer = "REJECT" -> Fail(w)
         [] OTHER -> Go(w, "create_customer")
    /\ UNCHANGED <<request, event, domain, tasks, faults>>

\* create_customer turns the constraint's refusal into a ConflictError, which
\* nothing in process_inbound_channel_event recovers from.
create_customer(w) ==
    /\ worker[w].pc = "create_customer"
    /\ \A v \in Workers : worker[v].newCustomer => identity(v) # identity(w)
    /\ IF identity(w) \in customers
       THEN Fail(w)
       ELSE worker' = [worker EXCEPT ![w].pc = "conversation", ![w].newCustomer = TRUE]
    /\ UNCHANGED <<request, event, domain, tasks, faults>>

\* The status read here is what the message is written against.
SeeConversation(w) ==
    worker' = [worker EXCEPT ![w].pc = "message", ![w].seen = conversation[conv(w)]]

resolve_conversation(w) ==
    /\ worker[w].pc = "conversation"
    /\ IF conversation[conv(w)] # "none" THEN SeeConversation(w)
                                         ELSE Go(w, "create_conversation")
    /\ UNCHANGED <<request, event, domain, tasks, faults>>

\* The insert runs in a savepoint; losing it means reading the winner's row.
create_conversation(w) ==
    /\ worker[w].pc = "create_conversation"
    /\ \A v \in Workers : worker[v].newConversation => conv(v) # conv(w)
    /\ IF conversation[conv(w)] # "none"
       THEN SeeConversation(w)
       ELSE worker' = [worker EXCEPT ![w].pc = "message", ![w].seen = "OPEN",
                                     ![w].newConversation = TRUE]
    /\ UNCHANGED <<request, event, domain, tasks, faults>>

\* Mutation: the customer row is inserted outside the transaction's commit.
Commit_without_customer(w) ==
    /\ UNCHANGED customers
    /\ conversation' = [conversation EXCEPT ![conv(w)] =
          IF worker[w].newConversation \/ worker[w].seen = "CLOSED" THEN "OPEN" ELSE @]
    /\ owner' = [owner EXCEPT ![conv(w)] =
          IF worker[w].newConversation THEN @ \cup {identity(w)} ELSE @]

\* The inserted customer and conversation become visible; an inbound message
\* reopens a conversation that was read as closed.
Commit(w) ==
    /\ customers' = IF worker[w].newCustomer THEN customers \cup {identity(w)} ELSE customers
    /\ conversation' = [conversation EXCEPT ![conv(w)] =
          IF worker[w].newConversation \/ worker[w].seen = "CLOSED" THEN "OPEN" ELSE @]
    /\ owner' = [owner EXCEPT ![conv(w)] =
          IF worker[w].newConversation THEN @ \cup {identity(w)} ELSE @]

\* _link_chat_session: the session that polls for answers learns its conversation.
Link(e) ==
    IF Channel = "WEB_CHAT" /\ ThreadOf[e] # NoThread THEN linked \cup {ThreadOf[e]}
                                                     ELSE linked

\* The rest of the transaction: link the chat session, write the message, mark
\* the event processed, start the run, commit.  An unpublished agent version
\* or a database error rolls all of it back.
process_inbound_channel_event(w) ==
    LET e == worker[w].event IN
    /\ worker[w].pc = "message"
    /\ \/ /\ Commit(w)
          /\ linked' = Link(e)
          /\ messages' = [messages EXCEPT ![e] = @ + 1]
          /\ event' = [event EXCEPT ![e].status = "PROCESSED"]
          /\ runs' = [runs EXCEPT ![e] = @ + 1]
          /\ Finish(w)
       \/ Fail(w) /\ UNCHANGED <<event, domain>>
    /\ UNCHANGED <<request, tasks, faults>>

mark_event_failed(w) ==
    /\ worker[w].pc = "mark_failed"
    /\ event' = [event EXCEPT ![worker[w].event].status = "FAILED"]
    /\ Finish(w)
    /\ UNCHANGED <<request, domain, tasks, faults>>

-----------------------------------------------------------------------------
(* Staff, sweep and faults *)

\* The view loads the row without a lock, so the transition may be judged on a
\* status the row no longer has: OPEN, which every row had, or the current one
\* (what any other earlier status allows is also allowed by these two).
change_conversation_status(c, s) ==
    /\ conversation[c] # "none"
    /\ \E loaded \in {"OPEN", conversation[c]} : s \in StatusTransitions[loaded]
    /\ conversation' = [conversation EXCEPT ![c] = s]
    /\ UNCHANGED <<request, event, customers, owner, linked, messages, runs, tasks,
                   worker, faults>>

\* Mutation: only fresh events are looked at, and those have their message.
recover_stuck_inbound_events_never(e) ==
    /\ event[e].status = "RECEIVED" /\ e \in tasks
    /\ UNCHANGED vars

\* Only RECEIVED rows are swept.
recover_stuck_inbound_events(e) ==
    /\ event[e].status = "RECEIVED"
    /\ e \notin tasks
    /\ \/ tasks' = tasks \cup {e} /\ UNCHANGED faults
       \/ faults > 0 /\ faults' = faults - 1 /\ UNCHANGED tasks
    /\ UNCHANGED <<request, event, domain, worker>>

\* The worker's open transaction rolls back; its message is gone.
WorkerCrash(w) ==
    /\ worker[w].pc # "idle"
    /\ faults > 0 /\ faults' = faults - 1
    /\ Finish(w)
    /\ UNCHANGED <<request, event, domain, tasks>>

-----------------------------------------------------------------------------

WorkerStep(w) ==
    \/ resolve_customer_identity(w)
    \/ create_customer(w)
    \/ resolve_conversation(w)
    \/ create_conversation(w)
    \/ process_inbound_channel_event(w)
    \/ mark_event_failed(w)

Next ==
    \/ \E q \in Requests, e \in Events, d \in Digests : check_existing(q, e, d)
    \/ \E q \in Requests : insert_event(q)
    \/ \E w \in Workers, e \in Events : claim_inbound_channel_event(w, e)
    \/ \E w \in Workers : WorkerStep(w) \/ WorkerCrash(w)
    \/ \E c \in Conversations, s \in ConversationStatuses : change_conversation_status(c, s)
    \/ \E e \in Events : recover_stuck_inbound_events(e)

Spec == Init /\ [][Next]_vars

\* Workers keep running, the broker hands out what it holds and Beat keeps
\* sweeping.  Providers and staff promise nothing.
Fairness ==
    /\ \A w \in Workers : WF_vars(WorkerStep(w))
    /\ \A e \in Events :
          /\ WF_vars(\E w \in Workers : claim_inbound_channel_event(w, e))
          /\ WF_vars(recover_stuck_inbound_events(e))

FairSpec == Spec /\ Fairness

-----------------------------------------------------------------------------
(* Properties *)

PCs == {"idle", "identity", "create_customer", "conversation", "create_conversation",
        "message", "mark_failed"}
Answers == {"none", "accepted", "duplicate", "conflict", "error"}

\* Every row, request and worker keeps its type.
TypeOK ==
    /\ request \in [Requests -> [pc : {"new", "insert", "done"},
                                 event : Events \cup {NoEvent},
                                 digest : Digests \cup {NoDigest}, answer : Answers]]
    /\ event \in [Events -> [status : EventStatuses, digest : Digests \cup {NoDigest}]]
    /\ customers \subseteq Identities
    /\ conversation \in [Conversations -> ConversationStatuses]
    /\ owner \in [Conversations -> SUBSET Identities]
    /\ linked \subseteq Threads
    /\ messages \in [Events -> Nat]
    /\ runs \in [Events -> Nat]
    /\ tasks \subseteq Events
    /\ worker \in [Workers -> [pc : PCs, event : Events \cup {NoEvent},
                               newCustomer : BOOLEAN, newConversation : BOOLEAN,
                               seen : ConversationStatuses]]
    /\ faults \in 0..MaxFaults

\* What the provider was told agrees with the row, however its deliveries race
\* through the check and the insert: an accepted or repeated payload is the one
\* that was stored, and a conflict is a payload that was not.
AnswersAgree ==
    \A q \in Requests :
        LET r == request[q] IN
        /\ r.answer \in {"accepted", "duplicate"} => event[r.event].digest = r.digest
        /\ r.answer = "conflict" =>
              event[r.event].status # "none" /\ event[r.event].digest # r.digest

\* At-least-once messages, sweeps and crashed workers make exactly one customer
\* message and one agent run of a processed event, and none of any other.
OneMessagePerEvent ==
    \A e \in Events :
        LET n == IF event[e].status = "PROCESSED" THEN 1 ELSE 0
        IN  messages[e] = n /\ runs[e] = n

\* A processed message can be found again: its conversation is there, was opened
\* for one customer, who is there too, and the chat session that polls for
\* answers knows it.
ProcessedIsReachable ==
    \A e \in Events : event[e].status = "PROCESSED" =>
        LET c == ConversationOf(e) IN
        /\ conversation[c] # "none"
        /\ \E i \in customers : owner[c] = {i}
        /\ Channel = "WEB_CHAT" /\ ThreadOf[e] # NoThread => ThreadOf[e] \in linked

\* A stored payload is never replaced and an ended event never reopened, by a
\* repeated request, a repeated message or a late worker.
EventFrozen ==
    [][\A e \in Events :
          /\ event[e].status # "none" => event'[e].digest = event[e].digest
          /\ event[e].status \in Ended => event'[e] = event[e]]_vars

Abandoned(e) ==
    event[e].status = "PROCESSING" /\ \A w \in Workers : worker[w].event # e

\* Every stored event ends, whatever messages are lost, unless the worker that
\* claimed it dies.
EventProgress ==
    \A e \in Events :
        event[e].status = "RECEIVED" ~> event[e].status \in Ended \/ Abandoned(e)
=============================================================================
