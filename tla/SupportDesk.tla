------------------------------ MODULE SupportDesk ------------------------------
(***************************************************************************)
(* What staff works on: customers, conversations with their messages,      *)
(* tickets and human handoffs (backend/customers, conversations, tickets). *)
(*                                                                         *)
(* A request, an agent tool or the channel worker loads a row and acts on  *)
(* its copy in a later transaction: the checks look at the copy, and the   *)
(* write sets some of the fields (save(update_fields)) or all of them      *)
(* (save()). Handoffs alone are locked and read again. A request refused   *)
(* by a check, or whose process dies, ends without a change (Abort).       *)
(*                                                                         *)
(* Timestamps are abstracted to whether they are set. Roles do not change  *)
(* here: a request acts on the membership it was admitted with, and what   *)
(* changes memberships is the module Membership.                           *)
(***************************************************************************)
CONSTANTS
    Customers, Conversations, Tickets, Handoffs,
    ExternalIds,     \* a customer's id in another system; NoId is null
    Members, RoleOf, \* the staff, and the role a request of each is admitted with
    Requests,        \* requests, tool calls and worker tasks in flight together
    NoId, Nobody, Nothing

ASSUME DeskAssumption ==
    /\ Nobody \notin Members /\ NoId \notin ExternalIds
    /\ Nothing \notin Customers \cup Conversations \cup Tickets \cup Handoffs
    /\ Conversations \cap (Customers \cup Tickets \cup Handoffs) = {}
    /\ Tickets \cap (Customers \cup Handoffs) = {} /\ Customers \cap Handoffs = {}

VARIABLES
    customer, conversation, ticket, handoff,   \* the rows
    arrived,   \* the inbound messages of a conversation since its status was last written
    request    \* requests in flight, with the row they loaded

deskVars == <<customer, conversation, ticket, handoff, arrived, request>>

TICKET_REASSIGN_ROLES == {"OWNER", "ADMIN", "SUPPORT_MANAGER"}
HANDOFF_MANAGE_ROLES == TICKET_REASSIGN_ROLES
NON_VIEWER_ROLES == TICKET_REASSIGN_ROLES \cup {"SUPPORT_AGENT"}

TicketStatuses == {"OPEN", "IN_PROGRESS", "PENDING", "RESOLVED", "CLOSED"}
ConversationStatuses == {"OPEN", "PENDING", "CLOSED"}
HandoffActive == {"PENDING", "ASSIGNED"}
HandoffTerminal == {"RESOLVED", "CANCELLED"}

TICKET_STATUS_TRANSITIONS ==
    [s \in TicketStatuses |->
        CASE s = "CLOSED" -> {"OPEN"}
          [] s = "RESOLVED" -> {"OPEN", "IN_PROGRESS", "CLOSED"}
          [] OTHER -> TicketStatuses \ {s}]
CONVERSATION_STATUS_TRANSITIONS ==
    [s \in ConversationStatuses |-> IF s = "CLOSED" THEN {"OPEN"} ELSE ConversationStatuses \ {s}]

\* status "none": the row is not there yet. The content of a row is a version of it.
NoCustomer == [there |-> FALSE, ext |-> NoId, active |-> FALSE]
NoConversation == [status |-> "none", assigned_to |-> Nobody, closed_at |-> FALSE]
NoTicket == [status |-> "none", assigned_to |-> Nobody, resolved_at |-> FALSE, priority |-> "NORMAL"]
NoHandoff == [status |-> "none", conversation |-> Nothing, assigned_to |-> Nobody]
NoRequest == [pc |-> "idle", actor |-> Nobody, on |-> Nothing, row |-> Nothing, fresh |-> FALSE]

DeskInit ==
    /\ customer = [k \in Customers |-> NoCustomer]
    /\ conversation = [c \in Conversations |-> NoConversation]
    /\ ticket = [t \in Tickets |-> NoTicket]
    /\ handoff = [h \in Handoffs |-> NoHandoff]
    /\ arrived = [c \in Conversations |-> {}]
    /\ request = [p \in Requests |-> NoRequest]

-----------------------------------------------------------------------------
\* Requests: load, then act on the copy.

Loaded(p, pc, m, o, row) ==
    /\ request[p].pc = "idle"
    /\ request' = [request EXCEPT ![p] = [pc |-> pc, actor |-> m, on |-> o, row |-> row, fresh |-> TRUE]]
    /\ UNCHANGED <<customer, conversation, ticket, handoff, arrived>>

End(p) == request' = [request EXCEPT ![p] = NoRequest]

\* The end of a request that wrote the status of its row: other copies of it are stale.
EndStatus(p) ==
    request' = [q \in Requests |->
        IF q = p THEN NoRequest
        ELSE IF request[q].on = request[p].on THEN [request[q] EXCEPT !.fresh = FALSE]
        ELSE request[q]]

\* The request is refused by a check, or its process dies.
Abort(p) ==
    /\ request[p].pc # "idle" /\ End(p)
    /\ UNCHANGED <<customer, conversation, ticket, handoff, arrived>>

\* Managers may change any record, an agent those that the copy shows assigned to them.
ensure_mutation_allowed(p) ==
    \/ RoleOf[request[p].actor] \in TICKET_REASSIGN_ROLES
    \/ RoleOf[request[p].actor] = "SUPPORT_AGENT" /\ request[p].row.assigned_to = request[p].actor

\* Managers assign to anyone, others take what the copy shows free or theirs.
AssignmentAllowed(p, m) ==
    \/ RoleOf[request[p].actor] \in TICKET_REASSIGN_ROLES
    \/ m = request[p].actor /\ request[p].row.assigned_to \in {Nobody, m}

-----------------------------------------------------------------------------
\* Customers.

\* Constraint uniq_customer_workspace_external_id of the table.
UniqExternalId(rows) ==
    \A j, k \in Customers :
        rows[j].there /\ rows[k].there /\ rows[j].ext = rows[k].ext /\ rows[j].ext # NoId => j = k

create_customer(k) ==
    /\ ~customer[k].there
    /\ \E x \in ExternalIds \cup {NoId} :
          customer' = [customer EXCEPT ![k] = [there |-> TRUE, ext |-> x, active |-> TRUE]]
    /\ UniqExternalId(customer')
    /\ UNCHANGED <<conversation, ticket, handoff, arrived, request>>

CustomerRequest(p, m, k) ==
    /\ customer[k].there /\ RoleOf[m] \in NON_VIEWER_ROLES
    /\ Loaded(p, "customer", m, k, customer[k])

\* The whole row is saved: what others changed since it was loaded is undone.
update_customer(p) ==
    /\ request[p].pc = "customer"
    /\ \E row \in {request[p].row} \cup {[request[p].row EXCEPT !.active = b] : b \in BOOLEAN}
                  \cup {[request[p].row EXCEPT !.ext = x] : x \in ExternalIds \cup {NoId}} :
          customer' = [customer EXCEPT ![request[p].on] = row]
    /\ UniqExternalId(customer')
    /\ End(p)
    /\ UNCHANGED <<conversation, ticket, handoff, arrived>>

-----------------------------------------------------------------------------
\* Conversations and messages.

create_conversation(c) ==
    /\ conversation[c] = NoConversation
    /\ \E k \in Customers : customer[k].there
    /\ conversation' = [conversation EXCEPT ![c].status = "OPEN"]
    /\ UNCHANGED <<customer, ticket, handoff, arrived, request>>

ConversationRequest(p, m, c) ==
    /\ conversation[c] # NoConversation /\ RoleOf[m] \in NON_VIEWER_ROLES
    /\ Loaded(p, "conversation", m, c, conversation[c])

\* The channel worker has the conversation of an inbound event.
ResolveConversation(p, c) ==
    /\ conversation[c] # NoConversation
    /\ Loaded(p, "inbound", Nobody, c, conversation[c])

assign_conversation(p, m) ==
    /\ request[p].pc = "conversation" /\ AssignmentAllowed(p, m)
    /\ conversation' = [conversation EXCEPT ![request[p].on].assigned_to = m]
    /\ End(p)
    /\ UNCHANGED <<customer, ticket, handoff, arrived>>

\* Both fields are written, each computed from the copy.
change_conversation_status(p, s) ==
    LET row == request[p].row c == request[p].on IN
    /\ request[p].pc = "conversation" /\ ensure_mutation_allowed(p)
    /\ s \in CONVERSATION_STATUS_TRANSITIONS[row.status]
    /\ conversation' = [conversation EXCEPT
            ![c].status = s,
            ![c].closed_at = s = "CLOSED" \/ (row.status # "CLOSED" /\ row.closed_at)]
    /\ arrived' = [arrived EXCEPT ![c] = {}]
    /\ EndStatus(p)
    /\ UNCHANGED <<customer, ticket, handoff>>
close_conversation(p) == change_conversation_status(p, "CLOSED")
reopen_conversation(p) == change_conversation_status(p, "OPEN")

\* Mutation: an inbound message does not reopen.
create_inbound_message_without_reopening(p) ==
    LET c == request[p].on IN
    /\ request[p].pc = "inbound"
    /\ arrived' = [arrived EXCEPT ![c] = @ \cup {IF request[p].fresh THEN "fresh" ELSE "stale"}]
    /\ End(p) /\ UNCHANGED <<customer, conversation, ticket, handoff>>

\* The message is added, and the conversation reopened if the copy says it is closed.
create_inbound_message(p) ==
    LET c == request[p].on IN
    /\ request[p].pc = "inbound"
    /\ IF request[p].row.status = "CLOSED"
       THEN /\ conversation' = [conversation EXCEPT ![c].status = "OPEN", ![c].closed_at = FALSE]
            /\ arrived' = [arrived EXCEPT ![c] = {}]
            /\ EndStatus(p)
       ELSE /\ arrived' = [arrived EXCEPT ![c] = @ \cup {IF request[p].fresh THEN "fresh" ELSE "stale"}]
            /\ End(p) /\ UNCHANGED conversation
    /\ UNCHANGED <<customer, ticket, handoff>>

\* Outbound and internal messages of staff leave the status alone.
create_outbound_message(p) ==
    /\ request[p].pc = "conversation" /\ End(p)
    /\ UNCHANGED <<customer, conversation, ticket, handoff, arrived>>

-----------------------------------------------------------------------------
\* Tickets.

create_ticket(t) ==
    /\ ticket[t] = NoTicket
    /\ \E k \in Customers : customer[k].there
    /\ ticket' = [ticket EXCEPT ![t].status = "OPEN"]
    /\ UNCHANGED <<customer, conversation, handoff, arrived, request>>

TicketRequest(p, m, t) ==
    /\ ticket[t] # NoTicket /\ RoleOf[m] \in NON_VIEWER_ROLES
    /\ Loaded(p, "ticket", m, t, ticket[t])

\* The ticket.update tool of an agent run.
ticket_update(p, t) ==
    /\ ticket[t] # NoTicket
    /\ Loaded(p, "tool", Nobody, t, ticket[t])

\* The whole row is saved, with the request's fields set on the copy.
update_ticket(p) ==
    /\ request[p].pc = "ticket" /\ ensure_mutation_allowed(p)
    /\ \E v \in {"NORMAL", "HIGH"} :
          ticket' = [ticket EXCEPT ![request[p].on] = [request[p].row EXCEPT !.priority = v]]
    /\ EndStatus(p)
    /\ UNCHANGED <<customer, conversation, handoff, arrived>>

assign_ticket(p, m) ==
    /\ request[p].pc = "ticket" /\ AssignmentAllowed(p, m)
    /\ ticket' = [ticket EXCEPT ![request[p].on].assigned_to = m]
    /\ End(p)
    /\ UNCHANGED <<customer, conversation, handoff, arrived>>
self_assign_ticket(p) == assign_ticket(p, request[p].actor)

unassign_ticket(p) ==
    /\ request[p].pc = "ticket" /\ RoleOf[request[p].actor] \in TICKET_REASSIGN_ROLES
    /\ ticket' = [ticket EXCEPT ![request[p].on].assigned_to = Nobody]
    /\ End(p)
    /\ UNCHANGED <<customer, conversation, handoff, arrived>>

\* Mutation: leaving RESOLVED keeps resolved_at.
ResolvedAt_kept(row, s) == s = "RESOLVED" \/ row.resolved_at

\* Set on entering RESOLVED, cleared on leaving it, as the copy has it otherwise.
ResolvedAt(row, s) == s = "RESOLVED" \/ (row.status # "RESOLVED" /\ row.resolved_at)

change_ticket_status(p, s) ==
    LET row == request[p].row t == request[p].on IN
    /\ request[p].pc = "ticket" /\ ensure_mutation_allowed(p)
    /\ s \in TICKET_STATUS_TRANSITIONS[row.status]
    /\ ticket' = [ticket EXCEPT ![t].status = s, ![t].resolved_at = ResolvedAt(row, s)]
    /\ EndStatus(p)
    /\ UNCHANGED <<customer, conversation, handoff, arrived>>
resolve_ticket(p) == change_ticket_status(p, "RESOLVED")
reopen_ticket(p) == change_ticket_status(p, "OPEN")

\* Any of priority, note and status; the whole row is saved.
apply_agent_ticket_update(p) ==
    LET row == request[p].row IN
    /\ request[p].pc = "tool"
    /\ \E v \in {row.priority, "HIGH"}, s \in {row.status} \cup TICKET_STATUS_TRANSITIONS[row.status] :
          ticket' = [ticket EXCEPT ![request[p].on] =
                [row EXCEPT !.priority = v, !.status = s,
                            !.resolved_at = IF s = row.status THEN @ ELSE ResolvedAt(row, s)]]
    /\ EndStatus(p)
    /\ UNCHANGED <<customer, conversation, handoff, arrived>>

-----------------------------------------------------------------------------
\* Human handoffs.

ActiveHandoffs(c) == {h \in Handoffs : handoff[h].conversation = c /\ handoff[h].status \in HandoffActive}

\* A run that ends in a handoff finds no active one, and goes on to create it. When there
\* is one it is reused: nothing changes.
FindHandoff(p, c) ==
    /\ conversation[c] # NoConversation
    /\ ActiveHandoffs(c) = {}
    /\ Loaded(p, "handoff_none", Nobody, c, Nothing)

\* Mutation: the table has no constraint.
create_or_reuse_handoff_unconstrained(p, h) ==
    /\ request[p].pc = "handoff_none" /\ handoff[h] = NoHandoff
    /\ handoff' = [handoff EXCEPT ![h] = [status |-> "PENDING", conversation |-> request[p].on,
                                          assigned_to |-> Nobody]]
    /\ End(p)
    /\ UNCHANGED <<customer, conversation, ticket, arrived>>

\* The partial unique index handoff_one_active_per_conversation admits one; the loser
\* reads the winner's row, or fails when that has ended meanwhile (Abort).
create_or_reuse_handoff(p, h) ==
    /\ request[p].pc = "handoff_none" /\ handoff[h] = NoHandoff
    /\ handoff' = IF ActiveHandoffs(request[p].on) = {}
                  THEN [handoff EXCEPT ![h] = [status |-> "PENDING", conversation |-> request[p].on,
                                               assigned_to |-> Nobody]]
                  ELSE handoff
    /\ End(p)
    /\ UNCHANGED <<customer, conversation, ticket, arrived>>

HandoffRequest(p, m, h) ==
    /\ handoff[h] # NoHandoff /\ RoleOf[m] \in HANDOFF_MANAGE_ROLES
    /\ Loaded(p, "handoff", m, h, handoff[h])

\* The row is locked and must still be active.
assign_handoff(p, m) ==
    /\ request[p].pc = "handoff" /\ handoff[request[p].on].status \in HandoffActive
    /\ handoff' = [handoff EXCEPT ![request[p].on].assigned_to = m, ![request[p].on].status = "ASSIGNED"]
    /\ End(p)
    /\ UNCHANGED <<customer, conversation, ticket, arrived>>

\* Mutation: the copy is checked, not the locked row.
resolve_handoff_of_copy(p) ==
    /\ request[p].pc = "handoff" /\ request[p].row.status \in HandoffActive
    /\ handoff' = [handoff EXCEPT ![request[p].on].status = "RESOLVED"]
    /\ End(p)
    /\ UNCHANGED <<customer, conversation, ticket, arrived>>

resolve_handoff(p) ==
    /\ request[p].pc = "handoff" /\ handoff[request[p].on].status \in HandoffActive
    /\ handoff' = [handoff EXCEPT ![request[p].on].status = "RESOLVED"]
    /\ End(p)
    /\ UNCHANGED <<customer, conversation, ticket, arrived>>

\* The run that created it is cancelled.
cancel_handoffs_for_run(h) ==
    /\ handoff[h].status \in HandoffActive
    /\ handoff' = [handoff EXCEPT ![h].status = "CANCELLED"]
    /\ UNCHANGED <<customer, conversation, ticket, arrived, request>>

-----------------------------------------------------------------------------
CustomerNext ==
    \/ \E k \in Customers : create_customer(k)
    \/ \E p \in Requests :
          \/ \E m \in Members, k \in Customers : CustomerRequest(p, m, k)
          \/ update_customer(p)

ConversationNext ==
    \/ \E c \in Conversations : create_conversation(c)
    \/ \E p \in Requests :
          \/ \E c \in Conversations :
                ResolveConversation(p, c) \/ \E m \in Members : ConversationRequest(p, m, c)
          \/ \E m \in Members : assign_conversation(p, m)
          \/ \E s \in ConversationStatuses : change_conversation_status(p, s)
          \/ close_conversation(p) \/ reopen_conversation(p)
          \/ create_inbound_message(p) \/ create_outbound_message(p)

TicketNext ==
    \/ \E t \in Tickets : create_ticket(t)
    \/ \E p \in Requests :
          \/ \E t \in Tickets : ticket_update(p, t) \/ \E m \in Members : TicketRequest(p, m, t)
          \/ \E m \in Members : assign_ticket(p, m)
          \/ \E s \in TicketStatuses : change_ticket_status(p, s)
          \/ self_assign_ticket(p) \/ unassign_ticket(p) \/ resolve_ticket(p) \/ reopen_ticket(p)
          \/ update_ticket(p) \/ apply_agent_ticket_update(p)

HandoffNext ==
    \/ \E h \in Handoffs : cancel_handoffs_for_run(h)
    \/ \E p \in Requests :
          \/ \E c \in Conversations : FindHandoff(p, c)
          \/ \E h \in Handoffs :
                create_or_reuse_handoff(p, h) \/ \E m \in Members : HandoffRequest(p, m, h)
          \/ \E m \in Members : assign_handoff(p, m)
          \/ resolve_handoff(p)

DeskNext ==
    \/ CustomerNext \/ ConversationNext \/ TicketNext \/ HandoffNext
    \/ \E p \in Requests : Abort(p)

DeskSpec == DeskInit /\ [][DeskNext]_deskVars

-----------------------------------------------------------------------------
\* The timestamps agree with the status whatever requests overlap: resolved_at is set
\* exactly on resolved tickets and closed_at exactly on closed conversations. Every write
\* of one of the two fields writes both, from one copy, or the whole row; a copy may be
\* stale, but never torn.
StampsAgree ==
    /\ \A t \in Tickets : ticket[t].resolved_at <=> ticket[t].status = "RESOLVED"
    /\ \A c \in Conversations : conversation[c].closed_at <=> conversation[c].status = "CLOSED"

\* A customer's message is not left in a closed conversation: one that arrived since the
\* last change of the status of a conversation that is closed was written by a worker that
\* had loaded the conversation before that change (create_inbound_message decides on its
\* copy whether to reopen).
InboundReopens ==
    \A c \in Conversations : conversation[c].status = "CLOSED" => "fresh" \notin arrived[c]

\* A conversation has at most one active handoff, however many runs hand it over at once
\* (create_or_reuse_handoff).
OneActiveHandoff ==
    \A g, h \in Handoffs :
        /\ handoff[g].status \in HandoffActive /\ handoff[h].status \in HandoffActive
        /\ handoff[g].conversation = handoff[h].conversation
        => g = h

\* A handoff that has ended stays as it ended, even when a manager assigns or resolves it
\* from a page loaded before (assign_handoff, resolve_handoff, cancel_handoffs_for_run).
HandoffFrozen ==
    [][\A h \in Handoffs : handoff[h].status \in HandoffTerminal => handoff'[h] = handoff[h]]_deskVars
=============================================================================
