------------------------------ MODULE DeskProofs ------------------------------
(***************************************************************************)
(* SupportDesk, for any number of rows, members and overlapping requests:  *)
(* timestamps agree with statuses, a conversation has one active handoff   *)
(* at most, an ended handoff stays as it ended, and a message leaves a     *)
(* conversation closed only if it was decided on a copy that somebody has  *)
(* overtaken.                                                              *)
(*                                                                         *)
(* StampsAgree needs the copies the requests hold in the invariant: each   *)
(* write takes both fields from one copy, so a stale copy must be as       *)
(* consistent as the row it was read from.                                 *)
(***************************************************************************)
EXTENDS SupportDesk, TLAPS

LiveTickets ==
    {row \in [status : TicketStatuses, assigned_to : Members \cup {Nobody},
              resolved_at : BOOLEAN, priority : {"NORMAL", "HIGH"}] :
        row.resolved_at <=> row.status = "RESOLVED"}

LiveConversations ==
    {row \in [status : ConversationStatuses, assigned_to : Members \cup {Nobody},
              closed_at : BOOLEAN] :
        row.closed_at <=> row.status = "CLOSED"}

CustomerRows == [there : BOOLEAN, ext : ExternalIds \cup {NoId}, active : BOOLEAN]

HandoffRows == [status : {"none"} \cup HandoffActive \cup HandoffTerminal,
                conversation : Conversations \cup {Nothing}, assigned_to : Members \cup {Nobody}]

RequestRows ==
    [pc : {"idle", "customer", "conversation", "inbound", "ticket", "tool", "handoff_none", "handoff"},
     actor : Members \cup {Nobody},
     on : Customers \cup Conversations \cup Tickets \cup Handoffs \cup {Nothing},
     row : LiveTickets \cup LiveConversations \cup CustomerRows \cup HandoffRows \cup {Nothing},
     fresh : BOOLEAN]

\* The rows and their types; the stamps of a row that exists agree with its status.
RowsInv ==
    /\ customer \in [Customers -> CustomerRows]
    /\ conversation \in [Conversations -> LiveConversations \cup {NoConversation}]
    /\ ticket \in [Tickets -> LiveTickets \cup {NoTicket}]
    /\ handoff \in [Handoffs -> HandoffRows]

\* A request's copy is of the kind its step writes, and its row exists.
CopyOK(r) ==
    /\ r.pc = "customer" => r.row \in CustomerRows
    /\ r.pc \in {"ticket", "tool"} =>
          r.row \in LiveTickets /\ r.on \in Tickets /\ ticket[r.on] \in LiveTickets
    /\ r.pc \in {"conversation", "inbound"} =>
          r.row \in LiveConversations /\ r.on \in Conversations /\ conversation[r.on] \in LiveConversations
    /\ r.pc = "handoff_none" => r.on \in Conversations
    /\ r.pc = "handoff" => r.on \in Handoffs

RequestsInv == request \in [Requests -> RequestRows] /\ \A p \in Requests : CopyOK(request[p])

DInv == RowsInv /\ RequestsInv /\ OneActiveHandoff

\* Rows that exist stay.
Grows ==
    /\ \A t \in Tickets : ticket[t] \in LiveTickets => ticket'[t] \in LiveTickets
    /\ \A c \in Conversations : conversation[c] \in LiveConversations => conversation'[c] \in LiveConversations

-----------------------------------------------------------------------------
\* An empty row is not one that exists.
LEMMA EmptyRows ==
    /\ NoTicket \notin LiveTickets /\ NoConversation \notin LiveConversations
    /\ NoTicket.resolved_at = FALSE /\ NoTicket.status # "RESOLVED"
    /\ NoConversation.closed_at = FALSE /\ NoConversation.status # "CLOSED"
BY DEF NoTicket, NoConversation, LiveTickets, LiveConversations, TicketStatuses, ConversationStatuses

\* The rows are consistent, so the stamps agree.
LEMMA StampsFollow == RowsInv => StampsAgree
<1> SUFFICES ASSUME RowsInv PROVE StampsAgree
  OBVIOUS
<1>1. ASSUME NEW t \in Tickets PROVE ticket[t].resolved_at <=> ticket[t].status = "RESOLVED"
  <2>1. CASE ticket[t] \in LiveTickets
    BY <2>1 DEF LiveTickets
  <2>2. CASE ticket[t] = NoTicket
    BY <2>2, EmptyRows
  <2> QED
    BY <2>1, <2>2 DEF RowsInv
<1>2. ASSUME NEW c \in Conversations
      PROVE  conversation[c].closed_at <=> conversation[c].status = "CLOSED"
  <2>1. CASE conversation[c] \in LiveConversations
    BY <2>1 DEF LiveConversations
  <2>2. CASE conversation[c] = NoConversation
    BY <2>2, EmptyRows
  <2> QED
    BY <2>1, <2>2 DEF RowsInv
<1> QED
  BY <1>1, <1>2 DEF StampsAgree

\* A request that ends, or only learns that its copy is stale, leaves the copies good.
LEMMA RequestsKept ==
    ASSUME DInv, Grows, NEW p \in Requests, End(p) \/ EndStatus(p)
    PROVE  RequestsInv'
<1>1. NoRequest \in RequestRows /\ NoRequest.pc = "idle"
  BY DEF NoRequest, RequestRows
<1>2. \A r \in RequestRows :
         /\ [r EXCEPT !.fresh = FALSE] \in RequestRows
         /\ [r EXCEPT !.fresh = FALSE].pc = r.pc
         /\ [r EXCEPT !.fresh = FALSE].on = r.on
         /\ [r EXCEPT !.fresh = FALSE].row = r.row
  BY DEF RequestRows
<1> HIDE DEF NoRequest, RequestRows
<1>3. /\ request' \in [Requests -> RequestRows]
      /\ \A q \in Requests :
            \/ request'[q].pc = "idle"
            \/ /\ request'[q].pc = request[q].pc /\ request'[q].on = request[q].on
               /\ request'[q].row = request[q].row
  <2>1. CASE End(p)
    BY <1>1, <2>1 DEF End, DInv, RequestsInv
  <2>2. CASE EndStatus(p)
    BY <1>1, <1>2, <2>2 DEF EndStatus, DInv, RequestsInv
  <2> QED
    BY <2>1, <2>2
<1>4. ASSUME NEW q \in Requests PROVE CopyOK(request[q])'
  BY <1>3 DEF CopyOK, DInv, RequestsInv, Grows
<1> QED
  BY <1>3, <1>4 DEF RequestsInv

\* Steps that write no request.
LEMMA RequestsUntouched ==
    ASSUME DInv, Grows, UNCHANGED request
    PROVE  RequestsInv'
BY DEF DInv, RequestsInv, CopyOK, Grows

\* A row that exists is written over by one that is consistent.
LEMMA TicketWritten ==
    ASSUME DInv, NEW t \in Tickets, NEW row \in LiveTickets, ticket' = [ticket EXCEPT ![t] = row],
           UNCHANGED <<customer, conversation, handoff>>
    PROVE  RowsInv' /\ Grows /\ OneActiveHandoff'
BY DEF DInv, RowsInv, Grows, OneActiveHandoff

\* The same for conversations.
LEMMA ConversationWritten ==
    ASSUME DInv, NEW c \in Conversations, NEW row \in LiveConversations,
           conversation' = [conversation EXCEPT ![c] = row],
           UNCHANGED <<customer, ticket, handoff>>
    PROVE  RowsInv' /\ Grows /\ OneActiveHandoff'
BY DEF DInv, RowsInv, Grows, OneActiveHandoff

\* A request loads a row.
LEMMA LoadStep ==
    ASSUME DInv, NEW p \in Requests, NEW m \in Members \cup {Nobody},
           \/ \E k \in Customers : Loaded(p, "customer", m, k, customer[k])
           \/ \E t \in Tickets : ticket[t] # NoTicket /\ (\/ Loaded(p, "ticket", m, t, ticket[t])
                                                         \/ Loaded(p, "tool", m, t, ticket[t]))
           \/ \E c \in Conversations : conversation[c] # NoConversation /\
                 (\/ Loaded(p, "conversation", m, c, conversation[c])
                  \/ Loaded(p, "inbound", m, c, conversation[c])
                  \/ Loaded(p, "handoff_none", m, c, Nothing))
           \/ \E h \in Handoffs : Loaded(p, "handoff", m, h, handoff[h])
    PROVE  DInv'
<1>1. UNCHANGED <<customer, conversation, ticket, handoff>>
  BY DEF Loaded
<1>2. \E r \in RequestRows : CopyOK(r) /\ request' = [request EXCEPT ![p] = r]
  <2> DEFINE rec(pc, o, row) == [pc |-> pc, actor |-> m, on |-> o, row |-> row, fresh |-> TRUE]
  <2>1. ASSUME NEW pc \in {"customer", "conversation", "inbound", "ticket", "tool", "handoff_none", "handoff"},
               NEW o \in Customers \cup Conversations \cup Tickets \cup Handoffs \cup {Nothing},
               NEW row \in LiveTickets \cup LiveConversations \cup CustomerRows \cup HandoffRows \cup {Nothing},
               Loaded(p, pc, m, o, row)
        PROVE  /\ rec(pc, o, row) \in RequestRows /\ request' = [request EXCEPT ![p] = rec(pc, o, row)]
               /\ rec(pc, o, row).pc = pc /\ rec(pc, o, row).on = o /\ rec(pc, o, row).row = row
    BY <2>1 DEF Loaded, RequestRows
  <2> HIDE DEF rec
  <2>2. ASSUME NEW k \in Customers, Loaded(p, "customer", m, k, customer[k])
        PROVE  \E r \in RequestRows : CopyOK(r) /\ request' = [request EXCEPT ![p] = r]
    <3>1. customer[k] \in CustomerRows
      BY DEF DInv, RowsInv
    <3>2. CopyOK(rec("customer", k, customer[k]))
      BY <2>1, <2>2, <3>1 DEF CopyOK
    <3> QED
      BY <2>1, <2>2, <3>1, <3>2
  <2>3. ASSUME NEW t \in Tickets, ticket[t] # NoTicket, NEW pc \in {"ticket", "tool"},
               Loaded(p, pc, m, t, ticket[t])
        PROVE  \E r \in RequestRows : CopyOK(r) /\ request' = [request EXCEPT ![p] = r]
    <3>1. ticket[t] \in LiveTickets
      BY <2>3 DEF DInv, RowsInv
    <3>2. CopyOK(rec(pc, t, ticket[t]))
      BY <2>1, <2>3, <3>1 DEF CopyOK
    <3> QED
      BY <2>1, <2>3, <3>1, <3>2
  <2>4. ASSUME NEW c \in Conversations, conversation[c] # NoConversation,
               NEW pc \in {"conversation", "inbound"}, Loaded(p, pc, m, c, conversation[c])
        PROVE  \E r \in RequestRows : CopyOK(r) /\ request' = [request EXCEPT ![p] = r]
    <3>1. conversation[c] \in LiveConversations
      BY <2>4 DEF DInv, RowsInv
    <3>2. CopyOK(rec(pc, c, conversation[c]))
      BY <2>1, <2>4, <3>1 DEF CopyOK
    <3> QED
      BY <2>1, <2>4, <3>1, <3>2
  <2>5. ASSUME NEW c \in Conversations, Loaded(p, "handoff_none", m, c, Nothing)
        PROVE  \E r \in RequestRows : CopyOK(r) /\ request' = [request EXCEPT ![p] = r]
    <3>1. CopyOK(rec("handoff_none", c, Nothing))
      BY <2>1, <2>5 DEF CopyOK
    <3> QED
      BY <2>1, <2>5, <3>1
  <2>6. ASSUME NEW h \in Handoffs, Loaded(p, "handoff", m, h, handoff[h])
        PROVE  \E r \in RequestRows : CopyOK(r) /\ request' = [request EXCEPT ![p] = r]
    <3>1. handoff[h] \in HandoffRows
      BY DEF DInv, RowsInv
    <3>2. CopyOK(rec("handoff", h, handoff[h]))
      BY <2>1, <2>6, <3>1 DEF CopyOK
    <3> QED
      BY <2>1, <2>6, <3>1, <3>2
  <2> QED
    BY <2>2, <2>3, <2>4, <2>5, <2>6
<1>3. PICK r \in RequestRows : CopyOK(r) /\ request' = [request EXCEPT ![p] = r]
  BY <1>2
<1>4. /\ request' \in [Requests -> RequestRows]
      /\ \A q \in Requests : request'[q] = IF q = p THEN r ELSE request[q]
  BY <1>3 DEF DInv, RequestsInv
<1>5. \A q \in Requests : CopyOK(request'[q])
  BY <1>3, <1>4 DEF DInv, RequestsInv
<1>6. RequestsInv'
  BY <1>1, <1>4, <1>5 DEF RequestsInv, CopyOK
<1> QED
  BY <1>1, <1>6 DEF DInv, RowsInv, OneActiveHandoff

-----------------------------------------------------------------------------
\* Customers: the whole row is written, from a copy that is a customer.
LEMMA CustomerStep ==
    ASSUME DInv,
           \/ \E p \in Requests : update_customer(p)
           \/ \E k \in Customers : create_customer(k)
    PROVE  DInv'
<1>1. UNCHANGED <<conversation, ticket, handoff>>
  BY DEF update_customer, create_customer
<1>2. Grows
  BY <1>1 DEF Grows
<1>3. customer' \in [Customers -> CustomerRows] /\ RequestsInv'
  <2>1. ASSUME NEW p \in Requests, update_customer(p)
        PROVE  customer' \in [Customers -> CustomerRows] /\ RequestsInv'
    <3>1. request[p].row \in CustomerRows
      BY <2>1 DEF update_customer, DInv, RequestsInv, CopyOK
    <3>2. /\ \A b \in BOOLEAN : [request[p].row EXCEPT !.active = b] \in CustomerRows
          /\ \A x \in ExternalIds \cup {NoId} : [request[p].row EXCEPT !.ext = x] \in CustomerRows
      BY <3>1 DEF CustomerRows
    <3>3. PICK row \in CustomerRows : customer' = [customer EXCEPT ![request[p].on] = row]
      BY <2>1, <3>1, <3>2 DEF update_customer
    <3>4. customer' \in [Customers -> CustomerRows]
      BY <3>3 DEF DInv, RowsInv
    <3>5. End(p)
      BY <2>1 DEF update_customer
    <3> QED
      BY <1>2, <3>4, <3>5, RequestsKept
  <2>2. ASSUME NEW k \in Customers, create_customer(k) PROVE customer' \in [Customers -> CustomerRows]
    <3>1. PICK x \in ExternalIds \cup {NoId} :
             customer' = [customer EXCEPT ![k] = [there |-> TRUE, ext |-> x, active |-> TRUE]]
      BY <2>2 DEF create_customer
    <3>2. [there |-> TRUE, ext |-> x, active |-> TRUE] \in CustomerRows
      BY DEF CustomerRows
    <3> QED
      BY <3>1, <3>2 DEF DInv, RowsInv
  <2>3. ASSUME NEW k \in Customers, create_customer(k) PROVE UNCHANGED request
    BY <2>3 DEF create_customer
  <2> QED
    BY <1>2, <2>1, <2>2, <2>3, RequestsUntouched
<1> QED
  BY <1>1, <1>3 DEF DInv, RowsInv, OneActiveHandoff

-----------------------------------------------------------------------------
\* A request writes a consistent row over its ticket, and ends.
LEMMA TicketEnd ==
    ASSUME DInv, NEW p \in Requests, End(p) \/ EndStatus(p), NEW t \in Tickets, NEW row \in LiveTickets,
           ticket' = [ticket EXCEPT ![t] = row], UNCHANGED <<customer, conversation, handoff>>
    PROVE  DInv'
<1>1. RowsInv' /\ Grows /\ OneActiveHandoff'
  BY TicketWritten
<1>2. RequestsInv'
  BY <1>1, RequestsKept
<1> QED
  BY <1>1, <1>2 DEF DInv

\* The same for conversations.
LEMMA ConversationEnd ==
    ASSUME DInv, NEW p \in Requests, End(p) \/ EndStatus(p), NEW c \in Conversations,
           NEW row \in LiveConversations, conversation' = [conversation EXCEPT ![c] = row],
           UNCHANGED <<customer, ticket, handoff>>
    PROVE  DInv'
<1>1. RowsInv' /\ Grows /\ OneActiveHandoff'
  BY ConversationWritten
<1>2. RequestsInv'
  BY <1>1, RequestsKept
<1> QED
  BY <1>1, <1>2 DEF DInv

\* What ResolvedAt leaves is consistent, if the copy was.
LEMMA ResolvedAtAgrees ==
    ASSUME NEW row \in LiveTickets, NEW s \in TicketStatuses
    PROVE  ResolvedAt(row, s) \in BOOLEAN /\ (ResolvedAt(row, s) <=> s = "RESOLVED")
BY DEF ResolvedAt, LiveTickets

\* Where a ticket's status can go are statuses.
LEMMA TicketTransitions ==
    ASSUME NEW u \in TicketStatuses
    PROVE  TICKET_STATUS_TRANSITIONS[u] \subseteq TicketStatuses
BY DEF TICKET_STATUS_TRANSITIONS, TicketStatuses

\* Updates of a consistent ticket that keep it consistent.
LEMMA TicketUpdates ==
    ASSUME NEW row \in LiveTickets
    PROVE  /\ \A v \in {"NORMAL", "HIGH"} : [row EXCEPT !.priority = v] \in LiveTickets
           /\ \A m \in Members \cup {Nobody} : [row EXCEPT !.assigned_to = m] \in LiveTickets
           /\ \A s \in TicketStatuses, b \in BOOLEAN : (b <=> s = "RESOLVED") =>
                 /\ [row EXCEPT !.status = s, !.resolved_at = b] \in LiveTickets
                 /\ \A v \in {"NORMAL", "HIGH"} :
                       [row EXCEPT !.priority = v, !.status = s, !.resolved_at = b] \in LiveTickets
BY DEF LiveTickets

\* Requests and tools on tickets.
LEMMA TicketStep ==
    ASSUME DInv, NEW p \in Requests,
           \/ update_ticket(p) \/ unassign_ticket(p) \/ apply_agent_ticket_update(p)
           \/ \E m \in Members : assign_ticket(p, m)
           \/ self_assign_ticket(p)
           \/ \E s \in TicketStatuses : change_ticket_status(p, s)
    PROVE  DInv'
<1> DEFINE t == request[p].on
           old == request[p].row
<1>1. t \in Tickets /\ old \in LiveTickets /\ ticket[t] \in LiveTickets
  <2>1. request[p].pc \in {"ticket", "tool"}
    BY DEF update_ticket, unassign_ticket, apply_agent_ticket_update, assign_ticket,
           self_assign_ticket, change_ticket_status
  <2> QED
    BY <2>1 DEF DInv, RequestsInv, CopyOK
<1>2. End(p) \/ EndStatus(p)
  BY DEF update_ticket, unassign_ticket, apply_agent_ticket_update, assign_ticket,
         self_assign_ticket, change_ticket_status
<1>3. UNCHANGED <<customer, conversation, handoff>>
  BY DEF update_ticket, unassign_ticket, apply_agent_ticket_update, assign_ticket,
         self_assign_ticket, change_ticket_status
<1>4. \E row \in LiveTickets : ticket' = [ticket EXCEPT ![t] = row]
  <2>1. CASE update_ticket(p)
    <3>1. PICK v \in {"NORMAL", "HIGH"} : ticket' = [ticket EXCEPT ![t] = [old EXCEPT !.priority = v]]
      BY <2>1 DEF update_ticket
    <3> QED
      BY <1>1, <3>1, TicketUpdates
  <2>2. ASSUME NEW m \in Members \cup {Nobody}, ticket' = [ticket EXCEPT ![t].assigned_to = m]
        PROVE  \E row \in LiveTickets : ticket' = [ticket EXCEPT ![t] = row]
    <3>1. [ticket[t] EXCEPT !.assigned_to = m] \in LiveTickets
      BY <1>1, TicketUpdates
    <3> QED
      BY <2>2, <3>1
  <2>3. ASSUME NEW s \in TicketStatuses, change_ticket_status(p, s)
        PROVE  \E row \in LiveTickets : ticket' = [ticket EXCEPT ![t] = row]
    <3> DEFINE b == ResolvedAt(old, s)
               new == [ticket[t] EXCEPT !.status = s, !.resolved_at = b]
    <3>1. b \in BOOLEAN /\ (b <=> s = "RESOLVED")
      BY <1>1, ResolvedAtAgrees
    <3>2. ticket' = [ticket EXCEPT ![t].status = s, ![t].resolved_at = b]
      BY <2>3 DEF change_ticket_status
    <3> HIDE DEF b
    <3>3. new \in LiveTickets
      BY <1>1, <3>1, TicketUpdates
    <3>4. ticket' = [ticket EXCEPT ![t] = new]
      BY <1>1, <3>2 DEF DInv, RowsInv
    <3> QED
      BY <3>3, <3>4
  <2>4. CASE apply_agent_ticket_update(p)
    <3>1. old.priority \in {"NORMAL", "HIGH"} /\ old.status \in TicketStatuses
          /\ old.resolved_at \in BOOLEAN /\ (old.resolved_at <=> old.status = "RESOLVED")
      BY <1>1 DEF LiveTickets
    <3>2. PICK v \in {old.priority, "HIGH"}, s \in {old.status} \cup TICKET_STATUS_TRANSITIONS[old.status] :
             ticket' = [ticket EXCEPT ![t] =
                [old EXCEPT !.priority = v, !.status = s,
                            !.resolved_at = IF s = old.status THEN old.resolved_at ELSE ResolvedAt(old, s)]]
      BY <2>4, <1>1 DEF apply_agent_ticket_update, LiveTickets
    <3> DEFINE b == IF s = old.status THEN old.resolved_at ELSE ResolvedAt(old, s)
    <3>3. v \in {"NORMAL", "HIGH"} /\ s \in TicketStatuses
      BY <3>1, TicketTransitions
    <3>4. b \in BOOLEAN /\ (b <=> s = "RESOLVED")
      BY <1>1, <3>1, <3>3, ResolvedAtAgrees
    <3>5. ticket' = [ticket EXCEPT ![t] = [old EXCEPT !.priority = v, !.status = s, !.resolved_at = b]]
      BY <3>2
    <3> HIDE DEF b
    <3> QED
      BY <1>1, <3>3, <3>4, <3>5, TicketUpdates
  <2>5. CASE unassign_ticket(p)
    BY <2>2, <2>5 DEF unassign_ticket
  <2>6. CASE \E m \in Members : assign_ticket(p, m)
    BY <2>2, <2>6 DEF assign_ticket
  <2>7. CASE self_assign_ticket(p)
    <3>1. request[p].actor \in Members \cup {Nobody}
      BY DEF DInv, RequestsInv, RequestRows
    <3> QED
      BY <2>2, <2>7, <3>1 DEF self_assign_ticket, assign_ticket
  <2> QED
    BY <2>1, <2>3, <2>4, <2>5, <2>6, <2>7
<1> HIDE DEF t, old
<1> QED
  BY <1>1, <1>2, <1>3, <1>4, TicketEnd

-----------------------------------------------------------------------------
\* Updates of a consistent conversation that keep it consistent.
LEMMA ConversationUpdates ==
    ASSUME NEW row \in LiveConversations
    PROVE  /\ \A m \in Members : [row EXCEPT !.assigned_to = m] \in LiveConversations
           /\ \A s \in ConversationStatuses, b \in BOOLEAN : (b <=> s = "CLOSED") =>
                 [row EXCEPT !.status = s, !.closed_at = b] \in LiveConversations
BY DEF LiveConversations

\* Requests on conversations that write the row, and the channel worker's.
LEMMA ConversationStep ==
    ASSUME DInv, NEW p \in Requests,
           \/ \E m \in Members : assign_conversation(p, m)
           \/ \E s \in ConversationStatuses : change_conversation_status(p, s)
           \/ create_inbound_message(p) /\ request[p].row.status = "CLOSED"
    PROVE  DInv'
<1> DEFINE c == request[p].on
           old == request[p].row
<1>1. c \in Conversations /\ old \in LiveConversations /\ conversation[c] \in LiveConversations
  <2>1. request[p].pc \in {"conversation", "inbound"}
    BY DEF assign_conversation, change_conversation_status, create_inbound_message
  <2> QED
    BY <2>1 DEF DInv, RequestsInv, CopyOK
<1>2. End(p) \/ EndStatus(p)
  BY DEF assign_conversation, change_conversation_status, create_inbound_message
<1>3. UNCHANGED <<customer, ticket, handoff>>
  BY DEF assign_conversation, change_conversation_status, create_inbound_message
<1>4. \E row \in LiveConversations : conversation' = [conversation EXCEPT ![c] = row]
  <2>1. ASSUME NEW m \in Members, assign_conversation(p, m)
        PROVE  \E row \in LiveConversations : conversation' = [conversation EXCEPT ![c] = row]
    <3>1. [conversation[c] EXCEPT !.assigned_to = m] \in LiveConversations
      BY <1>1, ConversationUpdates
    <3> QED
      BY <2>1, <3>1 DEF assign_conversation
  <2>2. ASSUME NEW s \in ConversationStatuses, NEW b \in BOOLEAN, b <=> s = "CLOSED",
               conversation' = [conversation EXCEPT ![c].status = s, ![c].closed_at = b]
        PROVE  \E row \in LiveConversations : conversation' = [conversation EXCEPT ![c] = row]
    <3> DEFINE new == [conversation[c] EXCEPT !.status = s, !.closed_at = b]
    <3>1. new \in LiveConversations
      BY <1>1, <2>2, ConversationUpdates
    <3>2. conversation' = [conversation EXCEPT ![c] = new]
      BY <1>1, <2>2 DEF DInv, RowsInv
    <3> QED
      BY <3>1, <3>2
  <2>3. ASSUME NEW s \in ConversationStatuses, change_conversation_status(p, s)
        PROVE  \E row \in LiveConversations : conversation' = [conversation EXCEPT ![c] = row]
    <3> DEFINE b == s = "CLOSED" \/ (old.status # "CLOSED" /\ old.closed_at)
    <3>1. b \in BOOLEAN /\ (b <=> s = "CLOSED")
      BY <1>1 DEF LiveConversations
    <3>2. conversation' = [conversation EXCEPT ![c].status = s, ![c].closed_at = b]
      BY <2>3 DEF change_conversation_status
    <3> HIDE DEF b
    <3> QED
      BY <2>2, <3>1, <3>2
  <2>4. CASE create_inbound_message(p) /\ request[p].row.status = "CLOSED"
    <3>1. conversation' = [conversation EXCEPT ![c].status = "OPEN", ![c].closed_at = FALSE]
      BY <2>4 DEF create_inbound_message
    <3>2. "OPEN" \in ConversationStatuses /\ "OPEN" # "CLOSED"
      BY DEF ConversationStatuses
    <3> QED
      BY <2>2, <3>1, <3>2
  <2> QED
    BY <2>1, <2>3, <2>4
<1> HIDE DEF c, old
<1> QED
  BY <1>1, <1>2, <1>3, <1>4, ConversationEnd

-----------------------------------------------------------------------------
\* A new ticket or conversation is consistent.
LEMMA NewRowStep ==
    ASSUME DInv,
           \/ \E t \in Tickets : create_ticket(t)
           \/ \E c \in Conversations : create_conversation(c)
    PROVE  DInv'
<1>1. ASSUME NEW t \in Tickets, create_ticket(t) PROVE DInv'
  <2> DEFINE new == [NoTicket EXCEPT !.status = "OPEN"]
  <2>1. new \in LiveTickets
    BY DEF NoTicket, LiveTickets, TicketStatuses
  <2>2. ticket' = [ticket EXCEPT ![t] = new]
    BY <1>1 DEF create_ticket
  <2> HIDE DEF new
  <2>3. UNCHANGED <<customer, conversation, handoff>> /\ UNCHANGED request
    BY <1>1 DEF create_ticket
  <2>4. RowsInv' /\ Grows /\ OneActiveHandoff'
    BY <2>1, <2>2, <2>3, TicketWritten
  <2> QED
    BY <2>3, <2>4, RequestsUntouched DEF DInv
<1>2. ASSUME NEW c \in Conversations, create_conversation(c) PROVE DInv'
  <2> DEFINE new == [NoConversation EXCEPT !.status = "OPEN"]
  <2>1. new \in LiveConversations
    BY DEF NoConversation, LiveConversations, ConversationStatuses
  <2>2. conversation' = [conversation EXCEPT ![c] = new]
    BY <1>2 DEF create_conversation
  <2> HIDE DEF new
  <2>3. UNCHANGED <<customer, ticket, handoff>> /\ UNCHANGED request
    BY <1>2 DEF create_conversation
  <2>4. RowsInv' /\ Grows /\ OneActiveHandoff'
    BY <2>1, <2>2, <2>3, ConversationWritten
  <2> QED
    BY <2>3, <2>4, RequestsUntouched DEF DInv
<1> QED
  BY <1>1, <1>2

-----------------------------------------------------------------------------
\* A new handoff is for a conversation that has no active one.
LEMMA HandoffCreated ==
    ASSUME DInv, NEW p \in Requests, NEW h \in Handoffs, create_or_reuse_handoff(p, h)
    PROVE  handoff' \in [Handoffs -> HandoffRows] /\ OneActiveHandoff'
<1> DEFINE c == request[p].on
           new == [status |-> "PENDING", conversation |-> c, assigned_to |-> Nobody]
<1>1. c \in Conversations
  BY DEF create_or_reuse_handoff, DInv, RequestsInv, CopyOK
<1>2. CASE ActiveHandoffs(c) = {}
  <2>1. handoff' = [handoff EXCEPT ![h] = new]
    BY <1>2 DEF create_or_reuse_handoff
  <2>2. new \in HandoffRows /\ new.conversation = c
    BY <1>1 DEF HandoffRows, HandoffActive
  <2> HIDE DEF new, c
  <2>3. handoff' \in [Handoffs -> HandoffRows]
    BY <2>1, <2>2 DEF DInv, RowsInv
  <2>4. \A g \in Handoffs : ~(handoff[g].conversation = c /\ handoff[g].status \in HandoffActive)
    BY <1>2 DEF ActiveHandoffs
  <2>5. /\ handoff'[h] = new
        /\ \A g \in Handoffs : g # h => handoff'[g] = handoff[g]
    BY <2>1 DEF DInv, RowsInv
  <2>6. OneActiveHandoff'
    BY <2>2, <2>4, <2>5 DEF OneActiveHandoff, DInv
  <2> QED
    BY <2>3, <2>6
<1>3. CASE ActiveHandoffs(c) # {}
  <2>1. handoff' = handoff
    BY <1>3 DEF create_or_reuse_handoff
  <2> QED
    BY <2>1 DEF DInv, RowsInv, OneActiveHandoff
<1> QED
  BY <1>2, <1>3

\* Writes of a status or an assignee keep the conversation of a handoff, and make none active.
LEMMA HandoffWritten ==
    ASSUME DInv, NEW h \in Handoffs, handoff[h].status \in HandoffActive, NEW row \in HandoffRows,
           row.conversation = handoff[h].conversation, handoff' = [handoff EXCEPT ![h] = row]
    PROVE  handoff' \in [Handoffs -> HandoffRows] /\ OneActiveHandoff'
<1>1. handoff' \in [Handoffs -> HandoffRows]
  BY DEF DInv, RowsInv
<1>2. handoff'[h] = row /\ \A g \in Handoffs : g # h => handoff'[g] = handoff[g]
  BY DEF DInv, RowsInv
<1>3. OneActiveHandoff'
  BY <1>2 DEF OneActiveHandoff, DInv
<1> QED
  BY <1>1, <1>3

\* Every step that writes a handoff.
LEMMA HandoffStep ==
    ASSUME DInv,
           \/ \E p \in Requests :
                 \/ \E h \in Handoffs : create_or_reuse_handoff(p, h)
                 \/ \E m \in Members : assign_handoff(p, m)
                 \/ resolve_handoff(p)
           \/ \E h \in Handoffs : cancel_handoffs_for_run(h)
    PROVE  DInv'
<1>1. UNCHANGED <<customer, conversation, ticket>>
  BY DEF create_or_reuse_handoff, assign_handoff, resolve_handoff, cancel_handoffs_for_run
<1>2. Grows
  BY <1>1 DEF Grows
<1>3. (\E p \in Requests : End(p)) \/ UNCHANGED request
  BY DEF create_or_reuse_handoff, assign_handoff, resolve_handoff, cancel_handoffs_for_run
<1>4. RequestsInv'
  BY <1>2, <1>3, RequestsKept, RequestsUntouched
<1>5. /\ \A r \in HandoffRows, m \in Members :
            /\ [r EXCEPT !.assigned_to = m, !.status = "ASSIGNED"] \in HandoffRows
            /\ [r EXCEPT !.assigned_to = m, !.status = "ASSIGNED"].conversation = r.conversation
      /\ \A r \in HandoffRows, s \in {"RESOLVED", "CANCELLED"} :
            /\ [r EXCEPT !.status = s] \in HandoffRows
            /\ [r EXCEPT !.status = s].conversation = r.conversation
  BY DEF HandoffRows, HandoffActive, HandoffTerminal
<1>6. handoff' \in [Handoffs -> HandoffRows] /\ OneActiveHandoff'
  <2>1. ASSUME NEW p \in Requests, NEW m \in Members, assign_handoff(p, m)
        PROVE  handoff' \in [Handoffs -> HandoffRows] /\ OneActiveHandoff'
    <3> DEFINE h == request[p].on
               new == [handoff[h] EXCEPT !.assigned_to = m, !.status = "ASSIGNED"]
    <3>1. h \in Handoffs /\ handoff[h].status \in HandoffActive
      BY <2>1 DEF assign_handoff, DInv, RequestsInv, CopyOK
    <3>2. handoff[h] \in HandoffRows
      BY <3>1 DEF DInv, RowsInv
    <3>3. new \in HandoffRows /\ new.conversation = handoff[h].conversation
      BY <1>5, <3>2
    <3>4. handoff' = [handoff EXCEPT ![h].assigned_to = m, ![h].status = "ASSIGNED"]
      BY <2>1 DEF assign_handoff
    <3>5. handoff' = [handoff EXCEPT ![h] = new]
      BY <3>1, <3>4 DEF DInv, RowsInv
    <3> HIDE DEF h, new
    <3> QED
      BY <3>1, <3>3, <3>5, HandoffWritten
  <2>2. ASSUME NEW h \in Handoffs, handoff[h].status \in HandoffActive, NEW s \in {"RESOLVED", "CANCELLED"},
               handoff' = [handoff EXCEPT ![h].status = s]
        PROVE  handoff' \in [Handoffs -> HandoffRows] /\ OneActiveHandoff'
    <3> DEFINE new == [handoff[h] EXCEPT !.status = s]
    <3>1. handoff[h] \in HandoffRows
      BY DEF DInv, RowsInv
    <3>2. new \in HandoffRows /\ new.conversation = handoff[h].conversation
      BY <1>5, <3>1
    <3>3. handoff' = [handoff EXCEPT ![h] = new]
      BY <2>2
    <3> HIDE DEF new
    <3> QED
      BY <2>2, <3>2, <3>3, HandoffWritten
  <2>3. ASSUME NEW p \in Requests, resolve_handoff(p)
        PROVE  handoff' \in [Handoffs -> HandoffRows] /\ OneActiveHandoff'
    <3>1. request[p].on \in Handoffs
      BY <2>3 DEF resolve_handoff, DInv, RequestsInv, CopyOK
    <3> QED
      BY <2>2, <2>3, <3>1 DEF resolve_handoff
  <2>4. CASE \E h \in Handoffs : cancel_handoffs_for_run(h)
    BY <2>2, <2>4 DEF cancel_handoffs_for_run
  <2> QED
    BY <2>1, <2>3, <2>4, HandoffCreated
<1> QED
  BY <1>1, <1>4, <1>6 DEF DInv, RowsInv

-----------------------------------------------------------------------------
\* Requests that end, or only add a message, write no row.
LEMMA QuietStep ==
    ASSUME DInv, NEW p \in Requests,
           \/ Abort(p) \/ create_outbound_message(p)
           \/ create_inbound_message(p) /\ request[p].row.status # "CLOSED"
    PROVE  DInv'
<1>1. UNCHANGED <<customer, conversation, ticket, handoff>> /\ End(p)
  BY DEF Abort, create_outbound_message, create_inbound_message
<1>2. Grows
  BY <1>1 DEF Grows
<1>3. RequestsInv'
  BY <1>1, <1>2, RequestsKept
<1> QED
  BY <1>1, <1>3 DEF DInv, RowsInv, OneActiveHandoff

\* The empty desk.
LEMMA DeskInitial == DeskInit => DInv
<1> SUFFICES ASSUME DeskInit PROVE DInv
  OBVIOUS
<1>1. NoCustomer \in CustomerRows /\ NoHandoff \in HandoffRows /\ NoRequest \in RequestRows
  BY DEF NoCustomer, CustomerRows, NoHandoff, HandoffRows, NoRequest, RequestRows
<1>2. NoHandoff.status \notin HandoffActive /\ NoRequest.pc = "idle"
  BY DEF NoHandoff, HandoffActive, NoRequest
<1> HIDE DEF NoCustomer, NoHandoff, NoRequest, CustomerRows, HandoffRows, RequestRows
<1>3. RowsInv
  BY <1>1 DEF DeskInit, RowsInv
<1>4. RequestsInv
  BY <1>1, <1>2 DEF DeskInit, RequestsInv, CopyOK
<1>5. OneActiveHandoff
  BY <1>2 DEF DeskInit, OneActiveHandoff
<1> QED
  BY <1>3, <1>4, <1>5 DEF DInv

\* Every step keeps the invariant.
LEMMA DeskInductive == DInv /\ [DeskNext]_deskVars => DInv'
<1> SUFFICES ASSUME DInv, [DeskNext]_deskVars PROVE DInv'
  OBVIOUS
<1>1. CASE UNCHANGED deskVars
  BY <1>1 DEF deskVars, DInv, RowsInv, RequestsInv, CopyOK, OneActiveHandoff
<1>2. CASE CustomerNext
  <2>1. ASSUME NEW p \in Requests, NEW m \in Members, NEW k \in Customers, CustomerRequest(p, m, k)
        PROVE  DInv'
    BY <2>1, LoadStep DEF CustomerRequest
  <2> QED
    BY <1>2, <2>1, CustomerStep DEF CustomerNext
<1>3. CASE ConversationNext
  <2>1. ASSUME NEW p \in Requests, NEW c \in Conversations, ResolveConversation(p, c) PROVE DInv'
    BY <2>1, LoadStep DEF ResolveConversation
  <2>2. ASSUME NEW p \in Requests, NEW m \in Members, NEW c \in Conversations,
               ConversationRequest(p, m, c)
        PROVE  DInv'
    BY <2>2, LoadStep DEF ConversationRequest
  <2>3. ASSUME NEW p \in Requests, close_conversation(p) \/ reopen_conversation(p) PROVE DInv'
    BY <2>3, ConversationStep DEF close_conversation, reopen_conversation, ConversationStatuses
  <2>4. ASSUME NEW p \in Requests, create_inbound_message(p) \/ create_outbound_message(p) PROVE DInv'
    BY <2>4, ConversationStep, QuietStep
  <2> QED
    BY <1>3, <2>1, <2>2, <2>3, <2>4, ConversationStep, NewRowStep DEF ConversationNext
<1>4. CASE TicketNext
  <2>1. ASSUME NEW p \in Requests, NEW t \in Tickets, ticket_update(p, t) PROVE DInv'
    BY <2>1, LoadStep DEF ticket_update
  <2>2. ASSUME NEW p \in Requests, NEW m \in Members, NEW t \in Tickets, TicketRequest(p, m, t)
        PROVE  DInv'
    BY <2>2, LoadStep DEF TicketRequest
  <2>3. ASSUME NEW p \in Requests, resolve_ticket(p) \/ reopen_ticket(p) PROVE DInv'
    BY <2>3, TicketStep DEF resolve_ticket, reopen_ticket, TicketStatuses
  <2> QED
    BY <1>4, <2>1, <2>2, <2>3, TicketStep, NewRowStep DEF TicketNext
<1>5. CASE HandoffNext
  <2>1. ASSUME NEW p \in Requests, NEW c \in Conversations, FindHandoff(p, c) PROVE DInv'
    BY <2>1, LoadStep DEF FindHandoff
  <2>2. ASSUME NEW p \in Requests, NEW m \in Members, NEW h \in Handoffs, HandoffRequest(p, m, h)
        PROVE  DInv'
    BY <2>2, LoadStep DEF HandoffRequest
  <2> QED
    BY <1>5, <2>1, <2>2, HandoffStep DEF HandoffNext
<1>6. CASE \E p \in Requests : Abort(p)
  BY <1>6, QuietStep
<1> QED
  BY <1>1, <1>2, <1>3, <1>4, <1>5, <1>6 DEF DeskNext

-----------------------------------------------------------------------------
\* However many requests, tools and workers overlap on however many rows, resolved_at is
\* set exactly on resolved tickets and closed_at exactly on closed conversations.
THEOREM StampsAlwaysAgree == DeskSpec => []StampsAgree
<1>1. DeskSpec => []DInv
  BY DeskInitial, DeskInductive, PTL DEF DeskSpec
<1>2. DInv => StampsAgree
  BY StampsFollow DEF DInv
<1> QED
  BY <1>1, <1>2, PTL

\* However many runs hand a conversation over at once, it has one active handoff at most
\* (create_or_reuse_handoff and its partial unique index).
THEOREM HandoffsAreUnique == DeskSpec => []OneActiveHandoff
<1>1. DeskSpec => []DInv
  BY DeskInitial, DeskInductive, PTL DEF DeskSpec
<1>2. DInv => OneActiveHandoff
  BY DEF DInv
<1> QED
  BY <1>1, <1>2, PTL

\* Steps other than those of HandoffNext leave handoffs alone.
LEMMA HandoffsUntouched ==
    ASSUME CustomerNext \/ ConversationNext \/ TicketNext \/ \E p \in Requests : Abort(p)
    PROVE  UNCHANGED handoff
<1>1. CASE CustomerNext
  BY <1>1 DEF CustomerNext, create_customer, CustomerRequest, update_customer, Loaded
<1>2. CASE ConversationNext
  BY <1>2 DEF ConversationNext, create_conversation, ResolveConversation, ConversationRequest, Loaded,
              assign_conversation, change_conversation_status, close_conversation, reopen_conversation,
              create_inbound_message, create_outbound_message
<1>3. CASE TicketNext
  BY <1>3 DEF TicketNext, create_ticket, ticket_update, TicketRequest, Loaded, assign_ticket,
              self_assign_ticket, unassign_ticket, change_ticket_status, resolve_ticket, reopen_ticket,
              update_ticket, apply_agent_ticket_update
<1>4. CASE \E p \in Requests : Abort(p)
  BY <1>4 DEF Abort
<1> QED
  BY <1>1, <1>2, <1>3, <1>4

\* A handoff that has ended stays as it ended, whatever pages managers have open
\* (assign_handoff, resolve_handoff and cancel_handoffs_for_run look at the locked row).
THEOREM HandoffsAreFrozen == DeskSpec => HandoffFrozen
<1>1. DeskSpec => []DInv
  BY DeskInitial, DeskInductive, PTL DEF DeskSpec
<1>2. DInv /\ [DeskNext]_deskVars =>
         [\A h \in Handoffs : handoff[h].status \in HandoffTerminal => handoff'[h] = handoff[h]]_deskVars
  <2> SUFFICES ASSUME DInv, DeskNext, NEW h \in Handoffs, handoff[h].status \in HandoffTerminal
               PROVE  handoff'[h] = handoff[h]
    OBVIOUS
  <2>1. handoff \in [Handoffs -> HandoffRows] /\ handoff[h].status \notin HandoffActive
        /\ handoff[h] # NoHandoff
    BY DEF DInv, RowsInv, HandoffTerminal, HandoffActive, NoHandoff
  <2>2. CASE HandoffNext
    <3>1. ASSUME NEW p \in Requests, NEW g \in Handoffs, create_or_reuse_handoff(p, g)
          PROVE  handoff'[h] = handoff[h]
      BY <2>1, <3>1 DEF create_or_reuse_handoff
    <3>2. ASSUME NEW p \in Requests, NEW m \in Members, assign_handoff(p, m)
          PROVE  handoff'[h] = handoff[h]
      BY <2>1, <3>2 DEF assign_handoff
    <3>3. ASSUME NEW p \in Requests, resolve_handoff(p) PROVE handoff'[h] = handoff[h]
      BY <2>1, <3>3 DEF resolve_handoff
    <3>4. ASSUME NEW g \in Handoffs, cancel_handoffs_for_run(g) PROVE handoff'[h] = handoff[h]
      BY <2>1, <3>4 DEF cancel_handoffs_for_run
    <3>5. ASSUME NEW p \in Requests,
                 \/ \E c \in Conversations : FindHandoff(p, c)
                 \/ \E m \in Members, g \in Handoffs : HandoffRequest(p, m, g)
          PROVE  handoff'[h] = handoff[h]
      BY <3>5 DEF FindHandoff, HandoffRequest, Loaded
    <3> QED
      BY <2>2, <3>1, <3>2, <3>3, <3>4, <3>5 DEF HandoffNext
  <2> QED
    BY <2>2, HandoffsUntouched DEF DeskNext
<1> QED
  BY <1>1, <1>2, PTL DEF DeskSpec, HandoffFrozen

-------------------------------------------------------------------------------
(***************************************************************************)
(* Inbound messages.                                                       *)
(***************************************************************************)

\* An inbound worker whose copy nobody has overtaken sees the status as it is; this is what
\* makes InboundReopens inductive.
FreshCopies ==
    \A p \in Requests : request[p].pc = "inbound" /\ request[p].fresh =>
        request[p].row.status = conversation[request[p].on].status

FInv ==
    /\ DInv
    /\ arrived \in [Conversations -> SUBSET {"fresh", "stale"}]
    /\ FreshCopies
    /\ InboundReopens

\* A request that ends leaves the other requests, but for the freshness of their copies.
LEMMA OthersKept ==
    ASSUME DInv, NEW p \in Requests, End(p) \/ EndStatus(p)
    PROVE  /\ \A q \in Requests : \/ request'[q] = request[q] \/ request'[q].pc = "idle"
                                  \/ request'[q].fresh = FALSE
           /\ EndStatus(p) => \A q \in Requests : request'[q].on = request[p].on =>
                                  request'[q].pc = "idle" \/ request'[q].fresh = FALSE
<1>1. NoRequest.pc = "idle"
  BY DEF NoRequest
<1>2. \A r \in RequestRows : /\ [r EXCEPT !.fresh = FALSE].fresh = FALSE
                             /\ [r EXCEPT !.fresh = FALSE].on = r.on
  BY DEF RequestRows
<1> HIDE DEF NoRequest, RequestRows
<1>3. request \in [Requests -> RequestRows]
  BY DEF DInv, RequestsInv
<1>4. CASE EndStatus(p)
  <2>1. ASSUME NEW q \in Requests
        PROVE  /\ \/ request'[q] = request[q] \/ request'[q].pc = "idle" \/ request'[q].fresh = FALSE
               /\ request'[q].on = request[p].on => request'[q].pc = "idle" \/ request'[q].fresh = FALSE
    <3>1. request'[q] = IF q = p THEN NoRequest
                        ELSE IF request[q].on = request[p].on THEN [request[q] EXCEPT !.fresh = FALSE]
                        ELSE request[q]
      BY <1>4 DEF EndStatus
    <3>2. request[q] \in RequestRows
      BY <1>3
    <3> QED
      BY <1>1, <1>2, <3>1, <3>2
  <2> QED
    BY <2>1
<1>5. CASE End(p) /\ ~EndStatus(p)
  BY <1>1, <1>3, <1>5 DEF End
<1> QED
  BY <1>4, <1>5

\* Steps that write no conversation and no message, and load none for a worker.
LEMMA ElsewhereFresh ==
    ASSUME FInv, DInv', UNCHANGED <<conversation, arrived>>,
           \A q \in Requests : \/ request'[q] = request[q] \/ request'[q].pc # "inbound"
                               \/ request'[q].fresh = FALSE
                               \/ request'[q].row.status = conversation[request'[q].on].status
    PROVE  FInv'
BY DEF FInv, FreshCopies, InboundReopens

\* A request loads a row.
LEMMA LoadedFresh ==
    ASSUME FInv, DInv', NEW p \in Requests, NEW pc, NEW m, NEW o, NEW row, Loaded(p, pc, m, o, row),
           pc = "inbound" => row = conversation[o]
    PROVE  FInv'
<1>1. request \in [Requests -> RequestRows]
  BY DEF FInv, DInv, RequestsInv
<1>2. /\ UNCHANGED <<conversation, arrived>>
      /\ \A q \in Requests : q # p => request'[q] = request[q]
      /\ request'[p].pc = pc /\ request'[p].on = o /\ request'[p].row = row
  BY <1>1 DEF Loaded
<1> QED
  BY <1>2, ElsewhereFresh

\* The steps of the other parts of the desk.
LEMMA OtherPartsFresh ==
    ASSUME FInv, DInv',
           CustomerNext \/ TicketNext \/ HandoffNext \/ \E p \in Requests : Abort(p)
    PROVE  FInv'
<1>1. ASSUME UNCHANGED <<conversation, arrived>>,
             UNCHANGED request \/ \E p \in Requests : End(p) \/ EndStatus(p)
      PROVE  FInv'
  <2>1. DInv
    BY DEF FInv
  <2>2. CASE UNCHANGED request
    BY <1>1, <2>2, ElsewhereFresh
  <2>3. CASE \E p \in Requests : End(p) \/ EndStatus(p)
    <3>1. \A q \in Requests : \/ request'[q] = request[q] \/ request'[q].pc = "idle"
                              \/ request'[q].fresh = FALSE
      BY <2>1, <2>3, OthersKept
    <3> QED
      BY <1>1, <3>1, ElsewhereFresh
  <2> QED
    BY <1>1, <2>2, <2>3
<1>2. ASSUME NEW p \in Requests, NEW pc \in {"customer", "ticket", "tool", "handoff_none", "handoff"},
             NEW m, NEW o, NEW row, Loaded(p, pc, m, o, row)
      PROVE  FInv'
  BY <1>2, LoadedFresh
<1>3. CASE CustomerNext
  <2>1. ASSUME NEW p \in Requests, NEW m \in Members, NEW k \in Customers, CustomerRequest(p, m, k)
        PROVE  FInv'
    BY <1>2, <2>1 DEF CustomerRequest
  <2>2. ASSUME \/ \E k \in Customers : create_customer(k)
               \/ \E p \in Requests : update_customer(p)
        PROVE  FInv'
    BY <1>1, <2>2 DEF create_customer, update_customer
  <2> QED
    BY <1>3, <2>1, <2>2 DEF CustomerNext
<1>4. CASE TicketNext
  <2>1. ASSUME NEW p \in Requests, NEW t \in Tickets, ticket_update(p, t) PROVE FInv'
    BY <1>2, <2>1 DEF ticket_update
  <2>2. ASSUME NEW p \in Requests, NEW m \in Members, NEW t \in Tickets, TicketRequest(p, m, t)
        PROVE  FInv'
    BY <1>2, <2>2 DEF TicketRequest
  <2>3. ASSUME NEW t \in Tickets, create_ticket(t) PROVE FInv'
    BY <1>1, <2>3 DEF create_ticket
  <2>4. ASSUME NEW p \in Requests,
               \/ update_ticket(p) \/ unassign_ticket(p) \/ apply_agent_ticket_update(p)
               \/ \E m \in Members : assign_ticket(p, m)
               \/ self_assign_ticket(p) \/ resolve_ticket(p) \/ reopen_ticket(p)
               \/ \E s \in TicketStatuses : change_ticket_status(p, s)
        PROVE  FInv'
    <3>1. (End(p) \/ EndStatus(p)) /\ UNCHANGED <<conversation, arrived>>
      BY <2>4 DEF update_ticket, unassign_ticket, apply_agent_ticket_update, assign_ticket,
                  self_assign_ticket, resolve_ticket, reopen_ticket, change_ticket_status
    <3> QED
      BY <1>1, <3>1
  <2> QED
    BY <1>4, <2>1, <2>2, <2>3, <2>4 DEF TicketNext
<1>5. CASE HandoffNext
  <2>1. ASSUME NEW p \in Requests, NEW c \in Conversations, FindHandoff(p, c) PROVE FInv'
    BY <1>2, <2>1 DEF FindHandoff
  <2>2. ASSUME NEW p \in Requests, NEW m \in Members, NEW h \in Handoffs, HandoffRequest(p, m, h)
        PROVE  FInv'
    BY <1>2, <2>2 DEF HandoffRequest
  <2>3. ASSUME NEW h \in Handoffs, cancel_handoffs_for_run(h) PROVE FInv'
    BY <1>1, <2>3 DEF cancel_handoffs_for_run
  <2>4. ASSUME NEW p \in Requests,
               \/ \E h \in Handoffs : create_or_reuse_handoff(p, h)
               \/ \E m \in Members : assign_handoff(p, m)
               \/ resolve_handoff(p)
        PROVE  FInv'
    BY <1>1, <2>4 DEF create_or_reuse_handoff, assign_handoff, resolve_handoff
  <2> QED
    BY <1>5, <2>1, <2>2, <2>3, <2>4 DEF HandoffNext
<1>6. CASE \E p \in Requests : Abort(p)
  BY <1>1, <1>6 DEF Abort
<1> QED
  BY <1>3, <1>4, <1>5, <1>6

\* The status of a conversation is written: no worker's copy of it is fresh any more, and no
\* message has arrived since.
LEMMA StatusWritten ==
    ASSUME FInv, DInv', NEW p \in Requests, NEW c \in Conversations, c = request[p].on, EndStatus(p),
           arrived' = [arrived EXCEPT ![c] = {}],
           \A d \in Conversations : d # c => conversation'[d] = conversation[d]
    PROVE  FInv'
<1>1. DInv /\ arrived \in [Conversations -> SUBSET {"fresh", "stale"}]
  BY DEF FInv
<1>2. /\ \A q \in Requests : \/ request'[q] = request[q] \/ request'[q].pc = "idle"
                             \/ request'[q].fresh = FALSE
      /\ \A q \in Requests : request'[q].on = c => request'[q].pc = "idle" \/ request'[q].fresh = FALSE
  BY <1>1, OthersKept
<1>3. /\ arrived' \in [Conversations -> SUBSET {"fresh", "stale"}] /\ arrived'[c] = {}
      /\ \A d \in Conversations : d # c => arrived'[d] = arrived[d]
  BY <1>1
<1>4. FreshCopies'
  <2> SUFFICES ASSUME NEW q \in Requests, request'[q].pc = "inbound", request'[q].fresh
               PROVE  request'[q].row.status = conversation'[request'[q].on].status
    BY DEF FreshCopies
  <2>1. request'[q] = request[q] /\ request'[q].on # c
    BY <1>2
  <2>2. request[q].on \in Conversations
    BY <1>1, <2>1 DEF DInv, RequestsInv, CopyOK
  <2> QED
    BY <2>1, <2>2 DEF FInv, FreshCopies
<1>5. InboundReopens'
  BY <1>3 DEF FInv, InboundReopens
<1> QED
  BY <1>3, <1>4, <1>5 DEF FInv

LEMMA ConversationFresh ==
    ASSUME FInv, DInv', ConversationNext
    PROVE  FInv'
<1>0. DInv /\ request \in [Requests -> RequestRows] /\ arrived \in [Conversations -> SUBSET {"fresh", "stale"}]
  BY DEF FInv, DInv, RequestsInv
<1>1. ASSUME NEW p \in Requests, request[p].pc \in {"conversation", "inbound"}
      PROVE  request[p].on \in Conversations /\ conversation[request[p].on] \in LiveConversations
  BY <1>0, <1>1 DEF DInv, RequestsInv, CopyOK
<1>2. ASSUME NEW c \in Conversations, create_conversation(c) PROVE FInv'
  <2>1. /\ conversation[c] = NoConversation /\ UNCHANGED <<arrived, request>>
        /\ \A d \in Conversations : d # c => conversation'[d] = conversation[d]
        /\ conversation'[c].status = "OPEN"
    BY <1>0, <1>2 DEF create_conversation, DInv, RowsInv, LiveConversations, NoConversation
  <2>2. FreshCopies'
    <3> SUFFICES ASSUME NEW q \in Requests, request[q].pc = "inbound", request[q].fresh
                 PROVE  request[q].row.status = conversation'[request[q].on].status
      BY <2>1 DEF FreshCopies
    <3>1. request[q].on \in Conversations /\ request[q].on # c
      BY <1>1, <2>1, EmptyRows
    <3> QED
      BY <2>1, <3>1 DEF FInv, FreshCopies
  <2>3. InboundReopens'
    BY <2>1 DEF FInv, InboundReopens
  <2> QED
    BY <1>0, <2>1, <2>2, <2>3 DEF FInv
<1>3. ASSUME NEW p \in Requests, NEW c \in Conversations, ResolveConversation(p, c) PROVE FInv'
  BY <1>3, LoadedFresh DEF ResolveConversation
<1>4. ASSUME NEW p \in Requests, NEW m \in Members, NEW c \in Conversations, ConversationRequest(p, m, c)
      PROVE  FInv'
  BY <1>4, LoadedFresh DEF ConversationRequest
<1>5. ASSUME NEW p \in Requests, NEW m \in Members, assign_conversation(p, m) PROVE FInv'
  <2>1. /\ request[p].on \in Conversations /\ conversation[request[p].on] \in LiveConversations
        /\ End(p) /\ arrived' = arrived
        /\ conversation' = [conversation EXCEPT ![request[p].on].assigned_to = m]
    BY <1>1, <1>5 DEF assign_conversation
  <2>2. \A d \in Conversations : conversation'[d].status = conversation[d].status
    BY <1>0, <2>1 DEF DInv, RowsInv, LiveConversations
  <2>3. \A q \in Requests : \/ request'[q] = request[q] \/ request'[q].pc = "idle"
                            \/ request'[q].fresh = FALSE
    BY <1>0, <2>1, OthersKept
  <2>4. FreshCopies'
    <3> SUFFICES ASSUME NEW q \in Requests, request'[q].pc = "inbound", request'[q].fresh
                 PROVE  request'[q].row.status = conversation'[request'[q].on].status
      BY DEF FreshCopies
    <3>1. request'[q] = request[q] /\ request[q].on \in Conversations
      BY <1>1, <2>3
    <3> QED
      BY <2>2, <3>1 DEF FInv, FreshCopies
  <2>5. InboundReopens'
    BY <2>1, <2>2 DEF FInv, InboundReopens
  <2> QED
    BY <1>0, <2>1, <2>4, <2>5 DEF FInv
<1>6. ASSUME NEW p \in Requests, NEW s, change_conversation_status(p, s) PROVE FInv'
  <2>1. /\ request[p].on \in Conversations /\ EndStatus(p)
        /\ arrived' = [arrived EXCEPT ![request[p].on] = {}]
        /\ \A d \in Conversations : d # request[p].on => conversation'[d] = conversation[d]
    BY <1>0, <1>1, <1>6 DEF change_conversation_status, DInv, RowsInv
  <2>2. PICK c \in Conversations : c = request[p].on
    BY <2>1
  <2> QED
    BY <2>1, <2>2, StatusWritten
<1>7. ASSUME NEW p \in Requests, create_inbound_message(p) PROVE FInv'
  <2>0. PICK c \in Conversations : c = request[p].on
    BY <1>1, <1>7 DEF create_inbound_message
  <2>1. CASE request[p].row.status = "CLOSED"
    <3>1. /\ EndStatus(p) /\ arrived' = [arrived EXCEPT ![c] = {}]
          /\ \A d \in Conversations : d # c => conversation'[d] = conversation[d]
      BY <1>0, <1>7, <2>0, <2>1 DEF create_inbound_message, DInv, RowsInv
    <3> QED
      BY <2>0, <3>1, StatusWritten
  <2>2. CASE request[p].row.status # "CLOSED"
    <3>1. /\ request[p].pc = "inbound" /\ End(p) /\ conversation' = conversation
          /\ arrived' = [arrived EXCEPT ![c] =
                @ \cup {IF request[p].fresh THEN "fresh" ELSE "stale"}]
      BY <1>7, <2>0, <2>2 DEF create_inbound_message
    <3>2. /\ arrived' \in [Conversations -> SUBSET {"fresh", "stale"}]
          /\ arrived'[c] = arrived[c] \cup {IF request[p].fresh THEN "fresh" ELSE "stale"}
          /\ \A d \in Conversations : d # c => arrived'[d] = arrived[d]
      BY <1>0, <3>1
    <3>3. \A q \in Requests : \/ request'[q] = request[q] \/ request'[q].pc = "idle"
                              \/ request'[q].fresh = FALSE
      BY <1>0, <3>1, OthersKept
    <3>4. FreshCopies'
      BY <3>1, <3>3 DEF FInv, FreshCopies
    <3>5. request[p].fresh => conversation[c].status # "CLOSED"
      BY <2>0, <2>2, <3>1 DEF FInv, FreshCopies
    <3>6. InboundReopens'
      BY <3>1, <3>2, <3>5 DEF FInv, InboundReopens
    <3> QED
      BY <3>2, <3>4, <3>6 DEF FInv
  <2> QED
    BY <2>1, <2>2
<1>8. ASSUME NEW p \in Requests, create_outbound_message(p) PROVE FInv'
  <2>1. End(p) /\ UNCHANGED <<conversation, arrived>>
    BY <1>8 DEF create_outbound_message
  <2>2. \A q \in Requests : \/ request'[q] = request[q] \/ request'[q].pc = "idle"
                            \/ request'[q].fresh = FALSE
    BY <1>0, <2>1, OthersKept
  <2> QED
    BY <2>1, <2>2, ElsewhereFresh
<1> QED
  BY <1>2, <1>3, <1>4, <1>5, <1>6, <1>7, <1>8 DEF ConversationNext, close_conversation, reopen_conversation

\* However requests, tools and workers overlap, a message whose worker saw the conversation as
\* it is does not stay in a closed one (create_inbound_message, change_conversation_status).
THEOREM InboundAlwaysReopens == DeskSpec => []InboundReopens
<1>1. DeskInit => FInv
  <2> SUFFICES ASSUME DeskInit PROVE FInv
    OBVIOUS
  <2>1. NoRequest.pc = "idle"
    BY DEF NoRequest
  <2> HIDE DEF NoRequest
  <2> QED
    BY <2>1, DeskInitial DEF DeskInit, FInv, FreshCopies, InboundReopens
<1>2. ASSUME FInv, [DeskNext]_deskVars PROVE FInv'
  <2>1. DInv'
    BY <1>2, DeskInductive DEF FInv
  <2>2. CASE UNCHANGED deskVars
    BY <1>2, <2>1, <2>2, ElsewhereFresh DEF deskVars
  <2>3. CASE DeskNext
    BY <1>2, <2>1, <2>3, OtherPartsFresh, ConversationFresh DEF DeskNext
  <2> QED
    BY <1>2, <2>2, <2>3
<1>3. FInv => InboundReopens
  BY DEF FInv
<1> QED
  BY <1>1, <1>2, <1>3, PTL DEF DeskSpec
===============================================================================
