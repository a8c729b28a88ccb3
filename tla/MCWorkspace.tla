------------------------------ MODULE MCWorkspace ------------------------------
(* A small instance for TLC of what people configure and work on in one workspace:
   SupportDesk, Membership, Configuration with PolicyEvaluation, and IntegrationCalls. Their
   rows are disjoint, so the product of their states shows nothing: each initial state
   explores one part; in the part "judgements" it is what a policy evaluation is asked. *)
EXTENDS SupportDesk, Membership, Configuration, IntegrationCalls, TLC

CONSTANTS boss, ann, bob, c1, c2, r1, r2, r3,
          Parts    \* the parts this run explores
VARIABLE part      \* what changes in this behaviour

Staff == [m \in {boss, ann, bob} |-> IF m = boss THEN "SUPPORT_MANAGER" ELSE "SUPPORT_AGENT"]

Call(key, base, effect, amount, currency, minutes) ==
    [tool |-> key, base |-> base, effect |-> effect, amount |-> amount, currency |-> currency,
     minutes |-> minutes]
Refund(base, amount, currency) == Call("payment.refund", base, "financial", amount, currency, -1)
Booking == Call("calendar.create_booking", "high", "external_write", -1, "none", 60)
Lookup == Call("order.lookup", "read_only", "read", -1, "none", -1)

Rule(effect, key, risks, kinds, all, role, name) ==
    [enabled |-> TRUE, tool |-> key, risk_levels |-> risks, side_effect_types |-> kinds,
     all |-> all, effect |-> effect, required_role |-> role, name |-> name]
P(name, value) == [predicate |-> name, value |-> value]

AllowSmall == Rule("allow", "payment.refund", {}, {},
                   <<P("amount_minor_lte", 2), P("currency_is", "USD")>>, "", 20)
ApproveMoney == Rule("require_approval", "", {"high", "critical"}, {"financial"}, <<>>,
                     "ADMIN", 20)
DenyLarge == Rule("deny", "", {}, {}, <<P("amount_minor_gt", 3), P("tool_is", "payment.refund")>>,
                  "", 20)
AllowLongNamed == Rule("allow", "", {}, {}, <<P("risk_level_at_least", "read_only")>>, "", 60)
DenyLongBooking == Rule("deny", "", {}, {"external_write"},
                        <<P("booking_duration_minutes_gt", 30)>>, "", 20)
Broken == Rule("allow", "", {}, {}, <<P("amount_minor_gte", 1), P("risk_level_at_least", "huge")>>,
               "", 20)
Euros == Rule("require_approval", "", {}, {},
              <<[predicate |-> "argument_equals", field |-> "currency", value |-> "EUR"]>>, "", 20)
Numberless == Rule("allow", "", {}, {}, <<[predicate |-> "amount_minor_gt"]>>, "", 20)
Written == {AllowSmall, Broken}
Sampled == Written \cup {ApproveMoney, AllowLongNamed, DenyLarge, DenyLongBooking, Euros, Numberless,
                         [AllowSmall EXCEPT !.enabled = FALSE]}

Asked == {Refund("critical", 1, "USD")}
Judged == {Booking, Lookup} \cup {Refund(base, amount, currency) :
              base \in {"medium", "high", "critical"}, amount \in {1, 3, 5}, currency \in {"USD", "EUR"}}
Samples == {s \in [call : Judged, rules : {<<r, o>> : r \in Sampled, o \in Sampled},
                   extra : Sampled, larger : {3, 5}] : s.larger > s.call.amount}

-----------------------------------------------------------------------------
mcVars == <<deskVars, membershipVars, configurationVars, callVars, judgement, part>>

MCInit ==
    /\ DeskInit /\ MembershipInit /\ ConfigurationInit
    /\ part \in Parts
    /\ JudgementInit /\ (judgement # NoJudgement <=> part = "judgements")
    /\ CallsInit /\ (part # "calls" => tool = "ticket.create")

DeskStep ==
    \/ part = "customers" /\ CustomerNext
    \/ part = "conversations" /\ ConversationNext
    \/ part = "tickets" /\ TicketNext
    \/ part = "handoffs" /\ HandoffNext
    \/ /\ part \in {"conversations", "tickets", "handoffs"}
       /\ \A k \in Customers : customer[k] = NoCustomer   \* one is enough here
       /\ \E k \in Customers : create_customer(k) /\ customer'[k].ext = NoId
    \/ part = "handoffs" /\ \E c \in Conversations : create_conversation(c)
    \/ \E p \in Requests : Abort(p)

\* Requests are interchangeable and two that add a member never meet: one of any kind, one
\* that does not add and one that transfers show every way a transfer can be overtaken.
MemberStep ==
    /\ MembershipNext
    /\ call'[r2].op # "add" /\ call'[r3].op \in {"none", "transfer"}

\* Administrators act beside notifications only. A second caller starts beside bookings only,
\* and not after a sweep, when nothing is claimed about the number of effects.
CallStep ==
    /\ \/ tool = "notification.send" /\ ConnectionNext
       \/ create_connection \/ ExecutionNext \/ HandlerNext
    /\ caller[c2] = NoCaller /\ caller'[c2] # NoCaller =>
          tool = "calendar.create_booking" /\ ~swept

MCNext ==
    /\ UNCHANGED <<judgement, part>>
    /\ \/ DeskStep /\ UNCHANGED <<membershipVars, configurationVars, callVars>>
       \/ /\ part = "members" /\ MemberStep
          /\ UNCHANGED <<deskVars, configurationVars, callVars>>
       \/ /\ \/ part = "agents" /\ AgentConfigurationNext
             \/ part = "policies" /\ PolicyNext
          /\ UNCHANGED <<deskVars, membershipVars, callVars>>
       \/ part = "calls" /\ CallStep /\ UNCHANGED <<deskVars, membershipVars, configurationVars>>

MCSpec == MCInit /\ [][MCNext]_mcVars
=============================================================================
