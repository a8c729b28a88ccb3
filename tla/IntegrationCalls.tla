---------------------------- MODULE IntegrationCalls ----------------------------
(***************************************************************************)
(* One tool execution row whose handler reaches an outside provider        *)
(* (backend/integrations, and the retries and time limit of backend/tools/ *)
(* execution.py), while administrators change the connection it uses.      *)
(*                                                                         *)
(* A caller claims the row by its idempotency key, runs the handler in a   *)
(* thread and waits for it up to a time limit. A thread that is cut off is *)
(* not stopped: it goes on, and may still reach the provider. Credentials, *)
(* arguments and results are left out, and so are display names and        *)
(* configurations, which an update writes without touching the status. The *)
(* policy gate and the tool budget are those of AgentRuns; here the budget *)
(* may refuse any call.                                                    *)
(***************************************************************************)
EXTENDS Integers

CONSTANTS
    Callers,          \* tasks that execute the same call, one delivered again included
    Admins,           \* requests that change the connection
    CalledTools,      \* the tools this instance runs
    MaxVersion        \* bound on the credential versions explored

\* The integration tools of the registry.
ToolKeys == {"customer.lookup", "order.lookup", "shipment.lookup", "payment.lookup",
             "payment.refund", "calendar.check_availability", "calendar.create_booking",
             "ticket.create", "ticket.update", "notification.send"}

ASSUME CallsAssumption == CalledTools \subseteq ToolKeys /\ MaxVersion \in Nat

VARIABLES
    tool,             \* the tool of the row
    conn,             \* IntegrationConnection of the tool's provider
    exec,             \* the ToolExecution row
    caller,           \* callers: where they are, attempt_count in memory, outcome in hand
    thread,           \* the handler invocation of a caller's attempt
    effects,          \* external: how often the provider (or the database) did what was asked
    disowned,         \* external: how often it did so and answered with an outage all the same
    swept,            \* recovery failed the row while it was in flight
    admin             \* requests and the copy of the connection they loaded

callVars == <<tool, conn, exec, caller, thread, effects, disowned, swept, admin>>

-----------------------------------------------------------------------------
(* The tools. *)

WRITE_RETRYABLE_CODES == {"temporarily_unavailable"}
READ_RETRYABLE_CODES == {"temporarily_unavailable", "integration_timeout"}

\* Mutation: the time limit of the execution itself is not counted as ambiguous.
CALENDAR_AMBIGUOUS_OUTCOME_CODES_of_provider ==
    {"integration_timeout", "malformed_response"}
CALENDAR_AMBIGUOUS_OUTCOME_CODES ==
    {"integration_timeout", "malformed_response", "tool_timeout"}

\* via: the provider whose connection the handler uses, "database" when it only works on
\* rows of the workspace. dedups: a second request with the row's key does nothing.
Tool(via, max_retries, retryable, ambiguous, writes, dedups) ==
    [via |-> via, max_retries |-> max_retries, retryable |-> retryable,
     ambiguous |-> ambiguous, writes |-> writes, dedups |-> dedups]

CUSTOMER_LOOKUP_TOOL == Tool("database", 0, {}, {}, FALSE, FALSE)
ORDER_LOOKUP_TOOL == Tool("demo_commerce", 2, READ_RETRYABLE_CODES, {}, FALSE, FALSE)
SHIPMENT_LOOKUP_TOOL == Tool("demo_commerce", 2, READ_RETRYABLE_CODES, {}, FALSE, FALSE)
PAYMENT_LOOKUP_TOOL == Tool("stripe", 2, READ_RETRYABLE_CODES, {}, FALSE, FALSE)
PAYMENT_REFUND_TOOL == Tool("stripe", 2, WRITE_RETRYABLE_CODES, {}, TRUE, TRUE)
CALENDAR_AVAILABILITY_TOOL == Tool("google_calendar", 2, READ_RETRYABLE_CODES, {}, FALSE, FALSE)
CALENDAR_BOOKING_TOOL ==
    Tool("google_calendar", 2, WRITE_RETRYABLE_CODES, CALENDAR_AMBIGUOUS_OUTCOME_CODES,
         TRUE, FALSE)
TICKET_CREATE_TOOL == Tool("database", 0, {}, {}, TRUE, FALSE)
TICKET_UPDATE_TOOL == Tool("database", 0, {}, {}, TRUE, FALSE)
NOTIFICATION_SEND_TOOL == Tool("email", 2, WRITE_RETRYABLE_CODES, {}, TRUE, TRUE)

ALL_INTEGRATION_TOOLS(key) ==
    CASE key = "customer.lookup" -> CUSTOMER_LOOKUP_TOOL
      [] key = "order.lookup" -> ORDER_LOOKUP_TOOL
      [] key = "shipment.lookup" -> SHIPMENT_LOOKUP_TOOL
      [] key = "payment.lookup" -> PAYMENT_LOOKUP_TOOL
      [] key = "payment.refund" -> PAYMENT_REFUND_TOOL
      [] key = "calendar.check_availability" -> CALENDAR_AVAILABILITY_TOOL
      [] key = "calendar.create_booking" -> CALENDAR_BOOKING_TOOL
      [] key = "ticket.create" -> TICKET_CREATE_TOOL
      [] key = "ticket.update" -> TICKET_UPDATE_TOOL
      [] key = "notification.send" -> NOTIFICATION_SEND_TOOL

spec == ALL_INTEGRATION_TOOLS(tool)
Attempts == 1..3   \* max_retries + 1 at most

-----------------------------------------------------------------------------
NoConnection == [status |-> "none", version |-> 0]
NoExecution == [status |-> "none", error |-> "", attempts |-> 0]
NoCaller == [pc |-> "idle", attempt |-> 0, code |-> ""]
NoThread == [pc |-> "none", copy |-> "none", code |-> ""]
NoAdmin == [op |-> "none", copy |-> NoConnection]

CallsInit ==
    /\ tool \in CalledTools
    /\ conn = NoConnection /\ exec = NoExecution
    /\ caller = [c \in Callers |-> NoCaller]
    /\ thread = [c \in Callers |-> [n \in Attempts |-> NoThread]]
    /\ effects = 0 /\ disowned = 0 /\ swept = FALSE
    /\ admin = [a \in Admins |-> NoAdmin]

rowVars == <<exec, caller>>
effectVars == <<effects, disowned>>
handlerVars == <<thread, effectVars>>

-----------------------------------------------------------------------------
(* Connections, changed by administrators on the copy their request loaded. *)

create_connection ==
    /\ conn = NoConnection
    /\ conn' = [status |-> "active", version |-> 1]
    /\ UNCHANGED <<tool, rowVars, handlerVars, swept, admin>>

ConnectionRequest(a, op) ==
    /\ admin[a] = NoAdmin /\ conn # NoConnection
    /\ op = "rotate" => conn.version < MaxVersion
    /\ op = "test" => conn.status # "disabled"
    /\ admin' = [admin EXCEPT ![a] = [op |-> op, copy |-> conn]]
    /\ UNCHANGED <<tool, conn, rowVars, handlerVars, swept>>

EndRequest(a) == admin' = [admin EXCEPT ![a] = NoAdmin]

rotate_credentials(a) ==
    LET copy == admin[a].copy
    IN  /\ admin[a].op = "rotate"
        /\ conn' = [status |-> IF copy.status = "invalid_credentials" THEN "active"
                               ELSE copy.status,
                    version |-> copy.version + 1]
        /\ EndRequest(a)
        /\ UNCHANGED <<tool, rowVars, handlerVars, swept>>

set_connection_enabled(a, enabled) ==
    /\ admin[a].op = "enable"
    /\ conn' = [conn EXCEPT !.status = IF enabled THEN "active" ELSE "disabled"]
    /\ EndRequest(a)
    /\ UNCHANGED <<tool, rowVars, handlerVars, swept>>

\* What a provider can answer (external). A rate limit and an outage (any HTTP status of 500
\* and more) are one: both are retryable. A refusal may be of the credentials.
Answers == {"ok", "authentication_failed", "invalid_request", "temporarily_unavailable",
            "integration_timeout", "malformed_response"}

\* One UPDATE, but of a status decided on the copy the call loaded.
record_health(copy, code) ==
    conn' = [conn EXCEPT !.status =
        IF code = "ok" /\ copy \in {"degraded", "invalid_credentials"} THEN "active"
        ELSE IF copy # "disabled" /\ code = "authentication_failed" THEN "invalid_credentials"
        ELSE IF copy # "disabled" /\ code \in {"integration_timeout", "temporarily_unavailable"}
        THEN "degraded" ELSE @]

\* A probe that reads; its outcome only changes the connection's health.
test_connection(a) ==
    /\ admin[a].op = "test"
    /\ \E code \in Answers : record_health(admin[a].copy.status, code)
    /\ EndRequest(a)
    /\ UNCHANGED <<tool, rowVars, handlerVars, swept>>

-----------------------------------------------------------------------------
(* The row: claims by key, attempts, outcomes. *)

Terminal == {"FAILED", "TIMED_OUT"}

\* A failed row is claimed again unless its outcome is unknown or its attempts are used up.
Retryable == /\ exec.status \in Terminal
             /\ exec.error \notin spec.ambiguous
             /\ exec.attempts < spec.max_retries + 1

claim_execution(c) ==
    /\ caller[c].pc = "idle"
    /\ exec.status = "none" \/ Retryable
    /\ exec' = [exec EXCEPT !.status = "PENDING", !.error = ""]
    /\ caller' = [caller EXCEPT ![c] = [pc |-> "claimed", attempt |-> exec.attempts,
                                        code |-> ""]]
    /\ UNCHANGED <<tool, conn, handlerVars, swept, admin>>

transition_running(c) ==
    /\ caller[c].pc = "claimed"
    /\ \/ /\ exec.status = "PENDING"
          /\ exec' = [exec EXCEPT !.status = "RUNNING"]
          /\ caller' = [caller EXCEPT ![c].pc = "running"]
       \/ /\ exec.status # "PENDING"
          /\ caller' = [caller EXCEPT ![c] = NoCaller]
          /\ UNCHANGED exec
    /\ UNCHANGED <<tool, conn, handlerVars, swept, admin>>

\* The budget is used up: the row fails before the handler is ever called.
reserve_budget_slot_refused(c) ==
    /\ caller[c].pc = "running" /\ caller[c].attempt = exec.attempts
    /\ caller' = [caller EXCEPT ![c].pc = "ending", ![c].code = "tool_budget_exceeded"]
    /\ UNCHANGED <<tool, conn, exec, handlerVars, swept, admin>>

\* The next attempt: the count kept in memory is written, a thread starts.
run_with_retries(c) ==
    LET n == caller[c].attempt + 1
    IN  /\ caller[c].pc = "running" /\ n <= spec.max_retries + 1
        /\ exec' = [exec EXCEPT !.attempts = n]
        /\ caller' = [caller EXCEPT ![c].pc = "waiting", ![c].attempt = n]
        /\ thread' = [thread EXCEPT ![c][n] = [NoThread EXCEPT !.pc = "new"]]
        /\ UNCHANGED <<tool, conn, effectVars, swept, admin>>

\* What the answer of an attempt leads to: another attempt, or an outcome of the row.
AfterAttempt(c, code) ==
    LET remain == caller[c].attempt < spec.max_retries + 1
    IN  IF code \in spec.retryable /\ remain THEN [caller[c] EXCEPT !.pc = "running"]
        ELSE [caller[c] EXCEPT !.pc = "ending",
                  !.code = IF code \in spec.retryable THEN "tool_retry_exhausted" ELSE code]

\* The thread answers in time, or the caller stops waiting and leaves it running. An error
\* that is not a ToolError leaves the caller's code altogether, and the row as it is.
invoke_with_timeout(c) ==
    LET n == caller[c].attempt
        t == thread[c][n]
    IN  /\ caller[c].pc = "waiting"
        /\ \/ /\ t.pc = "done" /\ t.code # "uncaught"
              /\ caller' = [caller EXCEPT ![c] = AfterAttempt(c, t.code)]
           \/ /\ t.pc = "done" /\ t.code = "uncaught"
              /\ caller' = [caller EXCEPT ![c] = NoCaller]
           \/ /\ t.pc # "done"
              /\ caller' = [caller EXCEPT ![c].pc = "ending", ![c].code = "tool_timeout"]
        /\ thread' = IF t.pc = "done" THEN [thread EXCEPT ![c][n] = NoThread] ELSE thread
        /\ UNCHANGED <<tool, conn, exec, effectVars, swept, admin>>

\* _finalize_success and _finalize_failure: only a row that is still RUNNING.
finalize_execution(c) ==
    LET code == caller[c].code
    IN  /\ caller[c].pc = "ending"
        /\ exec' = IF exec.status # "RUNNING" THEN exec
                   ELSE IF code = "ok" THEN [exec EXCEPT !.status = "SUCCEEDED"]
                   ELSE [exec EXCEPT !.error = code,
                             !.status = IF code = "tool_timeout" THEN "TIMED_OUT" ELSE "FAILED"]
        /\ caller' = [caller EXCEPT ![c] = NoCaller]
        /\ UNCHANGED <<tool, conn, handlerVars, swept, admin>>

\* The process dies, and its threads with it.
CallerCrash(c) ==
    /\ caller[c].pc # "idle"
    /\ caller' = [caller EXCEPT ![c] = NoCaller]
    /\ thread' = [thread EXCEPT ![c] = [n \in Attempts |-> NoThread]]
    /\ UNCHANGED <<tool, conn, exec, effectVars, swept, admin>>

\* Bounded: at most one sweep finds the row in flight.
fail_in_flight_tool_executions ==
    /\ ~swept /\ exec.status \in {"PENDING", "RUNNING"}
    /\ exec' = [exec EXCEPT !.status = "FAILED", !.error = "stuck_worker_recovered"]
    /\ swept' = TRUE
    /\ UNCHANGED <<tool, conn, caller, handlerVars, admin>>

-----------------------------------------------------------------------------
(* The handler, in its own thread. *)

\* The thread ends; nobody reads the answer of one that was cut off.
Answered(c, n, code) ==
    thread' = [thread EXCEPT ![c][n] =
        IF caller[c].pc = "waiting" /\ caller[c].attempt = n
        THEN [pc |-> "done", copy |-> "none", code |-> code] ELSE NoThread]

require_usable_connection(c, n) ==
    /\ thread[c][n].pc = "new" /\ spec.via # "database"
    /\ \/ /\ conn.status \in {"none", "disabled"}
          /\ Answered(c, n, IF tool = "notification.send" THEN "uncaught"
                            ELSE "integration_not_usable")
       \/ /\ conn.status \notin {"none", "disabled"}
          /\ thread' = [thread EXCEPT ![c][n].pc = "loaded", ![c][n].copy = conn.status]
    /\ UNCHANGED <<tool, conn, rowVars, effectVars, swept, admin>>

\* What was asked happens, once for a key the other side knows already.
Done == effects + disowned
More == IF ~spec.writes \/ (spec.dedups /\ Done = 1) THEN 0 ELSE 1
Happens == effects' = effects + More /\ UNCHANGED disowned

\* The request to the provider (external): an answer that is lost or unreadable leaves open
\* whether it did what was asked, and so does an outage, which a server can report after it
\* has committed.
provider_call(c, n, code) ==
    /\ thread[c][n].pc = "loaded" /\ spec.via \notin {"database", "email"}
    /\ thread' = [thread EXCEPT ![c][n].pc = "called", ![c][n].code = code]
    /\ \/ code \in {"ok", "integration_timeout", "malformed_response"} /\ Happens
       \/ /\ code = "temporarily_unavailable"
          /\ disowned' = disowned + More /\ UNCHANGED effects
       \/ code # "ok" /\ UNCHANGED effectVars
    /\ UNCHANGED <<tool, conn, rowVars, swept, admin>>

\* The connection's health is recorded and the handler returns or raises.
execute_provider_call(c, n) ==
    /\ thread[c][n].pc = "called"
    /\ record_health(thread[c][n].copy, thread[c][n].code)
    /\ Answered(c, n, thread[c][n].code)
    /\ UNCHANGED <<tool, rowVars, effectVars, swept, admin>>

\* A handler that works on rows of the workspace: customers and tickets, and the delivery
\* created for a notification, one per execution.
local_handler(c, n) ==
    /\ \/ thread[c][n].pc = "new" /\ spec.via = "database"
       \/ thread[c][n].pc = "loaded" /\ tool = "notification.send"
    /\ \/ Happens /\ Answered(c, n, "ok")
       \/ UNCHANGED effectVars /\ Answered(c, n, "invalid_request")
    /\ UNCHANGED <<tool, conn, rowVars, swept, admin>>

-----------------------------------------------------------------------------
ConnectionNext ==
    \/ create_connection
    \/ \E a \in Admins :
         \/ \E op \in {"rotate", "enable", "test"} : ConnectionRequest(a, op)
         \/ rotate_credentials(a) \/ test_connection(a)
         \/ \E enabled \in BOOLEAN : set_connection_enabled(a, enabled)

ExecutionNext ==
    \/ fail_in_flight_tool_executions
    \/ \E c \in Callers :
         \/ claim_execution(c) \/ transition_running(c) \/ reserve_budget_slot_refused(c)
         \/ run_with_retries(c) \/ invoke_with_timeout(c) \/ finalize_execution(c) \/ CallerCrash(c)

HandlerNext ==
    \E c \in Callers, n \in Attempts :
       \/ require_usable_connection(c, n) \/ execute_provider_call(c, n) \/ local_handler(c, n)
       \/ \E code \in Answers : provider_call(c, n, code)

CallsNext == ConnectionNext \/ ExecutionNext \/ HandlerNext
CallsSpec == CallsInit /\ [][CallsNext]_callVars

-----------------------------------------------------------------------------
(* Properties. *)

\* However attempts are repeated, time out, are cut off and run on in their thread, one tool
\* execution does what it was asked at most once, not counting what the provider did and
\* reported as an outage; a provider that recognises a repeated request does it once all in
\* all, and so does the database. A row that says SUCCEEDED did it. Excepted is a row that
\* recovery failed while its caller was alive (tools/execution.py _resolve_existing,
\* _run_with_retries, _invoke_with_timeout; integrations/tools.py
\* CALENDAR_AMBIGUOUS_OUTCOME_CODES).
OneEffectPerAction ==
    /\ ~swept => effects <= 1
    /\ ~spec.writes \/ spec.dedups => Done <= 1
    /\ spec.via = "database" => disowned = 0
    /\ exec.status = "SUCCEEDED" /\ spec.writes => Done >= 1

\* What integrations/tools.py says of its retries: an outage the provider reports is safe to
\* retry. Bookings have no provider key (google_calendar.py create_booking), so one that was
\* made before the outage was reported is made again by the next attempt.
OutageIsSafeToRetry == ~swept => Done <= 1
=============================================================================
