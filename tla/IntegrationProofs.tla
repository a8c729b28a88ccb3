--------------------------- MODULE IntegrationProofs ---------------------------
(***************************************************************************)
(* IntegrationCalls, for any number of callers and administrators and any  *)
(* of the tools: one tool execution does what it was asked at most once,   *)
(* what was done and then reported as an outage excepted.                  *)
(***************************************************************************)
EXTENDS IntegrationCalls, TLAPS

Codes == Answers \cup {"", "uncaught", "integration_not_usable", "tool_timeout", "tool_retry_exhausted",
                       "tool_budget_exceeded", "stuck_worker_recovered"}
ConnStatuses == {"none", "active", "disabled", "degraded", "invalid_credentials"}
ConnRows == [status : ConnStatuses, version : Nat]
ExecRows == [status : {"none", "PENDING", "RUNNING", "SUCCEEDED"} \cup Terminal, error : Codes,
             attempts : 0..3]
CallerRows == [pc : {"idle", "claimed", "running", "waiting", "ending"}, attempt : 0..3, code : Codes]
ThreadRows == [pc : {"none", "new", "loaded", "called", "done"}, copy : ConnStatuses, code : Codes]
AdminRows == [op : {"none", "rotate", "enable", "test"}, copy : ConnRows]

CallsTypeOK ==
    /\ tool \in CalledTools
    /\ conn \in ConnRows
    /\ exec \in ExecRows
    /\ caller \in [Callers -> CallerRows]
    /\ \A c \in Callers : caller[c].pc = "waiting" => caller[c].attempt \in Attempts
    /\ thread \in [Callers -> [Attempts -> ThreadRows]]
    /\ effects \in Nat /\ disowned \in Nat
    /\ swept \in BOOLEAN
    /\ admin \in [Admins -> AdminRows]

\* An answer "ok" is given after the effect, and travels from the thread to the row.
OkInv ==
    spec.writes =>
        /\ \A c \in Callers, n \in Attempts :
              thread[c][n].pc \in {"called", "done"} /\ thread[c][n].code = "ok" => Done >= 1
        /\ \A c \in Callers : caller[c].pc = "ending" /\ caller[c].code = "ok" => Done >= 1
        /\ exec.status = "SUCCEEDED" => Done >= 1

\* Until recovery fails the row, the row is in the hands of one caller at most.
OneCaller ==
    ~swept =>
        /\ \A c, d \in Callers : caller[c].pc # "idle" /\ caller[d].pc # "idle" => c = d
        /\ \A c \in Callers :
              /\ caller[c].pc = "claimed" => exec.status = "PENDING"
              /\ caller[c].pc \in {"running", "waiting", "ending"} => exec.status = "RUNNING"
              /\ caller[c].pc = "waiting" => caller[c].attempt = exec.attempts

\* A second request would do the work again.
Repeats == spec.writes /\ ~spec.dedups

\* Another attempt can start.
Open == \/ exec.status = "none" \/ Retryable
        \/ \E c \in Callers : caller[c].pc \in {"claimed", "running"}

\* A row that ends with this code is not claimed again.
Settled(code) == code = "ok" \/ code \in spec.ambiguous \/ exec.attempts >= spec.max_retries + 1

Active(c, n) == thread[c][n].pc # "none"

\* One thread at a time; once it has started, and once the effect is there, no other
\* attempt can start unless the thread answers that nothing happened.
OnceInv ==
    ~swept /\ Repeats =>
        /\ effects <= 1
        /\ \A c, d \in Callers, n, m \in Attempts : Active(c, n) /\ Active(d, m) => c = d /\ n = m
        /\ \A c \in Callers, n \in Attempts :
              /\ thread[c][n].pc \in {"new", "loaded"} => effects = 0
              /\ thread[c][n].pc \in {"called", "done"} /\ effects = 1 =>
                    Settled(thread[c][n].code) /\ thread[c][n].code \notin spec.retryable
              /\ Active(c, n) => exec.attempts >= 1
        /\ effects = 1 \/ (\E c \in Callers, n \in Attempts : Active(c, n)) =>
              /\ ~Open
              /\ \A c \in Callers : caller[c].pc = "ending" => Settled(caller[c].code)

\* A read has no effect, the other side recognises a repeated write that it can, and the
\* database does not do what it reports as failed.
KnownInv == (~Repeats => Done <= 1) /\ (spec.via = "database" => disowned = 0)

CInv == CallsTypeOK /\ OkInv /\ OneCaller /\ OnceInv /\ KnownInv

-----------------------------------------------------------------------------
\* What the tools have in common, and what a write that is not deduplicated declares.
LEMMA ToolFacts ==
    ASSUME tool \in CalledTools
    PROVE  /\ spec.max_retries \in {0, 2} /\ spec.writes \in BOOLEAN /\ spec.dedups \in BOOLEAN
           /\ spec.writes /\ ~spec.dedups => 
                /\ tool # "notification.send"
                /\ \/ spec.max_retries = 0 /\ spec.retryable = {} /\ spec.via = "database"
                   \/ /\ spec.retryable = WRITE_RETRYABLE_CODES /\ spec.via # "database"
                      /\ spec.ambiguous = CALENDAR_AMBIGUOUS_OUTCOME_CODES
<1> USE DEF Tool, CUSTOMER_LOOKUP_TOOL, ORDER_LOOKUP_TOOL, SHIPMENT_LOOKUP_TOOL, PAYMENT_LOOKUP_TOOL,
        PAYMENT_REFUND_TOOL, CALENDAR_AVAILABILITY_TOOL, CALENDAR_BOOKING_TOOL, TICKET_CREATE_TOOL,
        TICKET_UPDATE_TOOL, NOTIFICATION_SEND_TOOL
<1>1. /\ tool \in {"customer.lookup", "order.lookup", "shipment.lookup", "payment.lookup"} \cup
                  {"payment.refund", "calendar.check_availability", "calendar.create_booking"} \cup
                  {"ticket.create", "ticket.update", "notification.send"}
  BY CallsAssumption DEF ToolKeys
<1>2. CASE tool \in {"customer.lookup", "order.lookup", "shipment.lookup", "payment.lookup"}
  BY <1>2 DEF spec, ALL_INTEGRATION_TOOLS
<1>3. CASE tool \in {"payment.refund", "calendar.check_availability", "calendar.create_booking"}
  BY <1>3 DEF spec, ALL_INTEGRATION_TOOLS
<1>4. CASE tool \in {"ticket.create", "ticket.update", "notification.send"}
  BY <1>4 DEF spec, ALL_INTEGRATION_TOOLS
<1> QED
  BY <1>1, <1>2, <1>3, <1>4

LEMMA ToolKept == tool' = tool => spec' = spec
BY DEF spec

\* A thread's row is replaced.
LEMMA ThreadWritten ==
    ASSUME CallsTypeOK, NEW c \in Callers, NEW n \in Attempts, NEW row \in ThreadRows,
           thread' = [thread EXCEPT ![c][n] = row]
    PROVE  /\ thread' \in [Callers -> [Attempts -> ThreadRows]] /\ thread'[c][n] = row
           /\ \A d \in Callers, m \in Attempts : d # c \/ m # n => thread'[d][m] = thread[d][m]
<1>1. thread \in [Callers -> [Attempts -> ThreadRows]]
  BY DEF CallsTypeOK
<1>2. thread[c] \in [Attempts -> ThreadRows] /\ thread' = [thread EXCEPT ![c] = [thread[c] EXCEPT ![n] = row]]
  BY <1>1
<1> DEFINE mine == [thread[c] EXCEPT ![n] = row]
<1>3. mine \in [Attempts -> ThreadRows] /\ mine[n] = row /\ \A m \in Attempts : m # n => mine[m] = thread[c][m]
  BY <1>2
<1>4. thread' = [thread EXCEPT ![c] = mine]
  BY <1>2
<1> HIDE DEF mine
<1>5. /\ thread' \in [Callers -> [Attempts -> ThreadRows]] /\ thread'[c] = mine
      /\ \A d \in Callers : d # c => thread'[d] = thread[d]
  BY <1>1, <1>3, <1>4
<1> QED
  BY <1>3, <1>5

LEMMA CallerWritten ==
    ASSUME CallsTypeOK, NEW c \in Callers, NEW row \in CallerRows,
           caller' = [caller EXCEPT ![c] = row]
    PROVE  /\ caller' \in [Callers -> CallerRows] /\ caller'[c] = row
           /\ \A d \in Callers : d # c => caller'[d] = caller[d]
BY DEF CallsTypeOK

LEMMA Blank == NoCaller \in CallerRows /\ NoThread \in ThreadRows /\ NoCaller.pc = "idle" /\ NoThread.pc = "none"
BY DEF NoCaller, NoThread, CallerRows, ThreadRows, ConnStatuses, Codes
\* A step that leaves the row, the callers and the threads alone.
LEMMA Unrelated ==
    ASSUME CInv, CallsTypeOK', UNCHANGED <<tool, exec, caller, thread, effects, disowned, swept>>
    PROVE  CInv'
<1>1. spec' = spec
  BY ToolKept
<1>2. OkInv' /\ OneCaller' /\ KnownInv'
  BY <1>1 DEF CInv, OkInv, OneCaller, KnownInv, Repeats, Done
<1>3. OnceInv'
  BY <1>1 DEF CInv, OnceInv, Open, Retryable, Settled, Active, Repeats
<1> QED
  BY <1>2, <1>3 DEF CInv

\* A row that can still be attempted has had no effect, and no thread is left of it.
LEMMA NothingYet ==
    ASSUME CallsTypeOK, OnceInv, Open, UNCHANGED <<tool, thread, effects, swept>>
    PROVE  OnceInv'
<1>1. spec' = spec
  BY ToolKept
<1>2. SUFFICES ASSUME ~swept, Repeats PROVE OnceInv'
  BY <1>1 DEF OnceInv, Repeats
<1>3. effects # 1 /\ effects \in Nat /\ \A d \in Callers, m \in Attempts : ~Active(d, m)
  BY <1>2 DEF OnceInv, CallsTypeOK
<1>4. effects' = 0 /\ \A d \in Callers, m \in Attempts : ~Active(d, m)'
  BY <1>2, <1>3 DEF OnceInv, Active
<1> QED
  BY <1>4 DEF OnceInv, Active

LEMMA KnownKept ==
    ASSUME CInv, UNCHANGED <<tool, effects, disowned>>
    PROVE  KnownInv'
BY ToolKept DEF CInv, KnownInv, Repeats, Done

LEMMA ClaimInv ==
    ASSUME CInv, NEW c \in Callers, claim_execution(c)
    PROVE  CInv'
<1> DEFINE row == [pc |-> "claimed", attempt |-> exec.attempts, code |-> ""]
<1>0. CallsTypeOK /\ OkInv /\ OneCaller /\ OnceInv
  BY DEF CInv
<1>1. /\ (exec.status = "none" \/ Retryable) /\ caller[c].pc = "idle"
      /\ exec' = [exec EXCEPT !.status = "PENDING", !.error = ""]
      /\ caller' = [caller EXCEPT ![c] = row]
      /\ UNCHANGED <<tool, conn, thread, effects, disowned, swept, admin>>
  BY DEF claim_execution, handlerVars, effectVars
<1>2. /\ exec' \in ExecRows /\ exec'.status = "PENDING" /\ exec'.attempts = exec.attempts
  BY <1>0, <1>1 DEF CallsTypeOK, ExecRows, Codes
<1>3. row \in CallerRows /\ row.pc = "claimed"
  BY <1>0 DEF CallsTypeOK, ExecRows, CallerRows, Codes
<1> HIDE DEF row
<1>4. /\ caller' \in [Callers -> CallerRows] /\ caller'[c].pc = "claimed"
      /\ \A d \in Callers : d # c => caller'[d] = caller[d]
  BY <1>0, <1>1, <1>3, CallerWritten, Zenon
<1>5. CallsTypeOK'
  BY <1>0, <1>1, <1>2, <1>4 DEF CallsTypeOK
<1>6. spec' = spec
  BY <1>1, ToolKept
<1>7. OkInv'
  BY <1>0, <1>1, <1>2, <1>4, <1>6 DEF OkInv, Done
<1>8. OneCaller'
  <2>1. \A d \in Callers : caller[d].pc \in {"idle", "claimed", "running", "waiting", "ending"}
    BY <1>0 DEF CallsTypeOK, CallerRows
  <2>2. ~swept => \A d \in Callers : caller[d].pc = "idle"
    BY <1>0, <1>1, <2>1 DEF OneCaller, Retryable, Terminal
  <2> QED
    BY <1>1, <1>2, <1>4, <2>2 DEF OneCaller
<1>9. OnceInv'
  BY <1>0, <1>1, NothingYet DEF Open
<1> QED
  BY <1>1, <1>5, <1>7, <1>8, <1>9, KnownKept DEF CInv
\* A caller moves on and the row with it; no thread starts or ends.
LEMMA TransitionInv ==
    ASSUME CInv, NEW c \in Callers, transition_running(c)
    PROVE  CInv'
<1>0. CallsTypeOK /\ OkInv /\ OneCaller /\ OnceInv
  BY DEF CInv
<1>1. /\ caller[c].pc = "claimed" /\ UNCHANGED <<tool, conn, thread, effects, disowned, swept, admin>>
      /\ \/ /\ exec.status = "PENDING" /\ exec' = [exec EXCEPT !.status = "RUNNING"]
            /\ caller' = [caller EXCEPT ![c].pc = "running"]
         \/ /\ exec.status # "PENDING" /\ exec' = exec /\ caller' = [caller EXCEPT ![c] = NoCaller]
  BY DEF transition_running, handlerVars, effectVars
<1>2. PICK row \in CallerRows : /\ row.pc \in {"running", "idle"} /\ caller' = [caller EXCEPT ![c] = row]
                                /\ row.pc = "running" <=> exec.status = "PENDING"
  <2>1. CASE exec.status = "PENDING"
    <3> DEFINE new == [caller[c] EXCEPT !.pc = "running"]
    <3>1. new \in CallerRows /\ new.pc = "running"
      BY <1>0 DEF CallsTypeOK, CallerRows
    <3>2. caller' = [caller EXCEPT ![c] = new]
      BY <1>1, <2>1
    <3> HIDE DEF new
    <3> QED
      BY <2>1, <3>1, <3>2
  <2>2. CASE exec.status # "PENDING"
    BY <1>1, <2>2, Blank
  <2> QED
    BY <2>1, <2>2
<1>3. /\ exec' \in ExecRows /\ exec'.attempts = exec.attempts /\ exec'.error = exec.error
      /\ exec'.status = IF exec.status = "PENDING" THEN "RUNNING" ELSE exec.status
  BY <1>0, <1>1 DEF CallsTypeOK, ExecRows
<1>4. /\ caller' \in [Callers -> CallerRows] /\ caller'[c] = row
      /\ \A d \in Callers : d # c => caller'[d] = caller[d]
  BY <1>0, <1>2, CallerWritten, Zenon
<1>5. CallsTypeOK'
  BY <1>0, <1>1, <1>2, <1>3, <1>4 DEF CallsTypeOK
<1>6. spec' = spec
  BY <1>1, ToolKept
<1>7. OkInv'
  BY <1>0, <1>1, <1>2, <1>3, <1>4, <1>6 DEF OkInv, Done
<1>8. OneCaller'
  BY <1>0, <1>1, <1>2, <1>3, <1>4 DEF OneCaller
<1>9. OnceInv'
  BY <1>0, <1>1, NothingYet DEF Open
<1> QED
  BY <1>1, <1>5, <1>7, <1>8, <1>9, KnownKept DEF CInv

LEMMA RefusedInv ==
    ASSUME CInv, NEW c \in Callers, reserve_budget_slot_refused(c)
    PROVE  CInv'
<1> DEFINE row == [caller[c] EXCEPT !.pc = "ending", !.code = "tool_budget_exceeded"]
<1>0. CallsTypeOK /\ OkInv /\ OneCaller /\ OnceInv
  BY DEF CInv
<1>1. /\ caller[c].pc = "running" /\ caller' = [caller EXCEPT ![c] = row]
      /\ UNCHANGED <<tool, conn, exec, thread, effects, disowned, swept, admin>>
  BY <1>0 DEF reserve_budget_slot_refused, handlerVars, effectVars, CallsTypeOK
<1>2. row \in CallerRows /\ row.pc = "ending" /\ row.code = "tool_budget_exceeded"
  BY <1>0 DEF CallsTypeOK, CallerRows, Codes
<1> HIDE DEF row
<1>4. /\ caller' \in [Callers -> CallerRows] /\ caller'[c] = row
      /\ \A d \in Callers : d # c => caller'[d] = caller[d]
  BY <1>0, <1>1, <1>2, CallerWritten, Zenon
<1>5. CallsTypeOK'
  BY <1>0, <1>1, <1>2, <1>4 DEF CallsTypeOK
<1>6. spec' = spec
  BY <1>1, ToolKept
<1>7. OkInv'
  BY <1>0, <1>1, <1>2, <1>4, <1>6 DEF OkInv, Done
<1>8. OneCaller'
  BY <1>0, <1>1, <1>2, <1>4 DEF OneCaller
<1>9. OnceInv'
  BY <1>0, <1>1, NothingYet DEF Open
<1> QED
  BY <1>1, <1>5, <1>7, <1>8, <1>9, KnownKept DEF CInv

\* An attempt starts: nothing has happened, and no other thread is left.
LEMMA AttemptInv ==
    ASSUME CInv, NEW c \in Callers, run_with_retries(c)
    PROVE  CInv'
<1>0. CallsTypeOK /\ OkInv /\ OneCaller /\ OnceInv
  BY DEF CInv
<1>2. PICK k \in Attempts : k = caller[c].attempt + 1 /\ k \in 0..3 /\ k >= 1
  <2>1. spec.max_retries \in {0, 2} /\ caller[c].attempt \in 0..3
    BY <1>0, ToolFacts DEF CallsTypeOK, CallerRows
  <2>2. caller[c].attempt + 1 <= spec.max_retries + 1
    BY DEF run_with_retries
  <2> QED
    BY <2>1, <2>2 DEF Attempts
<1> DEFINE row == [caller[c] EXCEPT !.pc = "waiting", !.attempt = k]
           new == [NoThread EXCEPT !.pc = "new"]
<1>1. /\ caller[c].pc = "running" /\ exec' = [exec EXCEPT !.attempts = k]
      /\ caller' = [caller EXCEPT ![c] = row] /\ thread' = [thread EXCEPT ![c][k] = new]
      /\ UNCHANGED <<tool, conn, effects, disowned, swept, admin>>
  BY <1>0, <1>2 DEF run_with_retries, CallsTypeOK, effectVars
<1>3. row \in CallerRows /\ row.pc = "waiting" /\ row.attempt = k
  BY <1>0, <1>2 DEF CallsTypeOK, CallerRows
<1>4. new \in ThreadRows /\ new.pc = "new"
  BY DEF NoThread, ThreadRows, ConnStatuses, Codes
<1> HIDE DEF row, new
<1>5. /\ caller' \in [Callers -> CallerRows] /\ caller'[c] = row
      /\ \A d \in Callers : d # c => caller'[d] = caller[d]
  BY <1>0, <1>1, <1>3, CallerWritten, Zenon
<1>6. /\ thread' \in [Callers -> [Attempts -> ThreadRows]] /\ thread'[c][k] = new
      /\ \A d \in Callers, m \in Attempts : d # c \/ m # k => thread'[d][m] = thread[d][m]
  <2>1. thread' = [thread EXCEPT ![c][k] = new] /\ new \in ThreadRows /\ CallsTypeOK
    BY <1>0, <1>1, <1>4
  <2> QED
    BY <2>1, ThreadWritten, Zenon
<1>7. exec' \in ExecRows /\ exec'.attempts = k /\ exec'.status = exec.status /\ exec'.error = exec.error
  BY <1>0, <1>1, <1>2 DEF CallsTypeOK, ExecRows
<1>8. CallsTypeOK'
  BY <1>0, <1>1, <1>2, <1>3, <1>5, <1>6, <1>7 DEF CallsTypeOK
<1>9. spec' = spec
  BY <1>1, ToolKept
<1>10. OkInv'
  BY <1>0, <1>1, <1>3, <1>4, <1>5, <1>6, <1>7, <1>9 DEF OkInv, Done
<1>11. OneCaller'
  BY <1>0, <1>1, <1>2, <1>3, <1>5, <1>7 DEF OneCaller
<1>12. OnceInv'
  <2>1. SUFFICES ASSUME ~swept, Repeats PROVE OnceInv'
    BY <1>1, <1>9 DEF OnceInv, Repeats
  <2>2. Open
    BY <1>1 DEF Open
  <2>3. effects # 1 /\ effects \in Nat /\ \A d \in Callers, m \in Attempts : ~Active(d, m)
    BY <1>0, <2>1, <2>2 DEF OnceInv, CallsTypeOK
  <2>4. effects' = 0
    BY <1>0, <1>1, <2>1, <2>3 DEF OnceInv
  <2>9. \A d \in Callers, m \in Attempts : Active(d, m)' => d = c /\ m = k
    BY <1>6, <2>3 DEF Active
  <2>5. \A d \in Callers : d # c => caller'[d].pc = "idle"
    BY <1>0, <1>1, <1>5, <2>1 DEF OneCaller
  <2>6. exec'.status = "RUNNING"
    BY <1>0, <1>1, <1>7, <2>1 DEF OneCaller
  <2>7. ~Open'
    BY <1>3, <1>5, <2>5, <2>6 DEF Open, Retryable, Terminal
  <2>8. \A d \in Callers : caller'[d].pc # "ending"
    BY <1>3, <1>5, <2>5
  <2> QED
    BY <1>2, <1>4, <1>6, <1>7, <2>4, <2>9, <2>7, <2>8 DEF OnceInv, Active
<1> QED
  BY <1>1, <1>8, <1>10, <1>11, <1>12, KnownKept DEF CInv
\* A step of a thread: what it answers when the effect is there is settled.
LEMMA ThreadStep ==
    ASSUME CInv, NEW c \in Callers, NEW n \in Attempts, NEW row \in ThreadRows, Active(c, n),
           thread' = [thread EXCEPT ![c][n] = row],
           UNCHANGED <<tool, exec, caller, swept, admin>>, conn' \in ConnRows,
           effects' \in Nat, disowned' \in Nat, Done' >= Done, KnownInv',
           spec.writes /\ row.pc \in {"called", "done"} /\ row.code = "ok" => Done' >= 1,
           ~swept /\ Repeats =>
               /\ effects' <= 1
               /\ row.pc \in {"new", "loaded"} => effects' = 0
               /\ row.pc \in {"called", "done"} /\ effects' = 1 =>
                     Settled(row.code) /\ row.code \notin spec.retryable
    PROVE  CInv'
<1>0. CallsTypeOK /\ OkInv /\ OneCaller /\ OnceInv
  BY DEF CInv
<1>1. /\ thread' \in [Callers -> [Attempts -> ThreadRows]] /\ thread'[c][n] = row
      /\ \A d \in Callers, m \in Attempts : d # c \/ m # n => thread'[d][m] = thread[d][m]
  BY <1>0, ThreadWritten, Zenon
<1>2. CallsTypeOK'
  BY <1>0, <1>1 DEF CallsTypeOK
<1>3. spec' = spec
  BY ToolKept
<1>4. Done \in Nat /\ Done' \in Nat
  BY <1>0 DEF CallsTypeOK, Done
<1>5. OkInv'
  BY <1>0, <1>1, <1>3, <1>4 DEF OkInv
<1>6. OneCaller'
  BY <1>0 DEF OneCaller
<1>7. OnceInv'
  <2>1. SUFFICES ASSUME ~swept, Repeats PROVE OnceInv'
    BY <1>3 DEF OnceInv, Repeats
  <2>2. /\ ~Open /\ exec.attempts >= 1
        /\ \A d \in Callers : caller[d].pc = "ending" => Settled(caller[d].code)
    BY <1>0, <2>1 DEF OnceInv
  <2>3. Open' = Open /\ \A code : Settled(code)' = Settled(code)
    BY <1>3 DEF Open, Settled, Retryable
  <2>4. \A d \in Callers, m \in Attempts : Active(d, m)' => d = c /\ m = n
    BY <1>0, <1>1, <2>1 DEF OnceInv, Active
  <2>5. \A d \in Callers : caller'[d].pc = "ending" => Settled(caller[d].code)'
    BY <1>3, <2>2 DEF Settled
  <2>6. /\ effects' <= 1
        /\ row.pc \in {"new", "loaded"} => effects' = 0
        /\ row.pc \in {"called", "done"} /\ effects' = 1 => Settled(row.code)' /\ row.code \notin spec'.retryable
    BY <1>3, <2>1 DEF Settled
  <2>7. ASSUME NEW d \in Callers, NEW m \in Attempts
        PROVE  /\ thread'[d][m].pc \in {"new", "loaded"} => effects' = 0
               /\ thread'[d][m].pc \in {"called", "done"} /\ effects' = 1 =>
                     Settled(thread[d][m].code)' /\ thread'[d][m].code \notin spec'.retryable
    <3>1. CASE d = c /\ m = n
      <4>1. thread'[d][m] = row
        BY <1>1, <3>1
      <4> QED
        BY <2>6, <4>1 DEF Settled
    <3>2. CASE ~(d = c /\ m = n)
      <4>1. thread'[d][m].pc = "none"
        BY <2>4, <3>2 DEF Active
      <4> QED
        BY <4>1
    <3> QED
      BY <3>1, <3>2
  <2>8. ~Open' /\ exec'.attempts >= 1
    BY <2>2, <2>3
  <2> QED
    BY <2>4, <2>5, <2>6, <2>7, <2>8 DEF OnceInv, Settled
<1> QED
  BY <1>2, <1>5, <1>6, <1>7 DEF CInv

\* The row a thread that answers leaves.
LEMMA AnsweredRow ==
    ASSUME NEW c \in Callers, NEW n \in Attempts, NEW code \in Codes, Answered(c, n, code)
    PROVE  \E row \in ThreadRows : /\ thread' = [thread EXCEPT ![c][n] = row]
                                   /\ row.pc = "none" \/ (row.pc = "done" /\ row.code = code)
<1> DEFINE said == [pc |-> "done", copy |-> "none", code |-> code]
<1>1. said \in ThreadRows /\ said.pc = "done" /\ said.code = code
  BY DEF ThreadRows, ConnStatuses
<1>2. \/ thread' = [thread EXCEPT ![c][n] = said]
      \/ thread' = [thread EXCEPT ![c][n] = NoThread]
  BY Zenon DEF Answered
<1> HIDE DEF said
<1> QED
  BY <1>1, <1>2, Blank, Zenon

\* What a tool whose work would be repeated makes of an answer.
LEMMA RepeatsFacts ==
    ASSUME CallsTypeOK, Repeats
    PROVE  /\ tool # "notification.send"
           /\ \A code : exec.attempts >= 1 /\ code \in {"ok", "integration_timeout", "malformed_response", "tool_timeout"}
                 => Settled(code) /\ code \notin spec.retryable
           /\ \A code \in spec.retryable : code = "temporarily_unavailable"
<1>1. tool \in CalledTools /\ exec.attempts \in 0..3
  BY DEF CallsTypeOK, ExecRows
<1>2. /\ tool # "notification.send"
      /\ \/ spec.max_retries = 0 /\ spec.retryable = {} /\ spec.via = "database"
         \/ /\ spec.retryable = WRITE_RETRYABLE_CODES /\ spec.via # "database"
            /\ spec.ambiguous = CALENDAR_AMBIGUOUS_OUTCOME_CODES
  BY <1>1, ToolFacts DEF Repeats
<1> QED
  BY <1>1, <1>2 DEF Settled, WRITE_RETRYABLE_CODES, CALENDAR_AMBIGUOUS_OUTCOME_CODES

LEMMA HandlerInv ==
    ASSUME CInv, HandlerNext
    PROVE  CInv'
<1>0. CallsTypeOK /\ OkInv /\ OneCaller /\ OnceInv
  BY DEF CInv
<1>1. conn \in ConnRows /\ effects \in Nat /\ disowned \in Nat /\ Done \in Nat /\ More \in {0, 1}
  BY <1>0 DEF CallsTypeOK, Done, More
<1>7. \* the effects, counted
      ASSUME tool' = tool, effects' \in Nat, disowned' \in Nat, Done' \in {Done, Done + More},
             spec.via = "database" => disowned' = disowned
      PROVE  KnownInv' /\ Done' >= Done
  <2>1. KnownInv /\ spec' = spec /\ spec.writes \in BOOLEAN /\ spec.dedups \in BOOLEAN
    BY <1>0, <1>7, ToolFacts, ToolKept DEF CInv, CallsTypeOK
  <2>2. ~Repeats => Done' <= 1
    BY <1>1, <1>7, <2>1 DEF KnownInv, Repeats, More
  <2> QED
    BY <1>1, <1>7, <2>1, <2>2 DEF KnownInv, Repeats
<1>2. ASSUME NEW c \in Callers, NEW n \in Attempts, ~swept, Repeats, Active(c, n)
      PROVE  /\ thread[c][n].pc \in {"new", "loaded"} => effects = 0
             /\ thread[c][n].pc \in {"called", "done"} /\ effects = 1 =>
                   Settled(thread[c][n].code) /\ thread[c][n].code \notin spec.retryable
             /\ exec.attempts >= 1 /\ effects <= 1
  BY <1>0, <1>2 DEF OnceInv
<1>3. ASSUME NEW c \in Callers, NEW n \in Attempts, require_usable_connection(c, n) PROVE CInv'
  <2>1. /\ thread[c][n].pc = "new" /\ UNCHANGED <<tool, conn, exec, caller, effects, disowned, swept, admin>>
    BY <1>3 DEF require_usable_connection, rowVars, effectVars
  <2>2. \E row \in ThreadRows : /\ thread' = [thread EXCEPT ![c][n] = row]
                                /\ row.pc \in {"none", "loaded", "done"} /\ (row.pc = "done" => row.code # "ok")
    <3>1. CASE conn.status \in {"none", "disabled"}
      <4> DEFINE code == IF tool = "notification.send" THEN "uncaught" ELSE "integration_not_usable"
      <4>1. code \in Codes /\ code # "ok" /\ Answered(c, n, code)
        BY <1>3, <3>1 DEF require_usable_connection, Codes
      <4> HIDE DEF code
      <4>2. PICK row \in ThreadRows : /\ thread' = [thread EXCEPT ![c][n] = row]
                                      /\ row.pc = "none" \/ (row.pc = "done" /\ row.code = code)
        BY <4>1, AnsweredRow
      <4>3. row.pc \in {"none", "loaded", "done"} /\ (row.pc = "done" => row.code # "ok")
        BY <4>1, <4>2
      <4> QED
        BY <4>2, <4>3, Zenon
    <3>2. CASE conn.status \notin {"none", "disabled"}
      <4> DEFINE row == [thread[c][n] EXCEPT !.pc = "loaded", !.copy = conn.status]
      <4>1. thread' = [thread EXCEPT ![c][n].pc = "loaded", ![c][n].copy = conn.status]
        BY <1>3, <3>2, Zenon DEF require_usable_connection
      <4>2. thread' = [thread EXCEPT ![c][n] = row]
        BY <4>1
      <4>3. thread[c][n] \in ThreadRows /\ conn.status \in ConnStatuses
        BY <1>0 DEF CallsTypeOK, ConnRows
      <4>4. row \in ThreadRows /\ row.pc = "loaded"
        BY <4>3 DEF ThreadRows
      <4> HIDE DEF row
      <4> QED
        BY <4>2, <4>4
    <3> QED
      BY <3>1, <3>2
  <2>3. PICK row \in ThreadRows :
           /\ thread' = [thread EXCEPT ![c][n] = row]
           /\ row.pc \in {"none", "loaded", "done"} /\ (row.pc = "done" => row.code # "ok")
    BY <2>2
  <2>4. Active(c, n)
    BY <2>1 DEF Active
  <2>5. effects' \in Nat /\ disowned' \in Nat /\ Done' >= Done /\ KnownInv'
    <3>1. Done' = Done
      BY <2>1 DEF Done
    <3> QED
      BY <1>1, <1>7, <2>1, <3>1
  <2>6. spec.writes /\ row.pc \in {"called", "done"} /\ row.code = "ok" => Done' >= 1
    BY <2>3
  <2>7. ~swept /\ Repeats =>
           /\ effects' <= 1
           /\ row.pc \in {"new", "loaded"} => effects' = 0
           /\ row.pc \in {"called", "done"} /\ effects' = 1 =>
                 Settled(row.code) /\ row.code \notin spec.retryable
    BY <1>2, <2>1, <2>4
  <2> QED
    BY <1>1, <2>1, <2>3, <2>4, <2>5, <2>6, <2>7, ThreadStep, Zenon
<1>4. ASSUME NEW c \in Callers, NEW n \in Attempts, NEW code \in Answers, provider_call(c, n, code)
      PROVE  CInv'
  <2> DEFINE row == [thread[c][n] EXCEPT !.pc = "called", !.code = code]
  <2>1. /\ thread[c][n].pc = "loaded" /\ thread' = [thread EXCEPT ![c][n] = row]
        /\ UNCHANGED <<tool, conn, exec, caller, swept, admin>>
        /\ spec.via # "database"
        /\ \/ code \in {"ok", "integration_timeout", "malformed_response"} /\ Happens
           \/ code # "ok" /\ disowned' = disowned + More /\ effects' = effects
           \/ code # "ok" /\ effects' = effects /\ disowned' = disowned
    BY <1>4 DEF provider_call, rowVars, effectVars
  <2>2. row \in ThreadRows /\ row.pc = "called" /\ row.code = code
    <3>1. thread[c][n] \in ThreadRows
      BY <1>0 DEF CallsTypeOK
    <3> QED
      BY <3>1 DEF ThreadRows, Codes
  <2> HIDE DEF row
  <2>3. /\ effects' \in {effects, effects + 1} /\ disowned' \in Nat /\ Done' \in {Done, Done + More}
        /\ spec.writes /\ code = "ok" => Done' >= 1
    <3>1. CASE Happens
      <4>1. effects' = effects + More /\ disowned' = disowned /\ Done' = Done + More
        BY <1>1, <3>1 DEF Happens, Done
      <4>2. spec.writes => Done + More >= 1
        BY <1>1 DEF More
      <4> QED
        BY <1>1, <4>1, <4>2
    <3>2. CASE ~Happens
      BY <1>1, <2>1, <3>2 DEF Done
    <3> QED
      BY <3>1, <3>2
  <2>4. ASSUME ~swept, Repeats
        PROVE  effects' <= 1 /\ (effects' = 1 => Settled(code) /\ code \notin spec.retryable)
    <3>1. effects = 0 /\ exec.attempts >= 1
      BY <1>2, <2>1, <2>4 DEF Active
    <3>2. effects' = 1 => code \in {"ok", "integration_timeout", "malformed_response"}
      BY <2>1, <3>1
    <3> QED
      BY <1>0, <2>3, <2>4, <3>1, <3>2, RepeatsFacts
  <2>5. Active(c, n)
    BY <2>1 DEF Active
  <2>6. effects' \in Nat /\ disowned' \in Nat /\ Done' >= Done /\ KnownInv'
    BY <1>1, <1>7, <2>1, <2>3
  <2>7. spec.writes /\ row.pc \in {"called", "done"} /\ row.code = "ok" => Done' >= 1
    BY <2>2, <2>3
  <2>8. ~swept /\ Repeats =>
           /\ effects' <= 1
           /\ row.pc \in {"new", "loaded"} => effects' = 0
           /\ row.pc \in {"called", "done"} /\ effects' = 1 =>
                 Settled(row.code) /\ row.code \notin spec.retryable
    BY <2>2, <2>4
  <2> QED
    BY <1>1, <2>1, <2>2, <2>5, <2>6, <2>7, <2>8, ThreadStep, Zenon
<1>5. ASSUME NEW c \in Callers, NEW n \in Attempts, execute_provider_call(c, n) PROVE CInv'
  <2>1. /\ thread[c][n].pc = "called" /\ UNCHANGED <<tool, exec, caller, effects, disowned, swept, admin>>
        /\ record_health(thread[c][n].copy, thread[c][n].code) /\ Answered(c, n, thread[c][n].code)
    BY <1>5 DEF execute_provider_call, rowVars, effectVars
  <2>2. conn' \in ConnRows
    BY <1>1, <2>1 DEF record_health, ConnRows, ConnStatuses
  <2>3. thread[c][n].code \in Codes
    BY <1>0 DEF CallsTypeOK, ThreadRows
  <2>4. PICK row \in ThreadRows : /\ thread' = [thread EXCEPT ![c][n] = row]
                                  /\ row.pc = "none" \/ (row.pc = "done" /\ row.code = thread[c][n].code)
    BY <2>1, <2>3, AnsweredRow
  <2>5. spec.writes /\ thread[c][n].code = "ok" => Done >= 1
    BY <1>0, <2>1 DEF OkInv
  <2>6. Active(c, n)
    BY <2>1 DEF Active
  <2>11. Done' = Done
    BY <2>1 DEF Done
  <2>7. effects' \in Nat /\ disowned' \in Nat /\ Done' >= Done /\ KnownInv'
    BY <1>1, <1>7, <2>1, <2>11
  <2>8. spec.writes /\ row.pc \in {"called", "done"} /\ row.code = "ok" => Done' >= 1
    BY <2>11, <2>4, <2>5
  <2>9. ~swept /\ Repeats =>
           /\ effects' <= 1
           /\ row.pc \in {"new", "loaded"} => effects' = 0
           /\ row.pc \in {"called", "done"} /\ effects' = 1 =>
                 Settled(row.code) /\ row.code \notin spec.retryable
    BY <1>2, <2>1, <2>4, <2>6
  <2>10. UNCHANGED <<tool, exec, caller, swept, admin>> /\ thread' = [thread EXCEPT ![c][n] = row]
    BY <2>1, <2>4
  <2> QED
    BY <2>2, <2>6, <2>7, <2>8, <2>9, <2>10, ThreadStep, Zenon
<1>6. ASSUME NEW c \in Callers, NEW n \in Attempts, local_handler(c, n) PROVE CInv'
  <2>1. /\ thread[c][n].pc \in {"new", "loaded"} /\ UNCHANGED <<tool, conn, exec, caller, swept, admin>>
        /\ \/ Happens /\ Answered(c, n, "ok")
           \/ UNCHANGED <<effects, disowned>> /\ Answered(c, n, "invalid_request")
    BY <1>6 DEF local_handler, rowVars, effectVars
  <2>2. \E code \in {"ok", "invalid_request"} :
           Answered(c, n, code) /\ (IF code = "ok" THEN Happens ELSE UNCHANGED <<effects, disowned>>)
    BY <2>1
  <2>3. PICK code \in {"ok", "invalid_request"} :
           Answered(c, n, code) /\ (IF code = "ok" THEN Happens ELSE UNCHANGED <<effects, disowned>>)
    BY <2>2
  <2>4. code \in Codes
    BY DEF Codes, Answers
  <2>5. PICK row \in ThreadRows : /\ thread' = [thread EXCEPT ![c][n] = row]
                                  /\ row.pc = "none" \/ (row.pc = "done" /\ row.code = code)
    BY <2>3, <2>4, AnsweredRow
  <2>6. /\ effects' \in {effects, effects + 1} /\ disowned' = disowned
        /\ Done' \in {Done, Done + More} /\ (spec.writes /\ code = "ok" => Done' >= 1)
    <3>1. CASE code = "ok"
      <4>1. effects' = effects + More /\ disowned' = disowned /\ Done' = Done + More
        BY <1>1, <2>3, <3>1 DEF Happens, Done
      <4>2. spec.writes => Done + More >= 1
        BY <1>1 DEF More
      <4> QED
        BY <1>1, <4>1, <4>2
    <3>2. CASE code # "ok"
      BY <1>1, <2>3, <3>2 DEF Done
    <3> QED
      BY <3>1, <3>2
  <2>7. ASSUME ~swept, Repeats
        PROVE  effects' <= 1 /\ (effects' = 1 => Settled(code) /\ code \notin spec.retryable)
    <3>1. effects = 0 /\ exec.attempts >= 1
      BY <1>2, <2>1, <2>7 DEF Active
    <3> QED
      BY <1>0, <2>3, <2>6, <2>7, <3>1, RepeatsFacts
  <2>8. Active(c, n)
    BY <2>1 DEF Active
  <2>9. effects' \in Nat /\ disowned' \in Nat /\ Done' >= Done /\ KnownInv'
    BY <1>1, <1>7, <2>1, <2>6
  <2>10. spec.writes /\ row.pc \in {"called", "done"} /\ row.code = "ok" => Done' >= 1
    BY <2>5, <2>6
  <2>11. ~swept /\ Repeats =>
           /\ effects' <= 1
           /\ row.pc \in {"new", "loaded"} => effects' = 0
           /\ row.pc \in {"called", "done"} /\ effects' = 1 =>
                 Settled(row.code) /\ row.code \notin spec.retryable
    BY <2>5, <2>7
  <2>12. /\ UNCHANGED <<tool, exec, caller, swept, admin>> /\ conn' \in ConnRows
         /\ thread' = [thread EXCEPT ![c][n] = row]
    BY <1>1, <2>1, <2>5
  <2> QED
    BY <2>8, <2>9, <2>10, <2>11, <2>12, ThreadStep, Zenon
<1> QED
  BY <1>3, <1>4, <1>5, <1>6 DEF HandlerNext

\* The answer is read, and leads to another attempt only when nothing happened.
LEMMA InvokeInv ==
    ASSUME CInv, NEW c \in Callers, invoke_with_timeout(c)
    PROVE  CInv'
<1>0. CallsTypeOK /\ OkInv /\ OneCaller /\ OnceInv
  BY DEF CInv
<1>1. caller[c].pc = "waiting" /\ UNCHANGED <<tool, conn, exec, effects, disowned, swept, admin>>
  BY DEF invoke_with_timeout, effectVars
<1>2. PICK n \in Attempts : n = caller[c].attempt
  BY <1>0, <1>1 DEF CallsTypeOK
<1> DEFINE t == thread[c][n]
<1>3. t \in ThreadRows /\ caller[c] \in CallerRows
  BY <1>0 DEF CallsTypeOK
\* what the caller is left with
<1>4. PICK row \in CallerRows :
         /\ caller' = [caller EXCEPT ![c] = row]
         /\ \/ row.pc = "idle" /\ t.pc = "done" /\ t.code = "uncaught"
            \/ row.pc = "running" /\ t.pc = "done" /\ t.code \in spec.retryable
            \/ row.pc = "ending" /\ t.pc = "done" /\ t.code \in spec.retryable /\ row.code = "tool_retry_exhausted"
            \/ row.pc = "ending" /\ t.pc = "done" /\ row.code = t.code
            \/ row.pc = "ending" /\ t.pc # "done" /\ row.code = "tool_timeout"
  <2>1. CASE t.pc = "done" /\ t.code # "uncaught"
    <3> DEFINE row == AfterAttempt(c, t.code)
    <3>1. caller' = [caller EXCEPT ![c] = row]
      BY <1>2, <2>1 DEF invoke_with_timeout
    <3>2. /\ row \in CallerRows
          /\ \/ row.pc = "running" /\ t.code \in spec.retryable
             \/ row.pc = "ending" /\ t.code \in spec.retryable /\ row.code = "tool_retry_exhausted"
             \/ row.pc = "ending" /\ row.code = t.code
      BY <1>3 DEF AfterAttempt, CallerRows, ThreadRows, Codes
    <3> HIDE DEF row
    <3> QED
      BY <2>1, <3>1, <3>2
  <2>2. CASE t.pc = "done" /\ t.code = "uncaught"
    BY <1>2, <2>2, Blank DEF invoke_with_timeout
  <2>3. CASE t.pc # "done"
    <3> DEFINE row == [caller[c] EXCEPT !.pc = "ending", !.code = "tool_timeout"]
    <3>1. caller' = [caller EXCEPT ![c] = row]
      BY <1>2, <2>3 DEF invoke_with_timeout
    <3>2. row \in CallerRows /\ row.pc = "ending" /\ row.code = "tool_timeout"
      BY <1>3 DEF CallerRows, Codes
    <3> HIDE DEF row
    <3> QED
      BY <2>3, <3>1, <3>2
  <2> QED
    BY <2>1, <2>2, <2>3
<1>5. /\ caller' \in [Callers -> CallerRows] /\ caller'[c] = row
      /\ \A d \in Callers : d # c => caller'[d] = caller[d]
  BY <1>0, <1>4, CallerWritten, Zenon
<1>6. /\ thread' \in [Callers -> [Attempts -> ThreadRows]]
      /\ t.pc = "done" => thread'[c][n].pc = "none"
      /\ t.pc # "done" => thread'[c][n] = t
      /\ \A d \in Callers, m \in Attempts : d # c \/ m # n => thread'[d][m] = thread[d][m]
  <2>1. CASE t.pc = "done"
    <3>1. thread' = [thread EXCEPT ![c][n] = NoThread]
      BY <1>2, <2>1 DEF invoke_with_timeout
    <3>2. /\ thread' \in [Callers -> [Attempts -> ThreadRows]] /\ thread'[c][n] = NoThread
          /\ \A d \in Callers, m \in Attempts : d # c \/ m # n => thread'[d][m] = thread[d][m]
      <4>1. CallsTypeOK /\ NoThread \in ThreadRows
        BY <1>0, Blank
      <4> QED
        BY <3>1, <4>1, ThreadWritten, Zenon
    <3> QED
      BY <2>1, <3>2, Blank
  <2>2. CASE t.pc # "done"
    <3>1. thread' = thread
      BY <1>2, <2>2 DEF invoke_with_timeout
    <3> QED
      BY <1>0, <2>2, <3>1 DEF CallsTypeOK
  <2> QED
    BY <2>1, <2>2
<1>7. CallsTypeOK'
  BY <1>0, <1>1, <1>4, <1>5, <1>6 DEF CallsTypeOK
<1>8. spec' = spec
  BY <1>1, ToolKept
<1>9. OkInv'
  <2>1. SUFFICES ASSUME spec.writes PROVE OkInv'
    BY <1>8 DEF OkInv, Done
  <2>2. row.pc = "ending" /\ row.code = "ok" => Done >= 1
    BY <1>0, <1>4, <2>1 DEF OkInv
  <2>3. Done' = Done /\ exec' = exec
    BY <1>1 DEF Done
  <2>4. \A d \in Callers, m \in Attempts :
           thread'[d][m].pc \in {"called", "done"} => thread'[d][m] = thread[d][m]
    BY <1>6
  <2>5. \A d \in Callers : caller'[d] = caller[d] \/ (d = c /\ caller'[d] = row)
    BY <1>5
  <2> QED
    BY <1>0, <1>8, <2>1, <2>2, <2>3, <2>4, <2>5 DEF OkInv
<1>10. OneCaller'
  BY <1>0, <1>1, <1>4, <1>5 DEF OneCaller
<1>11. OnceInv'
  <2>1. SUFFICES ASSUME ~swept, Repeats PROVE OnceInv'
    BY <1>1, <1>8 DEF OnceInv, Repeats
  <2>2. \A d \in Callers : d # c => caller'[d].pc = "idle"
    BY <1>0, <1>1, <1>5, <2>1 DEF OneCaller
  <2>3. exec.status = "RUNNING"
    BY <1>0, <1>1, <2>1 DEF OneCaller
  <2>4. \A d \in Callers, m \in Attempts : Active(d, m)' => Active(d, m) /\ thread'[d][m] = thread[d][m]
    BY <1>6 DEF Active
  <2>5. CASE t.pc = "done"
    <3>1. Active(c, n)
      BY <2>5 DEF Active
    <3>2. \A d \in Callers, m \in Attempts : ~Active(d, m)'
      BY <1>0, <1>6, <2>1, <2>5, <3>1 DEF OnceInv, Active
    <3>3. /\ effects <= 1 /\ exec.attempts >= 1
          /\ effects = 1 => Settled(t.code) /\ t.code \notin spec.retryable
      BY <1>0, <2>1, <2>5, <3>1 DEF OnceInv
    <3>4. effects = 1 => ~Open' /\ \A d \in Callers : caller'[d].pc = "ending" => Settled(caller[d].code)'
      <4> SUFFICES ASSUME effects = 1
                   PROVE  ~Open' /\ \A d \in Callers : caller'[d].pc = "ending" => Settled(caller[d].code)'
        OBVIOUS
      <4>1. \/ row.pc = "idle"
            \/ row.pc = "ending" /\ Settled(row.code)
        BY <1>4, <2>5, <3>3
      <4>2. ~Open'
        BY <1>1, <1>5, <2>2, <2>3, <4>1 DEF Open, Retryable, Terminal
      <4>3. row.pc = "ending" => Settled(row.code)'
        BY <1>1, <1>8, <4>1 DEF Settled
      <4> QED
        BY <1>5, <2>2, <4>2, <4>3 DEF Settled
    <3> QED
      BY <1>1, <3>2, <3>3, <3>4 DEF OnceInv, Active
  <2>6. CASE t.pc # "done"
    <3>1. row.pc = "ending" /\ row.code = "tool_timeout"
      BY <1>4, <2>6
    <3>2. thread' = thread
      BY <1>2, <2>6 DEF invoke_with_timeout
    <3>3. exec.attempts >= 1
      <4>1. caller[c].attempt = exec.attempts
        BY <1>0, <1>1, <2>1 DEF OneCaller
      <4> QED
        BY <1>2, <4>1 DEF Attempts
    <3>4. Settled("tool_timeout")
      BY <1>0, <2>1, <3>3, RepeatsFacts
    <3>5. ~Open'
      BY <1>1, <1>5, <2>2, <2>3, <3>1 DEF Open, Retryable, Terminal
    <3>6. \A d \in Callers : caller'[d].pc = "ending" => Settled(caller[d].code)'
      BY <1>1, <1>5, <1>8, <2>2, <3>1, <3>4 DEF Settled
    <3>7. \A code : Settled(code)' = Settled(code)
      BY <1>1, <1>8 DEF Settled
    <3> QED
      BY <1>0, <1>1, <1>8, <2>1, <3>2, <3>5, <3>6, <3>7 DEF OnceInv, Active, Settled
  <2> QED
    BY <2>5, <2>6
<1> QED
  BY <1>1, <1>7, <1>9, <1>10, <1>11, KnownKept DEF CInv
\* A row that ends is not claimed again once the effect is there or may still come.
LEMMA FinalizeInv ==
    ASSUME CInv, NEW c \in Callers, finalize_execution(c)
    PROVE  CInv'
<1>0. CallsTypeOK /\ OkInv /\ OneCaller /\ OnceInv
  BY DEF CInv
<1>1. /\ caller[c].pc = "ending" /\ caller' = [caller EXCEPT ![c] = NoCaller]
      /\ UNCHANGED <<tool, conn, thread, effects, disowned, swept, admin>>
  BY DEF finalize_execution, handlerVars, effectVars
<1>2. caller[c].code \in Codes /\ exec.error \in Codes
  BY <1>0 DEF CallsTypeOK, CallerRows, ExecRows
<1>3. /\ exec' \in ExecRows /\ exec'.attempts = exec.attempts
      /\ \/ exec' = exec /\ exec.status # "RUNNING"
         \/ exec.status = "RUNNING" /\ exec'.status = "SUCCEEDED" /\ caller[c].code = "ok"
         \/ exec.status = "RUNNING" /\ exec'.status \in Terminal /\ exec'.error = caller[c].code
            /\ caller[c].code # "ok"
  BY <1>0, <1>2 DEF finalize_execution, CallsTypeOK, ExecRows, Terminal
<1>4. NoCaller \in CallerRows /\ NoCaller.pc = "idle"
  BY Blank
<1> HIDE DEF NoCaller
<1>5. /\ caller' \in [Callers -> CallerRows] /\ caller'[c] = NoCaller
      /\ \A d \in Callers : d # c => caller'[d] = caller[d]
  BY <1>0, <1>1, <1>4, CallerWritten, Zenon
<1>6. CallsTypeOK'
  BY <1>0, <1>1, <1>3, <1>4, <1>5 DEF CallsTypeOK
<1>7. spec' = spec
  BY <1>1, ToolKept
<1>8. OkInv'
  <2>1. SUFFICES ASSUME spec.writes PROVE OkInv'
    BY <1>7 DEF OkInv, Done
  <2>2. exec'.status = "SUCCEEDED" => Done >= 1
    BY <1>0, <1>1, <1>3, <2>1 DEF OkInv, Done, Terminal
  <2> QED
    BY <1>0, <1>1, <1>4, <1>5, <1>7, <2>1, <2>2 DEF OkInv, Done
<1>9. OneCaller'
  <2>1. \A d \in Callers : caller[d].pc \in {"idle", "claimed", "running", "waiting", "ending"}
    BY <1>0 DEF CallsTypeOK, CallerRows
  <2>2. ~swept => \A d \in Callers : caller'[d].pc = "idle"
    BY <1>0, <1>1, <1>4, <1>5 DEF OneCaller
  <2> QED
    BY <1>1, <2>2 DEF OneCaller
<1>10. OnceInv'
  <2>1. SUFFICES ASSUME ~swept, Repeats PROVE OnceInv'
    BY <1>1, <1>7 DEF OnceInv, Repeats
  <2>2. exec.status = "RUNNING" /\ \A d \in Callers : caller'[d].pc = "idle"
    BY <1>0, <1>1, <1>4, <1>5, <2>1 DEF OneCaller
  <2>3. effects = 1 \/ (\E d \in Callers, m \in Attempts : Active(d, m)) => Settled(caller[c].code)
    BY <1>0, <1>1, <2>1 DEF OnceInv
  <2>4. \A code : Settled(code)' = Settled(code)
    BY <1>3, <1>7 DEF Settled
  <2>5. effects = 1 \/ (\E d \in Callers, m \in Attempts : Active(d, m)) => ~Open'
    <3> SUFFICES ASSUME Settled(caller[c].code) PROVE ~Open'
      BY <2>3
    <3>1. spec.max_retries \in {0, 2} /\ exec.attempts \in 0..3
      BY <1>0, ToolFacts DEF CallsTypeOK, ExecRows
    <3>2. ~Retryable'
      BY <1>3, <1>7, <2>2, <3>1 DEF Retryable, Settled, Terminal
    <3> QED
      BY <1>3, <2>2, <3>2 DEF Open, Terminal
  <2>6. \A d \in Callers, m \in Attempts : Active(d, m)' = Active(d, m)
    BY <1>1 DEF Active
  <2>7. ASSUME NEW d \in Callers, NEW m \in Attempts
        PROVE  /\ thread'[d][m].pc \in {"new", "loaded"} => effects' = 0
               /\ thread'[d][m].pc \in {"called", "done"} /\ effects' = 1 =>
                     Settled(thread[d][m].code)' /\ thread'[d][m].code \notin spec'.retryable
               /\ Active(d, m)' => exec'.attempts >= 1
    <3>1. /\ thread[d][m].pc \in {"new", "loaded"} => effects = 0
          /\ thread[d][m].pc \in {"called", "done"} /\ effects = 1 =>
                Settled(thread[d][m].code) /\ thread[d][m].code \notin spec.retryable
          /\ Active(d, m) => exec.attempts >= 1
      BY <1>0, <2>1 DEF OnceInv
    <3> QED
      BY <1>1, <1>3, <1>7, <2>6, <3>1 DEF Settled
  <2>8. /\ effects' <= 1
        /\ \A d, e \in Callers, n, m \in Attempts : Active(d, n)' /\ Active(e, m)' => d = e /\ n = m
    BY <1>0, <1>1, <2>1, <2>6 DEF OnceInv
  <2> QED
    BY <1>1, <2>2, <2>5, <2>6, <2>7, <2>8 DEF OnceInv
<1> QED
  BY <1>1, <1>6, <1>8, <1>9, <1>10, KnownKept DEF CInv

\* A dead process takes its threads along and leaves the row as it is.
LEMMA CrashInv ==
    ASSUME CInv, NEW c \in Callers, CallerCrash(c)
    PROVE  CInv'
<1>0. CallsTypeOK /\ OkInv /\ OneCaller /\ OnceInv
  BY DEF CInv
<1>1. /\ caller[c].pc # "idle" /\ caller' = [caller EXCEPT ![c] = NoCaller]
      /\ thread' = [thread EXCEPT ![c] = [n \in Attempts |-> NoThread]]
      /\ UNCHANGED <<tool, conn, exec, effects, disowned, swept, admin>>
  BY DEF CallerCrash, effectVars
<1>2. NoCaller \in CallerRows /\ NoCaller.pc = "idle" /\ NoThread \in ThreadRows /\ NoThread.pc = "none"
  BY Blank
<1> HIDE DEF NoCaller, NoThread
<1>3. /\ caller' \in [Callers -> CallerRows] /\ caller'[c] = NoCaller
      /\ \A d \in Callers : d # c => caller'[d] = caller[d]
  BY <1>0, <1>1, <1>2, CallerWritten, Zenon
<1>4. /\ thread' \in [Callers -> [Attempts -> ThreadRows]]
      /\ \A m \in Attempts : thread'[c][m] = NoThread
      /\ \A d \in Callers, m \in Attempts : d # c => thread'[d][m] = thread[d][m]
  BY <1>0, <1>1, <1>2 DEF CallsTypeOK
<1>5. CallsTypeOK'
  BY <1>0, <1>1, <1>2, <1>3, <1>4 DEF CallsTypeOK
<1>6. spec' = spec
  BY <1>1, ToolKept
<1>7. OkInv'
  BY <1>0, <1>1, <1>2, <1>3, <1>4, <1>6 DEF OkInv, Done
<1>8. OneCaller'
  BY <1>0, <1>1, <1>2, <1>3 DEF OneCaller
<1>9. OnceInv'
  <2>1. SUFFICES ASSUME ~swept, Repeats PROVE OnceInv'
    BY <1>1, <1>6 DEF OnceInv, Repeats
  <2>2. \A d \in Callers, m \in Attempts : Active(d, m)' => Active(d, m) /\ thread'[d][m] = thread[d][m]
    BY <1>2, <1>4 DEF Active
  <2>3. \A d \in Callers : caller'[d] = caller[d] \/ caller'[d].pc = "idle"
    BY <1>2, <1>3
  <2>4. Open' => Open
    BY <1>1, <1>6, <2>3 DEF Open, Retryable
  <2>5. ASSUME NEW d \in Callers, NEW m \in Attempts, Active(d, m)'
        PROVE  /\ Active(d, m)
               /\ thread'[d][m].pc \in {"new", "loaded"} => effects' = 0
               /\ thread'[d][m].pc \in {"called", "done"} /\ effects' = 1 =>
                     Settled(thread[d][m].code)' /\ thread'[d][m].code \notin spec'.retryable
               /\ exec'.attempts >= 1
    <3>1. /\ Active(d, m) /\ thread'[d][m] = thread[d][m]
      BY <2>2, <2>5
    <3>2. /\ thread[d][m].pc \in {"new", "loaded"} => effects = 0
          /\ thread[d][m].pc \in {"called", "done"} /\ effects = 1 =>
                Settled(thread[d][m].code) /\ thread[d][m].code \notin spec.retryable
          /\ exec.attempts >= 1
      BY <1>0, <2>1, <3>1 DEF OnceInv
    <3> QED
      BY <1>1, <1>6, <3>1, <3>2 DEF Settled
  <2>6. /\ effects' <= 1
        /\ \A d, e \in Callers, n, m \in Attempts : Active(d, n)' /\ Active(e, m)' => d = e /\ n = m
    BY <1>0, <1>1, <2>1, <2>2 DEF OnceInv
  <2>7. effects' = 1 \/ (\E d \in Callers, m \in Attempts : Active(d, m)') =>
            ~Open' /\ \A d \in Callers : caller'[d].pc = "ending" => Settled(caller[d].code)'
    <3> SUFFICES ASSUME effects' = 1 \/ (\E d \in Callers, m \in Attempts : Active(d, m)')
                 PROVE  ~Open' /\ \A d \in Callers : caller'[d].pc = "ending" => Settled(caller[d].code)'
      OBVIOUS
    <3>1. effects = 1 \/ (\E d \in Callers, m \in Attempts : Active(d, m))
      BY <1>1, <2>2
    <3>2. ~Open /\ \A d \in Callers : caller[d].pc = "ending" => Settled(caller[d].code)
      BY <1>0, <2>1, <3>1 DEF OnceInv
    <3> QED
      BY <1>1, <1>6, <2>3, <2>4, <3>2 DEF Settled
  <2>8. \A d \in Callers, m \in Attempts : ~Active(d, m)' => thread'[d][m].pc = "none"
    BY DEF Active
  <2> QED
    BY <2>5, <2>6, <2>7, <2>8 DEF OnceInv
<1> QED
  BY <1>1, <1>5, <1>7, <1>8, <1>9, KnownKept DEF CInv

LEMMA SweptInv ==
    ASSUME CInv, fail_in_flight_tool_executions
    PROVE  CInv'
<1>0. CallsTypeOK /\ OkInv
  BY DEF CInv
<1>1. /\ exec' = [exec EXCEPT !.status = "FAILED", !.error = "stuck_worker_recovered"]
      /\ swept' = TRUE /\ UNCHANGED <<tool, conn, caller, thread, effects, disowned, admin>>
  BY DEF fail_in_flight_tool_executions, handlerVars, effectVars
<1>2. exec' \in ExecRows /\ exec'.status = "FAILED"
  BY <1>0, <1>1 DEF CallsTypeOK, ExecRows, Terminal, Codes
<1>3. CallsTypeOK'
  BY <1>0, <1>1, <1>2 DEF CallsTypeOK
<1>4. spec' = spec
  BY <1>1, ToolKept
<1>5. OkInv'
  BY <1>0, <1>1, <1>2, <1>4 DEF OkInv, Done
<1> QED
  BY <1>1, <1>3, <1>5, KnownKept DEF CInv, OneCaller, OnceInv

LEMMA ConnectionInv ==
    ASSUME CInv, ConnectionNext
    PROVE  CInv'
<1>0. /\ CallsTypeOK /\ conn \in ConnRows /\ admin \in [Admins -> AdminRows]
  BY DEF CInv, CallsTypeOK
<1>1. NoAdmin \in AdminRows
  BY DEF NoAdmin, AdminRows, NoConnection, ConnRows, ConnStatuses
<1>2. UNCHANGED <<tool, exec, caller, thread, effects, disowned, swept>>
  BY DEF ConnectionNext, create_connection, ConnectionRequest, rotate_credentials, test_connection,
         set_connection_enabled, rowVars, handlerVars, effectVars
<1>3. conn' \in ConnRows /\ admin' \in [Admins -> AdminRows]
  <2>1. CASE create_connection
    BY <1>0, <2>1 DEF create_connection, ConnRows, ConnStatuses
  <2>2. ASSUME NEW a \in Admins, NEW op \in {"rotate", "enable", "test"}, ConnectionRequest(a, op)
        PROVE  conn' \in ConnRows /\ admin' \in [Admins -> AdminRows]
    BY <1>0, <2>2 DEF ConnectionRequest, AdminRows
  <2>3. ASSUME NEW a \in Admins, rotate_credentials(a)
        PROVE  conn' \in ConnRows /\ admin' \in [Admins -> AdminRows]
    <3>1. admin[a].copy \in ConnRows
      BY <1>0 DEF AdminRows
    <3> QED
      BY <1>0, <1>1, <2>3, <3>1 DEF rotate_credentials, EndRequest, ConnRows, ConnStatuses
  <2>4. ASSUME NEW a \in Admins, test_connection(a)
        PROVE  conn' \in ConnRows /\ admin' \in [Admins -> AdminRows]
    BY <1>0, <1>1, <2>4 DEF test_connection, record_health, EndRequest, ConnRows, ConnStatuses
  <2>5. ASSUME NEW a \in Admins, NEW enabled \in BOOLEAN, set_connection_enabled(a, enabled)
        PROVE  conn' \in ConnRows /\ admin' \in [Admins -> AdminRows]
    BY <1>0, <1>1, <2>5 DEF set_connection_enabled, EndRequest, ConnRows, ConnStatuses
  <2> QED
    BY <2>1, <2>2, <2>3, <2>4, <2>5 DEF ConnectionNext
<1>4. CallsTypeOK'
  BY <1>0, <1>2, <1>3 DEF CallsTypeOK
<1> QED
  BY <1>2, <1>4, Unrelated

LEMMA CallsInductive == CallsSpec => []CInv
<1>1. CallsInit => CInv
  <2> SUFFICES ASSUME CallsInit PROVE CInv
    OBVIOUS
  <2>1. CallsTypeOK
    <3>1. NoConnection \in ConnRows /\ NoExecution \in ExecRows
      BY DEF NoConnection, ConnRows, ConnStatuses, NoExecution, ExecRows, Codes
    <3>2. NoAdmin \in AdminRows
      BY <3>1 DEF NoAdmin, AdminRows
    <3> QED
      BY <3>1, <3>2, Blank DEF CallsInit, CallsTypeOK
  <2>2. /\ \A c \in Callers : caller[c].pc = "idle" /\ \A n \in Attempts : thread[c][n].pc = "none"
        /\ exec.status = "none" /\ effects = 0 /\ disowned = 0
    BY Blank DEF CallsInit, NoExecution
  <2> QED
    BY <2>1, <2>2 DEF CInv, OkInv, OneCaller, OnceInv, Active, KnownInv, Done
<1>2. ASSUME CInv, [CallsNext]_callVars PROVE CInv'
  <2>1. CASE ConnectionNext
    BY <2>1, <1>2, ConnectionInv
  <2>2. CASE ExecutionNext
    BY <2>2, <1>2, SweptInv, ClaimInv, TransitionInv, RefusedInv, AttemptInv, InvokeInv, FinalizeInv, CrashInv
       DEF ExecutionNext
  <2>3. CASE HandlerNext
    BY <2>3, <1>2, HandlerInv
  <2>4. CASE UNCHANGED callVars
    <3>1. UNCHANGED <<tool, exec, caller, thread, effects, disowned, swept>> /\ UNCHANGED <<conn, admin>>
      BY <2>4 DEF callVars
    <3>2. CallsTypeOK'
      BY <1>2, <3>1 DEF CInv, CallsTypeOK
    <3> QED
      BY <1>2, <3>1, <3>2, Unrelated
  <2> QED
    BY <1>2, <2>1, <2>2, <2>3, <2>4 DEF CallsNext
<1> QED
  BY <1>1, <1>2, PTL DEF CallsSpec

\* One tool execution does what it was asked at most once, not counting what the provider did
\* and reported as an outage, and once all in all at a provider that recognises a repeated
\* request, for any number of callers of the same key, retries, cut-off threads and crashes;
\* a SUCCEEDED row did it (tools/execution.py _resolve_existing, _run_with_retries,
\* _invoke_with_timeout).
THEOREM OneEffect == CallsSpec => []OneEffectPerAction
<1>1. ASSUME CInv PROVE OneEffectPerAction
  <2>1. effects \in Nat /\ disowned \in Nat /\ CallsTypeOK /\ OkInv /\ OnceInv /\ KnownInv
    BY <1>1 DEF CInv, CallsTypeOK
  <2>2. spec.writes \in BOOLEAN /\ spec.dedups \in BOOLEAN
    BY <2>1, ToolFacts DEF CallsTypeOK
  <2>3. ~swept => effects <= 1
    BY <2>1, <2>2 DEF OnceInv, KnownInv, Repeats, Done
  <2> QED
    BY <2>1, <2>2, <2>3 DEF OneEffectPerAction, OkInv, KnownInv, Repeats
<1> QED
  BY <1>1, CallsInductive, PTL
=============================================================================
