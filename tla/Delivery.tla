------------------------------- MODULE Delivery -------------------------------
(***************************************************************************)
(* The durable delivery engine of backend/notifications, which sends       *)
(* notifications, webhooks and channel responses: a Delivery row is        *)
(* claimed under a lease, attempted outside any transaction, and completed *)
(* by whoever still holds its claim token.  Lost publications and dead     *)
(* workers are made good by two sweeps; webhooks may be redriven by hand.  *)
(***************************************************************************)
EXTENDS Naturals, FiniteSets

CONSTANTS
    Deliveries,
    Webhooks,          \* the deliveries of the webhook channel
    Workers,           \* Celery worker slots
    NoDelivery,
    MaxAttempts,       \* DELIVERY_DEFAULT_MAX_ATTEMPTS
    RedriveAllowance,  \* WEBHOOKS_REDRIVE_ATTEMPT_ALLOWANCE
    MaxRedrives,       \* bound: redrives of one delivery
    MaxFaults          \* bound: crashes, lost or repeated messages

AttemptCap == MaxAttempts + MaxRedrives * RedriveAllowance
AttemptNumbers == 1..AttemptCap

ASSUME DeliveryAssumption ==
    /\ Webhooks \subseteq Deliveries
    /\ NoDelivery \notin Deliveries
    /\ MaxAttempts \in Nat \ {0}
    /\ RedriveAllowance \in Nat \ {0}
    /\ MaxRedrives \in Nat
    /\ MaxFaults \in Nat

VARIABLES
    status,       \* Delivery.status ("none" before the row exists)
    attempts,     \* Delivery.attempt_count
    maxAttempts,  \* Delivery.max_attempts
    due,          \* next_attempt_at has arrived
    expired,      \* lease_expires_at has passed
    token,        \* Delivery.claim_token, named by the attempt it was issued for; 0: NULL
    attempt,      \* DeliveryAttempt.status by delivery and attempt_number
    tasks,        \* published process_delivery_task messages
    worker,       \* what each worker slot is doing
    sent,         \* history: external calls by delivery and attempt_number
    faults        \* faults still allowed

vars == <<status, attempts, maxAttempts, due, expired, token, attempt, tasks,
          worker, sent, faults>>
row == <<status, attempts, maxAttempts, due, expired, token, attempt>>

DueClaimable == {"PENDING", "RETRY_SCHEDULED"}
Redrivable == {"FAILED", "DEAD"}
Terminal == Redrivable \cup {"DELIVERED"}
Statuses == {"none", "CLAIMED"} \cup DueClaimable \cup Terminal
AttemptEnded == {"SUCCEEDED", "FAILED", "ABANDONED"}
AttemptStatuses == {"none", "IN_PROGRESS"} \cup AttemptEnded
Outcomes == {"ok", "retryable", "terminal"}

IdleWorker == [pc |-> "idle", delivery |-> NoDelivery, token |-> 0, outcome |-> "ok"]

Init ==
    /\ status = [d \in Deliveries |-> "none"]
    /\ attempts = [d \in Deliveries |-> 0]
    /\ maxAttempts = [d \in Deliveries |-> 0]
    /\ due = [d \in Deliveries |-> FALSE]
    /\ expired = [d \in Deliveries |-> FALSE]
    /\ token = [d \in Deliveries |-> 0]
    /\ attempt = [d \in Deliveries |-> [n \in AttemptNumbers |-> "none"]]
    /\ tasks = {}
    /\ worker = [w \in Workers |-> IdleWorker]
    /\ sent = [d \in Deliveries |-> [n \in AttemptNumbers |-> 0]]
    /\ faults = MaxFaults

-----------------------------------------------------------------------------
(* Publication *)

\* dispatch_delivery_for_processing: a broker failure loses the message only.
Publish(d) ==
    \/ tasks' = tasks \cup {d} /\ UNCHANGED faults
    \/ faults > 0 /\ faults' = faults - 1 /\ UNCHANGED tasks

create_delivery(d) ==
    /\ status[d] = "none"
    /\ status' = [status EXCEPT ![d] = "PENDING"]
    /\ maxAttempts' = [maxAttempts EXCEPT ![d] = MaxAttempts]
    /\ due' = [due EXCEPT ![d] = TRUE]
    /\ Publish(d)
    /\ UNCHANGED <<attempts, expired, token, attempt, worker, sent>>

-----------------------------------------------------------------------------
(* Claiming *)

due_eligible(d) == status[d] \in DueClaimable /\ due[d]
expired_claim_eligible(d) == status[d] = "CLAIMED" /\ expired[d]

\* Mutation: the previous claim keeps its token.
claim_row_same_token(w, d) ==
    LET n == attempts[d] + 1 IN
    /\ n <= maxAttempts[d]
    /\ status' = [status EXCEPT ![d] = "CLAIMED"]
    /\ attempts' = [attempts EXCEPT ![d] = n]
    /\ token' = [token EXCEPT ![d] = IF @ = 0 THEN n ELSE @]
    /\ expired' = [expired EXCEPT ![d] = FALSE]
    /\ attempt' = [attempt EXCEPT ![d][n] = "IN_PROGRESS"]
    /\ worker' = [worker EXCEPT ![w] = [pc |-> "attempt", delivery |-> d,
                                        token |-> token'[d], outcome |-> "ok"]]
    /\ UNCHANGED <<maxAttempts, due>>

\* Mutation: a reclaim is not counted as an attempt.
claim_row_free_reclaim(w, d) ==
    LET n == IF token[d] = 0 THEN attempts[d] + 1 ELSE token[d] IN
    /\ n <= maxAttempts[d]
    /\ status' = [status EXCEPT ![d] = "CLAIMED"]
    /\ attempts' = [attempts EXCEPT ![d] = n]
    /\ token' = [token EXCEPT ![d] = n]
    /\ expired' = [expired EXCEPT ![d] = FALSE]
    /\ attempt' = [attempt EXCEPT ![d][n] = "IN_PROGRESS"]
    /\ worker' = [worker EXCEPT ![w] = [pc |-> "attempt", delivery |-> d,
                                        token |-> n, outcome |-> "ok"]]
    /\ UNCHANGED <<maxAttempts, due>>

\* A new token for a new attempt; the attempt of an expired claim is abandoned.
claim_row(w, d) ==
    LET n == attempts[d] + 1 IN
    /\ n <= maxAttempts[d]
    /\ status' = [status EXCEPT ![d] = "CLAIMED"]
    /\ attempts' = [attempts EXCEPT ![d] = n]
    /\ token' = [token EXCEPT ![d] = n]
    /\ expired' = [expired EXCEPT ![d] = FALSE]
    /\ attempt' = [attempt EXCEPT ![d] = [m \in AttemptNumbers |->
                     CASE m = n -> "IN_PROGRESS"
                       [] m = token[d] /\ @[m] = "IN_PROGRESS" -> "ABANDONED"
                       [] OTHER -> @[m]]]
    /\ worker' = [worker EXCEPT ![w] = [pc |-> "attempt", delivery |-> d,
                                        token |-> n, outcome |-> "ok"]]
    /\ UNCHANGED <<maxAttempts, due>>

\* A message is taken, possibly to be delivered once more; a delivery that is
\* neither due nor abandoned, or has no attempt left, is skipped.
process_claimed_delivery(w, d) ==
    /\ worker[w].pc = "idle"
    /\ d \in tasks
    /\ \/ tasks' = tasks \ {d} /\ UNCHANGED faults
       \/ faults > 0 /\ faults' = faults - 1 /\ UNCHANGED tasks
    /\ \/ (due_eligible(d) \/ expired_claim_eligible(d)) /\ claim_row(w, d)
       \/ /\ \/ ~(due_eligible(d) \/ expired_claim_eligible(d))
             \/ attempts[d] >= maxAttempts[d]
          /\ UNCHANGED <<row, worker>>
    /\ UNCHANGED sent

-----------------------------------------------------------------------------
(* The attempt and its completion *)

\* The channel handler.  A disabled endpoint or a missing snapshot ends the
\* attempt without an external call, and so does an address of a webhook that
\* is refused or cannot be resolved now, which may be worth a retry.
handle_delivery_attempt(w) ==
    /\ worker[w].pc = "attempt"
    /\ \/ \E o \in Outcomes :
            /\ sent' = [sent EXCEPT ![worker[w].delivery][worker[w].token] = @ + 1]
            /\ worker' = [worker EXCEPT ![w].pc = "complete", ![w].outcome = o]
       \/ \E o \in Outcomes \ {"ok"} :
            /\ o = "retryable" => worker[w].delivery \in Webhooks
            /\ worker' = [worker EXCEPT ![w].pc = "complete", ![w].outcome = o]
            /\ UNCHANGED sent
    /\ UNCHANGED <<row, tasks, faults>>

\* Mutation: completion trusts the worker's memory.
active_claim_status_only(w) == status[worker[w].delivery] = "CLAIMED"

\* _assert_active_claim: the row is still claimed under this worker's token.
active_claim(w) ==
    LET d == worker[w].delivery IN status[d] = "CLAIMED" /\ token[d] = worker[w].token

\* _complete_active_attempt, and the claim fields cleared with it.
Complete(w, attemptStatus, next) ==
    LET d == worker[w].delivery IN
    /\ attempt' = [attempt EXCEPT ![d][worker[w].token] = attemptStatus]
    /\ status' = [status EXCEPT ![d] = next]
    /\ token' = [token EXCEPT ![d] = 0]
    /\ expired' = [expired EXCEPT ![d] = FALSE]
    /\ due' = [due EXCEPT ![d] = @ /\ next # "RETRY_SCHEDULED"]
    /\ UNCHANGED <<attempts, maxAttempts>>

Done(w) == worker' = [worker EXCEPT ![w] = IdleWorker]

complete_delivery_success(w) ==
    /\ worker[w].pc = "complete" /\ worker[w].outcome = "ok"
    /\ active_claim(w)
    /\ Complete(w, "SUCCEEDED", "DELIVERED")
    /\ Done(w)
    /\ UNCHANGED <<tasks, sent, faults>>

\* Mutation: the last attempt is rescheduled too.
RetryOrFail_always(w) == "RETRY_SCHEDULED"

\* FAILED when the attempts are used up, DEAD when retrying could not help.
RetryOrFail(w) ==
    LET d == worker[w].delivery
        retryable == worker[w].outcome = "retryable"
    IN  IF retryable /\ attempts[d] < maxAttempts[d] THEN "RETRY_SCHEDULED"
        ELSE IF retryable THEN "FAILED" ELSE "DEAD"

complete_delivery_failure(w) ==
    /\ worker[w].pc = "complete" /\ worker[w].outcome # "ok"
    /\ active_claim(w)
    /\ Complete(w, "FAILED", RetryOrFail(w))
    /\ Done(w)
    /\ UNCHANGED <<tasks, sent, faults>>

\* StaleClaimError: the delivery belongs to somebody else by now.
stale_claim(w) ==
    /\ worker[w].pc = "complete"
    /\ ~active_claim(w)
    /\ Done(w)
    /\ UNCHANGED <<row, tasks, sent, faults>>

-----------------------------------------------------------------------------
(* Redrive, sweeps, time and faults *)

\* Attempts are added; the numbering and the history go on.
redrive_webhook_delivery(d) ==
    /\ d \in Webhooks
    /\ status[d] \in Redrivable
    /\ maxAttempts[d] + RedriveAllowance <= AttemptCap
    /\ maxAttempts' = [maxAttempts EXCEPT ![d] = @ + RedriveAllowance]
    /\ status' = [status EXCEPT ![d] = "PENDING"]
    /\ due' = [due EXCEPT ![d] = TRUE]
    /\ Publish(d)
    /\ UNCHANGED <<attempts, expired, token, attempt, worker, sent>>

dispatch_due_deliveries(d) ==
    /\ due_eligible(d)
    /\ d \notin tasks
    /\ Publish(d)
    /\ UNCHANGED <<row, worker, sent>>

recover_expired_delivery_claims(d) ==
    /\ expired_claim_eligible(d)
    /\ d \notin tasks
    /\ Publish(d)
    /\ UNCHANGED <<row, worker, sent>>

RetryDue(d) ==
    /\ status[d] = "RETRY_SCHEDULED" /\ ~due[d]
    /\ due' = [due EXCEPT ![d] = TRUE]
    /\ UNCHANGED <<status, attempts, maxAttempts, expired, token, attempt, tasks,
                   worker, sent, faults>>

\* The lease runs out, on a dead worker or on one that is only slow.
LeaseExpires(d) ==
    /\ status[d] = "CLAIMED" /\ ~expired[d]
    /\ expired' = [expired EXCEPT ![d] = TRUE]
    /\ UNCHANGED <<status, attempts, maxAttempts, due, token, attempt, tasks,
                   worker, sent, faults>>

WorkerCrash(w) ==
    /\ worker[w].pc # "idle"
    /\ faults > 0
    /\ faults' = faults - 1
    /\ Done(w)
    /\ UNCHANGED <<row, tasks, sent>>

-----------------------------------------------------------------------------

WorkerStep(w) ==
    \/ handle_delivery_attempt(w)
    \/ complete_delivery_success(w)
    \/ complete_delivery_failure(w)
    \/ stale_claim(w)

Sweep(d) == dispatch_due_deliveries(d) \/ recover_expired_delivery_claims(d)
Time(d) == RetryDue(d) \/ LeaseExpires(d)

Next ==
    \/ \E w \in Workers : WorkerStep(w) \/ WorkerCrash(w)
    \/ \E w \in Workers, d \in Deliveries : process_claimed_delivery(w, d)
    \/ \E d \in Deliveries :
          \/ create_delivery(d)
          \/ redrive_webhook_delivery(d)
          \/ Sweep(d)
          \/ Time(d)

Spec == Init /\ [][Next]_vars

\* Workers keep running, the broker hands out what it holds, Beat keeps sweeping
\* and time passes.  Nobody has to redrive anything.
Fairness ==
    /\ \A w \in Workers : WF_vars(WorkerStep(w))
    /\ \A d \in Deliveries :
          /\ WF_vars(\E w \in Workers : process_claimed_delivery(w, d))
          /\ WF_vars(Sweep(d))
          /\ WF_vars(Time(d))

FairSpec == Spec /\ Fairness

-----------------------------------------------------------------------------
(* Properties *)

WorkerRecords ==
    [pc : {"idle", "attempt", "complete"}, delivery : Deliveries \cup {NoDelivery},
     token : 0..AttemptCap, outcome : Outcomes]

\* Every column and worker keeps its type; the database's check constraint
\* attempt_count <= max_attempts is never what stops a step.
TypeOK ==
    /\ status \in [Deliveries -> Statuses]
    /\ attempts \in [Deliveries -> 0..AttemptCap]
    /\ maxAttempts \in [Deliveries -> 0..AttemptCap]
    /\ due \in [Deliveries -> BOOLEAN]
    /\ expired \in [Deliveries -> BOOLEAN]
    /\ token \in [Deliveries -> 0..AttemptCap]
    /\ attempt \in [Deliveries -> [AttemptNumbers -> AttemptStatuses]]
    /\ tasks \subseteq Deliveries
    /\ worker \in [Workers -> WorkerRecords]
    /\ sent \in [Deliveries -> [AttemptNumbers -> Nat]]
    /\ faults \in 0..MaxFaults
    /\ \A d \in Deliveries : attempts[d] <= maxAttempts[d]

\* A claimed delivery has exactly one attempt in progress, the one its token was
\* issued for, and a delivery nobody claims has none: _complete_active_attempt
\* always finds the row it updates, however claims, expiries and late
\* completions interleave.
OneActiveAttempt ==
    \A d \in Deliveries : \A n \in AttemptNumbers :
        attempt[d][n] = "IN_PROGRESS" <=>
            status[d] = "CLAIMED" /\ token[d] = n /\ attempts[d] = n

\* The history agrees with the outcome: a delivery is DELIVERED exactly when its
\* last attempt succeeded, so a stale worker's late success is never recorded.
HistoryMatchesStatus ==
    \A d \in Deliveries : \A n \in AttemptNumbers :
        attempt[d][n] = "SUCCEEDED" <=> status[d] = "DELIVERED" /\ attempts[d] = n

\* At-least-once is bounded: every external call was paid for with an attempt
\* slot of its own, the calls of workers given up for dead included.
OneCallPerAttempt ==
    \A d \in Deliveries : \A n \in AttemptNumbers :
        /\ sent[d][n] <= 1
        /\ sent[d][n] = 1 => attempt[d][n] # "none"

\* A recorded attempt is never rewritten and DELIVERED is final: neither a late
\* worker nor a redrive changes what has been reported.
HistoryFrozen ==
    [][\A d \in Deliveries :
          /\ status[d] = "DELIVERED" => status'[d] = "DELIVERED"
          /\ \A n \in AttemptNumbers :
                attempt[d][n] \in AttemptEnded => attempt'[d][n] = attempt[d][n]]_vars

\* Every delivery ends, whatever is lost or crashes, unless the worker of its
\* last attempt dies: then the row stays claimed.
DeliveryProgress ==
    \A d \in Deliveries :
        status[d] = "PENDING" ~>
            \/ status[d] \in Terminal
            \/ status[d] = "CLAIMED" /\ expired[d] /\ attempts[d] = maxAttempts[d]
=============================================================================
