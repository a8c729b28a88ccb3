---------------------------- MODULE DeliveryProofs ----------------------------
(***************************************************************************)
(* The claim-token protocol of Delivery is correct for any number of       *)
(* deliveries, workers, attempts, redrives and faults; snapshots and       *)
(* producers on top of it implement Delivery, so that everything shown of  *)
(* the engine holds of them, and what is sent is sent once, for a known    *)
(* source.                                                                 *)
(***************************************************************************)
EXTENDS SnapshotDelivery, TLAPS

\* The token is the number of the last attempt while the row is claimed and
\* nothing otherwise; a row that does not exist has no attempts, and none is
\* recorded beyond attempt_count.
ClaimInv ==
    \A d \in Deliveries :
        /\ status[d] = "CLAIMED" => token[d] = attempts[d] /\ attempts[d] > 0
        /\ status[d] # "CLAIMED" => token[d] = 0
        /\ status[d] = "none" => attempts[d] = 0
        /\ \A n \in AttemptNumbers : n > attempts[d] => attempt[d][n] = "none"

\* What a busy worker remembers: the delivery and the attempt it was given.  It
\* shares that attempt with no other worker, and has not called anybody yet
\* while it is about to.
WorkerInv ==
    /\ \A w \in Workers : worker[w].pc # "idle" =>
          /\ worker[w].delivery \in Deliveries
          /\ worker[w].token \in AttemptNumbers
          /\ worker[w].token <= attempts[worker[w].delivery]
          /\ worker[w].pc = "attempt" => sent[worker[w].delivery][worker[w].token] = 0
    /\ \A v, w \in Workers :
          /\ v # w /\ worker[v].pc # "idle" /\ worker[w].pc # "idle"
          /\ worker[v].delivery = worker[w].delivery
          => worker[v].token # worker[w].token

\* Calls are made for attempts that exist, and at most once.
CallInv ==
    \A d \in Deliveries : \A n \in AttemptNumbers :
        /\ sent[d][n] <= 1
        /\ n > attempts[d] => sent[d][n] = 0
        /\ n <= attempts[d] => attempt[d][n] # "none"

IInv == TypeOK /\ ClaimInv /\ OneActiveAttempt /\ HistoryMatchesStatus
               /\ WorkerInv /\ CallInv

\* The bound on attempts is a number no smaller than the initial allowance.
LEMMA CapIsNat == AttemptCap \in Nat /\ MaxAttempts <= AttemptCap
<1>1. MaxRedrives * RedriveAllowance \in Nat
  BY DeliveryAssumption
<1> QED
  BY <1>1, DeliveryAssumption DEF AttemptCap

\* The invariant holds of the empty database.
LEMMA InitInv == Init => IInv
<1> SUFFICES ASSUME Init PROVE IInv
  OBVIOUS
<1> USE CapIsNat, DeliveryAssumption DEF Init, IdleWorker, AttemptNumbers
<1>1. TypeOK
  BY DEF TypeOK, Statuses, AttemptStatuses, WorkerRecords, Outcomes
<1>2. ClaimInv /\ OneActiveAttempt /\ HistoryMatchesStatus
  BY DEF ClaimInv, OneActiveAttempt, HistoryMatchesStatus
<1>3. WorkerInv /\ CallInv
  BY DEF WorkerInv, CallInv
<1> QED
  BY <1>1, <1>2, <1>3 DEF IInv

\* A claim moves the token on, so no worker that had the delivery before can
\* complete it, and opens the one attempt in progress.
LEMMA ClaimStep ==
    ASSUME IInv, NEW w \in Workers, NEW d \in Deliveries,
           process_claimed_delivery(w, d), claim_row(w, d),
           due_eligible(d) \/ expired_claim_eligible(d)
    PROVE  IInv'
<1> DEFINE n == attempts[d] + 1
<1> USE CapIsNat DEF IInv
<1>1. /\ n \in AttemptNumbers /\ n <= maxAttempts[d] /\ token[d] \in 0..attempts[d]
      /\ status[d] # "DELIVERED" /\ attempts[d] \in Nat
  BY DEF TypeOK, ClaimInv, AttemptNumbers, due_eligible, expired_claim_eligible,
         DueClaimable, claim_row
<1>2. /\ attempt'[d][n] = "IN_PROGRESS"
      /\ \A m \in AttemptNumbers : m # n =>
            attempt'[d][m] = IF m = token[d] /\ attempt[d][m] = "IN_PROGRESS"
                             THEN "ABANDONED" ELSE attempt[d][m]
      /\ \A e \in Deliveries : e # d => attempt'[e] = attempt[e]
  BY <1>1 DEF TypeOK, claim_row
<1>3. /\ status'[d] = "CLAIMED" /\ attempts'[d] = n /\ token'[d] = n
      /\ \A e \in Deliveries : e # d =>
            status'[e] = status[e] /\ attempts'[e] = attempts[e] /\ token'[e] = token[e]
      /\ sent' = sent /\ worker'[w] = [pc |-> "attempt", delivery |-> d,
                                       token |-> n, outcome |-> "ok"]
      /\ \A v \in Workers : v # w => worker'[v] = worker[v]
      /\ maxAttempts' = maxAttempts
  BY DEF TypeOK, claim_row, process_claimed_delivery
<1>4. TypeOK'
  <2>1. attempt' \in [Deliveries -> [AttemptNumbers -> AttemptStatuses]]
    BY DEF TypeOK, AttemptStatuses, AttemptEnded, claim_row
  <2>2. worker' \in [Workers -> WorkerRecords]
    BY <1>1 DEF TypeOK, WorkerRecords, Outcomes, AttemptNumbers, claim_row
  <2>3. /\ attempts' \in [Deliveries -> 0..AttemptCap]
        /\ token' \in [Deliveries -> 0..AttemptCap]
        /\ \A e \in Deliveries : attempts'[e] <= maxAttempts'[e]
    BY <1>1 DEF TypeOK, AttemptNumbers, claim_row
  <2>4. /\ status' \in [Deliveries -> Statuses] /\ expired' \in [Deliveries -> BOOLEAN]
        /\ tasks' \subseteq Deliveries /\ faults' \in 0..MaxFaults
    BY DeliveryAssumption DEF TypeOK, Statuses, claim_row, process_claimed_delivery
  <2> QED
    BY <2>1, <2>2, <2>3, <2>4 DEF TypeOK, claim_row, process_claimed_delivery
<1>5. ClaimInv'
  <2> SUFFICES ASSUME NEW e \in Deliveries
               PROVE  /\ status'[e] = "CLAIMED" => token'[e] = attempts'[e] /\ attempts'[e] > 0
                      /\ status'[e] # "CLAIMED" => token'[e] = 0
                      /\ status'[e] = "none" => attempts'[e] = 0
                      /\ \A m \in AttemptNumbers : m > attempts'[e] => attempt'[e][m] = "none"
    BY DEF ClaimInv
  <2>1. CASE e = d
    BY <1>1, <1>2, <1>3, <2>1 DEF ClaimInv, AttemptNumbers
  <2>2. CASE e # d
    BY <1>2, <1>3, <2>2 DEF ClaimInv
  <2> QED
    BY <2>1, <2>2
<1>6. OneActiveAttempt'
  <2> SUFFICES ASSUME NEW e \in Deliveries, NEW m \in AttemptNumbers
               PROVE  attempt'[e][m] = "IN_PROGRESS" <=>
                        status'[e] = "CLAIMED" /\ token'[e] = m /\ attempts'[e] = m
    BY DEF OneActiveAttempt
  <2>1. CASE e = d
    BY <1>1, <1>2, <1>3, <2>1 DEF OneActiveAttempt
  <2>2. CASE e # d
    BY <1>2, <1>3, <2>2 DEF OneActiveAttempt
  <2> QED
    BY <2>1, <2>2
<1>7. HistoryMatchesStatus'
  <2> SUFFICES ASSUME NEW e \in Deliveries, NEW m \in AttemptNumbers
               PROVE  attempt'[e][m] = "SUCCEEDED" <=>
                        status'[e] = "DELIVERED" /\ attempts'[e] = m
    BY DEF HistoryMatchesStatus
  <2>1. CASE e = d
    BY <1>1, <1>2, <1>3, <2>1 DEF HistoryMatchesStatus
  <2>2. CASE e # d
    BY <1>2, <1>3, <2>2 DEF HistoryMatchesStatus
  <2> QED
    BY <2>1, <2>2
<1>8. WorkerInv'
  <2>1. /\ \A v \in Workers : v # w => worker'[v] = worker[v]
        /\ \A e \in Deliveries : attempts'[e] >= attempts[e]
    BY <1>1, <1>3 DEF TypeOK
  <2>2. ASSUME NEW v \in Workers, worker'[v].pc # "idle"
        PROVE  /\ worker'[v].delivery \in Deliveries
               /\ worker'[v].token \in AttemptNumbers
               /\ worker'[v].token <= attempts'[worker'[v].delivery]
               /\ worker'[v].pc = "attempt" => sent'[worker'[v].delivery][worker'[v].token] = 0
    <3>1. CASE v = w
      <4>1. n > attempts[d] /\ n <= n
        BY <1>1 DEF AttemptNumbers
      <4>2. sent[d][n] = 0
        BY <1>1, <4>1 DEF CallInv
      <4> QED
        BY <1>1, <1>3, <3>1, <4>1, <4>2
    <3>2. CASE v # w
      <4> DEFINE e == worker[v].delivery
      <4>1. /\ worker'[v] = worker[v] /\ e \in Deliveries
            /\ worker[v].token \in AttemptNumbers /\ worker[v].token <= attempts[e]
            /\ worker[v].pc = "attempt" => sent[e][worker[v].token] = 0
        BY <2>1, <2>2, <3>2 DEF WorkerInv
      <4>2. attempts[e] <= attempts'[e] /\ attempts[e] \in Nat /\ attempts'[e] \in Nat
        BY <1>4, <2>1, <4>1 DEF TypeOK
      <4>3. worker[v].token <= attempts'[e]
        BY <4>1, <4>2 DEF AttemptNumbers
      <4> QED
        BY <1>3, <4>1, <4>3
    <3> QED
      BY <3>1, <3>2
  <2>3. ASSUME NEW u \in Workers, NEW v \in Workers, u # v,
               worker'[u].pc # "idle", worker'[v].pc # "idle",
               worker'[u].delivery = worker'[v].delivery
        PROVE  worker'[u].token # worker'[v].token
    BY <1>1, <1>3, <2>3 DEF WorkerInv, AttemptNumbers
  <2> QED
    BY <2>2, <2>3 DEF WorkerInv
<1>9. CallInv'
  <2> SUFFICES ASSUME NEW e \in Deliveries, NEW m \in AttemptNumbers
               PROVE  /\ sent'[e][m] <= 1
                      /\ m > attempts'[e] => sent'[e][m] = 0
                      /\ m <= attempts'[e] => attempt'[e][m] # "none"
    BY DEF CallInv
  <2>1. CASE e = d
    BY <1>1, <1>2, <1>3, <2>1 DEF CallInv, AttemptNumbers
  <2>2. CASE e # d
    BY <1>2, <1>3, <2>2 DEF CallInv
  <2> QED
    BY <2>1, <2>2
<1> QED
  BY <1>4, <1>5, <1>6, <1>7, <1>8, <1>9

\* A completion by the holder of the token closes the one open attempt and
\* clears the claim with it.
LEMMA CompleteStep ==
    ASSUME IInv, NEW w \in Workers, worker[w].pc = "complete", active_claim(w),
           NEW a, NEW next, Complete(w, a, next), Done(w),
           UNCHANGED <<tasks, sent, faults>>,
           \/ a = "SUCCEEDED" /\ next = "DELIVERED"
           \/ a = "FAILED" /\ next \in {"RETRY_SCHEDULED", "FAILED", "DEAD"}
    PROVE  IInv'
<1> DEFINE d == worker[w].delivery
           n == worker[w].token
<1> USE CapIsNat DEF IInv
<1>1. /\ d \in Deliveries /\ n \in AttemptNumbers /\ status[d] = "CLAIMED"
      /\ token[d] = n /\ attempts[d] = n
  BY DEF WorkerInv, ClaimInv, active_claim
<1>2. /\ status'[d] = next /\ token'[d] = 0
      /\ attempt'[d][n] = a
      /\ \A m \in AttemptNumbers : m # n => attempt'[d][m] = attempt[d][m]
      /\ \A e \in Deliveries : e # d =>
            status'[e] = status[e] /\ token'[e] = token[e] /\ attempt'[e] = attempt[e]
      /\ attempts' = attempts /\ maxAttempts' = maxAttempts /\ sent' = sent
      /\ worker'[w].pc = "idle"
      /\ \A v \in Workers : v # w => worker'[v] = worker[v]
  BY <1>1 DEF TypeOK, Complete, Done, IdleWorker
<1>3. TypeOK'
  <2>1. attempt' \in [Deliveries -> [AttemptNumbers -> AttemptStatuses]]
    BY <1>1 DEF TypeOK, AttemptStatuses, AttemptEnded, Complete
  <2>2. worker' \in [Workers -> WorkerRecords]
    BY DEF TypeOK, WorkerRecords, Outcomes, Done, IdleWorker
  <2>3. status' \in [Deliveries -> Statuses]
    <3>1. next \in Statuses
      BY DEF Statuses, DueClaimable, Terminal, Redrivable
    <3> QED
      BY <3>1 DEF TypeOK, Complete
  <2>5. /\ token' \in [Deliveries -> 0..AttemptCap]
        /\ expired' \in [Deliveries -> BOOLEAN]
    <3>1. /\ token' = [token EXCEPT ![d] = 0]
          /\ expired' = [expired EXCEPT ![d] = FALSE]
      BY DEF Complete
    <3>2. 0 \in 0..AttemptCap
      OBVIOUS
    <3> QED
      BY <3>1, <3>2 DEF TypeOK
  <2>4. due' \in [Deliveries -> BOOLEAN]
    BY DEF TypeOK, Complete
  <2> QED
    BY <2>1, <2>2, <2>3, <2>4, <2>5 DEF TypeOK, Complete
<1>4. ClaimInv'
  <2> SUFFICES ASSUME NEW e \in Deliveries
               PROVE  /\ status'[e] = "CLAIMED" => token'[e] = attempts'[e] /\ attempts'[e] > 0
                      /\ status'[e] # "CLAIMED" => token'[e] = 0
                      /\ status'[e] = "none" => attempts'[e] = 0
                      /\ \A m \in AttemptNumbers : m > attempts'[e] => attempt'[e][m] = "none"
    BY DEF ClaimInv
  <2>1. CASE e = d
    BY <1>1, <1>2, <2>1 DEF ClaimInv, AttemptNumbers
  <2>2. CASE e # d
    BY <1>2, <2>2 DEF ClaimInv
  <2> QED
    BY <2>1, <2>2
<1>5. OneActiveAttempt'
  <2> SUFFICES ASSUME NEW e \in Deliveries, NEW m \in AttemptNumbers
               PROVE  attempt'[e][m] = "IN_PROGRESS" <=>
                        status'[e] = "CLAIMED" /\ token'[e] = m /\ attempts'[e] = m
    BY DEF OneActiveAttempt
  <2>1. CASE e = d
    BY <1>1, <1>2, <2>1 DEF OneActiveAttempt
  <2>2. CASE e # d
    BY <1>2, <2>2 DEF OneActiveAttempt
  <2> QED
    BY <2>1, <2>2
<1>6. HistoryMatchesStatus'
  <2> SUFFICES ASSUME NEW e \in Deliveries, NEW m \in AttemptNumbers
               PROVE  attempt'[e][m] = "SUCCEEDED" <=>
                        status'[e] = "DELIVERED" /\ attempts'[e] = m
    BY DEF HistoryMatchesStatus
  <2>1. CASE e = d
    BY <1>1, <1>2, <2>1 DEF HistoryMatchesStatus
  <2>2. CASE e # d
    BY <1>2, <2>2 DEF HistoryMatchesStatus
  <2> QED
    BY <2>1, <2>2
<1>7. WorkerInv'
  BY <1>2 DEF WorkerInv
<1>8. CallInv'
  <2> SUFFICES ASSUME NEW e \in Deliveries, NEW m \in AttemptNumbers
               PROVE  /\ sent'[e][m] <= 1
                      /\ m > attempts'[e] => sent'[e][m] = 0
                      /\ m <= attempts'[e] => attempt'[e][m] # "none"
    BY DEF CallInv
  <2>1. CASE e = d
    BY <1>1, <1>2, <2>1 DEF CallInv
  <2>2. CASE e # d
    BY <1>2, <2>2 DEF CallInv
  <2> QED
    BY <2>1, <2>2
<1> QED
  BY <1>3, <1>4, <1>5, <1>6, <1>7, <1>8

\* The external call: the one worker that holds the attempt makes it once.
LEMMA AttemptStep ==
    ASSUME IInv, NEW w \in Workers, handle_delivery_attempt(w)
    PROVE  IInv'
<1> DEFINE d == worker[w].delivery
           n == worker[w].token
<1> USE CapIsNat DEF IInv
<1>1. /\ d \in Deliveries /\ n \in AttemptNumbers /\ n <= attempts[d]
      /\ sent[d][n] = 0 /\ worker[w].pc = "attempt"
  BY DEF WorkerInv, handle_delivery_attempt
<1>2. /\ worker'[w].pc = "complete" /\ worker'[w].delivery = d /\ worker'[w].token = n
      /\ \A v \in Workers : v # w => worker'[v] = worker[v]
      /\ UNCHANGED row
  BY DEF TypeOK, WorkerRecords, handle_delivery_attempt
<1>3. /\ sent'[d][n] \in {0, 1}
      /\ \A e \in Deliveries, m \in AttemptNumbers :
            <<e, m>> # <<d, n>> => sent'[e][m] = sent[e][m]
  <2>1. sent' = [sent EXCEPT ![d][n] = @ + 1] \/ sent' = sent
    BY DEF handle_delivery_attempt
  <2>2. CASE sent' = sent
    BY <1>1, <2>2
  <2>3. CASE sent' = [sent EXCEPT ![d][n] = @ + 1]
    <3>1. sent[d] \in [AttemptNumbers -> Nat] /\ sent'[d] = [sent[d] EXCEPT ![n] = @ + 1]
      BY <1>1, <2>3 DEF TypeOK
    <3>2. sent'[d][n] = sent[d][n] + 1
      BY <1>1, <3>1
    <3>3. \A m \in AttemptNumbers : m # n => sent'[d][m] = sent[d][m]
      BY <1>1, <3>1
    <3>4. \A e \in Deliveries : e # d => sent'[e] = sent[e]
      BY <1>1, <2>3 DEF TypeOK
    <3> QED
      BY <1>1, <3>2, <3>3, <3>4
  <2> QED
    BY <2>1, <2>2, <2>3
<1>4. TypeOK'
  <2>1. worker' \in [Workers -> WorkerRecords]
    <3>1. \E o \in Outcomes :
             worker' = [worker EXCEPT ![w] = [@ EXCEPT !.pc = "complete", !.outcome = o]]
      BY DEF handle_delivery_attempt, Outcomes
    <3>2. PICK o \in Outcomes :
             worker' = [worker EXCEPT ![w] = [@ EXCEPT !.pc = "complete", !.outcome = o]]
      BY <3>1
    <3>3. worker \in [Workers -> WorkerRecords]
      BY DEF TypeOK
    <3>4. [worker[w] EXCEPT !.pc = "complete", !.outcome = o] \in WorkerRecords
      BY <3>3 DEF WorkerRecords
    <3> QED
      BY <3>2, <3>3, <3>4
  <2>2. sent' \in [Deliveries -> [AttemptNumbers -> Nat]]
    <3>1. sent' = [sent EXCEPT ![d][n] = @ + 1] \/ sent' = sent
      BY DEF handle_delivery_attempt
    <3>2. [sent[d] EXCEPT ![n] = @ + 1] \in [AttemptNumbers -> Nat]
      BY <1>1 DEF TypeOK
    <3>3. CASE sent' = sent
      BY <3>3 DEF TypeOK
    <3>4. CASE sent' = [sent EXCEPT ![d][n] = @ + 1]
      <4> DEFINE f == [sent[d] EXCEPT ![n] = @ + 1]
      <4>1. sent' = [sent EXCEPT ![d] = f]
        BY <3>4, <1>1 DEF TypeOK
      <4>2. f \in [AttemptNumbers -> Nat]
        BY <3>2
      <4> HIDE DEF f
      <4> QED
        BY <4>1, <4>2 DEF TypeOK
    <3> QED
      BY <3>1, <3>3, <3>4
  <2> QED
    BY <2>1, <2>2, <1>2 DEF TypeOK, handle_delivery_attempt, row
<1>5. ClaimInv' /\ OneActiveAttempt' /\ HistoryMatchesStatus'
  BY <1>2 DEF ClaimInv, OneActiveAttempt, HistoryMatchesStatus, row
<1>6. WorkerInv'
  <2>1. ASSUME NEW v \in Workers, worker'[v].pc # "idle"
        PROVE  /\ worker'[v].delivery \in Deliveries
               /\ worker'[v].token \in AttemptNumbers
               /\ worker'[v].token <= attempts'[worker'[v].delivery]
               /\ worker'[v].pc = "attempt" => sent'[worker'[v].delivery][worker'[v].token] = 0
    <3>1. CASE v = w
      BY <1>1, <1>2, <3>1 DEF row
    <3>2. CASE v # w
      BY <1>1, <1>2, <1>3, <2>1, <3>2 DEF WorkerInv, row
    <3> QED
      BY <3>1, <3>2
  <2>2. ASSUME NEW u \in Workers, NEW v \in Workers, u # v,
               worker'[u].pc # "idle", worker'[v].pc # "idle",
               worker'[u].delivery = worker'[v].delivery
        PROVE  worker'[u].token # worker'[v].token
    BY <1>1, <1>2, <2>2 DEF WorkerInv
  <2> QED
    BY <2>1, <2>2 DEF WorkerInv
<1>7. CallInv'
  <2> SUFFICES ASSUME NEW e \in Deliveries, NEW m \in AttemptNumbers
               PROVE  /\ sent'[e][m] <= 1
                      /\ m > attempts'[e] => sent'[e][m] = 0
                      /\ m <= attempts'[e] => attempt'[e][m] # "none"
    BY DEF CallInv
  <2>1. CASE <<e, m>> = <<d, n>>
    <3>1. ~(n > attempts[d])
      BY <1>1 DEF TypeOK, AttemptNumbers
    <3> QED
      BY <1>1, <1>2, <1>3, <2>1, <3>1 DEF CallInv, row
  <2>2. CASE <<e, m>> # <<d, n>>
    BY <1>2, <1>3, <2>2 DEF CallInv, row
  <2> QED
    BY <2>1, <2>2
<1> QED
  BY <1>4, <1>5, <1>6, <1>7

\* Any other step leaves the tokens and the history alone.
LEMMA QuietStep ==
    ASSUME IInv, TypeOK', UNCHANGED <<attempts, token, attempt, sent>>,
           worker' = worker \/ \E w \in Workers : Done(w),
           \A d \in Deliveries :
              \/ status'[d] = status[d]
              \/ /\ status[d] \notin {"CLAIMED", "DELIVERED"}
                 /\ status'[d] \notin {"none", "CLAIMED", "DELIVERED"}
    PROVE  IInv'
<1>1. \A w \in Workers : worker'[w] = worker[w] \/ worker'[w].pc = "idle"
  BY DEF IInv, TypeOK, Done, IdleWorker
<1>2. ClaimInv' /\ OneActiveAttempt' /\ HistoryMatchesStatus' /\ CallInv'
  BY DEF IInv, ClaimInv, OneActiveAttempt, HistoryMatchesStatus, CallInv
<1>3. WorkerInv'
  BY <1>1 DEF IInv, WorkerInv
<1> QED
  BY <1>2, <1>3 DEF IInv

\* Publishing loses the message or keeps it; either way the types hold.
LEMMA PublishType ==
    ASSUME TypeOK, NEW d \in Deliveries, Publish(d)
    PROVE  tasks' \subseteq Deliveries /\ faults' \in 0..MaxFaults
BY DeliveryAssumption DEF TypeOK, Publish

\* Every step preserves the invariant.
LEMMA NextInv == IInv /\ [Next]_vars => IInv'
<1> SUFFICES ASSUME IInv, [Next]_vars PROVE IInv'
  OBVIOUS
<1> USE CapIsNat
<1>1. ASSUME NEW w \in Workers, complete_delivery_success(w) PROVE IInv'
  BY <1>1, CompleteStep DEF complete_delivery_success
<1>2. ASSUME NEW w \in Workers, complete_delivery_failure(w) PROVE IInv'
  <2>1. RetryOrFail(w) \in {"RETRY_SCHEDULED", "FAILED", "DEAD"}
    BY DEF RetryOrFail
  <2> QED
    BY <1>2, <2>1, CompleteStep DEF complete_delivery_failure
<1>3. ASSUME NEW w \in Workers, stale_claim(w) \/ WorkerCrash(w) PROVE IInv'
  <2>1. Done(w) /\ UNCHANGED <<row, tasks, sent>> /\ faults' \in 0..MaxFaults
    BY <1>3, DeliveryAssumption DEF IInv, TypeOK, stale_claim, WorkerCrash
  <2>2. TypeOK'
    BY <2>1 DEF IInv, TypeOK, row, Done, IdleWorker, WorkerRecords, Outcomes
  <2> QED
    BY <2>1, <2>2, QuietStep DEF row
<1>4. ASSUME NEW w \in Workers, NEW d \in Deliveries, process_claimed_delivery(w, d)
      PROVE  IInv'
  <2>1. CASE (due_eligible(d) \/ expired_claim_eligible(d)) /\ claim_row(w, d)
    BY <1>4, <2>1, ClaimStep
  <2>2. CASE UNCHANGED <<row, worker>>
    <3>1. TypeOK'
      BY <1>4, <2>2, DeliveryAssumption DEF IInv, TypeOK, row, process_claimed_delivery
    <3> QED
      BY <1>4, <2>2, <3>1, QuietStep DEF row, process_claimed_delivery
  <2> QED
    BY <1>4, <2>1, <2>2 DEF process_claimed_delivery
<1>5. ASSUME NEW d \in Deliveries, create_delivery(d) PROVE IInv'
  <2>1. TypeOK'
    <3>1. /\ maxAttempts' \in [Deliveries -> 0..AttemptCap]
          /\ \A e \in Deliveries : attempts'[e] <= maxAttempts'[e]
      BY <1>5, DeliveryAssumption DEF IInv, TypeOK, create_delivery, ClaimInv
    <3>2. status' \in [Deliveries -> Statuses] /\ due' \in [Deliveries -> BOOLEAN]
      BY <1>5 DEF IInv, TypeOK, create_delivery, Statuses, DueClaimable
    <3> QED
      BY <1>5, <3>1, <3>2, PublishType DEF IInv, TypeOK, create_delivery
  <2>2. \A e \in Deliveries :
           \/ status'[e] = status[e]
           \/ status[e] = "none" /\ status'[e] = "PENDING"
    BY <1>5 DEF IInv, TypeOK, create_delivery
  <2> QED
    BY <1>5, <2>1, <2>2, QuietStep DEF create_delivery
<1>6. ASSUME NEW d \in Deliveries, redrive_webhook_delivery(d) PROVE IInv'
  <2>1. TypeOK'
    <3>1. /\ maxAttempts' \in [Deliveries -> 0..AttemptCap]
          /\ \A e \in Deliveries : attempts'[e] <= maxAttempts'[e]
      BY <1>6, DeliveryAssumption DEF IInv, TypeOK, redrive_webhook_delivery
    <3>2. status' \in [Deliveries -> Statuses] /\ due' \in [Deliveries -> BOOLEAN]
      BY <1>6 DEF IInv, TypeOK, redrive_webhook_delivery, Statuses, DueClaimable
    <3> QED
      BY <1>6, <3>1, <3>2, PublishType DEF IInv, TypeOK, redrive_webhook_delivery
  <2>2. \A e \in Deliveries :
           \/ status'[e] = status[e]
           \/ status[e] \in {"FAILED", "DEAD"} /\ status'[e] = "PENDING"
    BY <1>6 DEF IInv, TypeOK, redrive_webhook_delivery, Redrivable
  <2> QED
    BY <1>6, <2>1, <2>2, QuietStep DEF redrive_webhook_delivery
<1>7. ASSUME NEW d \in Deliveries, Sweep(d) PROVE IInv'
  <2>1. Publish(d) /\ UNCHANGED <<row, worker, sent>>
    BY <1>7 DEF Sweep, dispatch_due_deliveries, recover_expired_delivery_claims
  <2>2. TypeOK'
    BY <2>1, PublishType DEF IInv, TypeOK, row
  <2> QED
    BY <2>1, <2>2, QuietStep DEF row
<1>8. ASSUME NEW d \in Deliveries, Time(d) PROVE IInv'
  <2>1. TypeOK'
    BY <1>8 DEF IInv, TypeOK, Time, RetryDue, LeaseExpires
  <2> QED
    BY <1>8, <2>1, QuietStep DEF Time, RetryDue, LeaseExpires
<1>9. CASE UNCHANGED vars
  <2>1. TypeOK'
    BY <1>9 DEF IInv, TypeOK, vars
  <2> QED
    BY <1>9, <2>1, QuietStep DEF vars
<1> QED
  BY <1>1, <1>2, <1>3, <1>4, <1>5, <1>6, <1>7, <1>8, <1>9, AttemptStep
     DEF Next, WorkerStep

\* The claim-token protocol is correct: however claims, expiring leases, late
\* workers, crashes and redrives interleave, the attempts and the delivery row
\* agree and each attempt makes at most one external call.
THEOREM DeliverySafety ==
    Spec => [](TypeOK /\ OneActiveAttempt /\ HistoryMatchesStatus /\ OneCallPerAttempt)
<1>1. IInv => TypeOK /\ OneActiveAttempt /\ HistoryMatchesStatus /\ OneCallPerAttempt
  <2>1. ASSUME IInv PROVE OneCallPerAttempt
    <3> SUFFICES ASSUME NEW d \in Deliveries, NEW n \in AttemptNumbers
                 PROVE  sent[d][n] <= 1 /\ (sent[d][n] = 1 => attempt[d][n] # "none")
      BY DEF OneCallPerAttempt
    <3>1. n > attempts[d] \/ n <= attempts[d]
      BY <2>1 DEF IInv, TypeOK, AttemptNumbers
    <3> QED
      BY <2>1, <3>1 DEF IInv, CallInv
  <2> QED
    BY <2>1 DEF IInv
<1> QED
  BY <1>1, InitInv, NextInv, PTL DEF Spec

\* However leases expire and workers come back late, every external call was made
\* under an attempt of its own.
THEOREM CallsArePaid == Spec => []OneCallPerAttempt
BY DeliverySafety, PTL

\* What has been reported stays: no attempt is rewritten and DELIVERED is final.
THEOREM HistoryIsFrozen == Spec => HistoryFrozen
<1> DEFINE Frozen ==
      \A d \in Deliveries :
          /\ status[d] = "DELIVERED" => status'[d] = "DELIVERED"
          /\ \A n \in AttemptNumbers :
                attempt[d][n] \in AttemptEnded => attempt'[d][n] = attempt[d][n]
<1>1. IInv /\ [Next]_vars => [Frozen]_vars
  <2> SUFFICES ASSUME IInv, [Next]_vars PROVE Frozen
    OBVIOUS
  <2>1. ASSUME NEW w \in Workers, worker[w].pc = "complete", active_claim(w),
               NEW a, NEW next, Complete(w, a, next)
        PROVE  Frozen
    <3> DEFINE e == worker[w].delivery
    <3>1. /\ e \in Deliveries /\ status[e] = "CLAIMED" /\ token[e] = attempts[e]
          /\ worker[w].token = token[e] /\ worker[w].token \in AttemptNumbers
      BY <2>1 DEF IInv, WorkerInv, ClaimInv, active_claim
    <3>2. attempt[e][worker[w].token] = "IN_PROGRESS"
      BY <3>1 DEF IInv, OneActiveAttempt
    <3>3. /\ \A d \in Deliveries : d # e => status'[d] = status[d] /\ attempt'[d] = attempt[d]
          /\ \A m \in AttemptNumbers : m # worker[w].token => attempt'[e][m] = attempt[e][m]
      BY <2>1, <3>1 DEF IInv, TypeOK, Complete
    <3> QED
      BY <3>1, <3>2, <3>3 DEF AttemptEnded
  <2>2. ASSUME NEW w \in Workers, NEW e \in Deliveries, claim_row(w, e),
               due_eligible(e) \/ expired_claim_eligible(e)
        PROVE  Frozen
    <3>1. /\ status[e] # "DELIVERED"
          /\ attempts[e] + 1 \in AttemptNumbers /\ attempts[e] \in Nat
      BY <2>2, CapIsNat DEF IInv, TypeOK, claim_row, due_eligible, expired_claim_eligible,
                            DueClaimable, AttemptNumbers
    <3>2. attempt[e][attempts[e] + 1] = "none"
      BY <3>1 DEF IInv, ClaimInv
    <3>3. /\ \A d \in Deliveries : d # e => status'[d] = status[d] /\ attempt'[d] = attempt[d]
          /\ \A m \in AttemptNumbers :
                m # attempts[e] + 1 /\ attempt[e][m] # "IN_PROGRESS"
                => attempt'[e][m] = attempt[e][m]
      BY <2>2, <3>1 DEF IInv, TypeOK, claim_row
    <3> QED
      BY <3>1, <3>2, <3>3 DEF AttemptEnded
  <2>3. ASSUME UNCHANGED <<status, attempt>> PROVE Frozen
    BY <2>3
  <2>4. ASSUME NEW e \in Deliveries, create_delivery(e) \/ redrive_webhook_delivery(e)
        PROVE  Frozen
    BY <2>4 DEF IInv, TypeOK, create_delivery, redrive_webhook_delivery, Redrivable
  <2> QED
    BY <2>1, <2>2, <2>3, <2>4
       DEF Next, vars, row, WorkerStep, handle_delivery_attempt, complete_delivery_success,
           complete_delivery_failure, stale_claim, WorkerCrash, process_claimed_delivery,
           Sweep, dispatch_due_deliveries, recover_expired_delivery_claims, Time, RetryDue,
           LeaseExpires
<1> QED
  BY <1>1, InitInv, NextInv, PTL DEF Spec, HistoryFrozen

-------------------------------------------------------------------------------
(***************************************************************************)
(* Snapshots and producers.                                                *)
(***************************************************************************)

\* Every step of the composition is a step of the engine, or leaves it alone.
LEMMA StepsAreDeliverySteps == [SnapshotNext]_allVars => [Next]_vars
<1> SUFFICES ASSUME [SnapshotNext]_allVars PROVE [Next]_vars
  OBVIOUS
<1>1. ASSUME NEW p \in Producers, ProducerStep(p) \/ ProducerCrash(p) PROVE [Next]_vars
  <2>1. CASE \E s \in Sources : create_or_reuse(p, s)
    BY <2>1 DEF create_or_reuse
  <2>2. CASE \E d \in Deliveries : create_for_source(p, d)
    BY <2>2 DEF create_for_source, Next
  <2>3. CASE create_snapshot(p) \/ ProducerCrash(p)
    BY <2>3 DEF create_snapshot, ProducerCrash
  <2> QED
    BY <1>1, <2>1, <2>2, <2>3 DEF ProducerStep
<1>2. ASSUME NEW w \in Workers,
             handle_snapshot_attempt(w) \/ EngineStep(w) \/ EngineCrash(w)
      PROVE  [Next]_vars
  BY <1>2 DEF handle_snapshot_attempt, EngineStep, EngineCrash, Next, WorkerStep
<1>3. ASSUME NEW w \in Workers, NEW d \in Deliveries, EngineTake(w, d) PROVE [Next]_vars
  BY <1>3 DEF EngineTake, Next
<1>4. ASSUME NEW d \in Deliveries, EngineSweep(d) \/ EngineTime(d) PROVE [Next]_vars
  BY <1>4 DEF EngineSweep, EngineTime, Next
<1>5. CASE UNCHANGED allVars
  BY <1>5 DEF allVars
<1> QED
  BY <1>1, <1>2, <1>3, <1>4, <1>5 DEF SnapshotNext

-----------------------------------------------------------------------------
(* Once, and for a known source *)

\* No source has two snapshots, no provider call lacks one, a worker that is
\* about to report success has made its call, and what is DELIVERED was sent.
SendInv ==
    /\ \A c, d \in Deliveries : snapshot[c] = snapshot[d] /\ snapshot[c] # NoSource => c = d
    /\ \A d \in Deliveries : \A n \in AttemptNumbers :
          sent[d][n] > 0 => snapshot[d] # NoSource
    /\ \A w \in Workers : worker[w].pc = "complete" /\ worker[w].outcome = "ok" =>
          sent[worker[w].delivery][worker[w].token] = 1
    /\ \A d \in Deliveries : status[d] = "DELIVERED" => attempts[d] \in AttemptNumbers
    /\ DeliveredWasSent

\* A producer past its first step has a source, and one about to write the
\* snapshot has a delivery.
ProducerInv ==
    \A p \in Producers :
        /\ producer[p].pc \in {"delivery", "snapshot"} => producer[p].source \in Sources
        /\ producer[p].pc = "snapshot" => producer[p].delivery \in Deliveries

SInv == IInv /\ SnapshotTypeOK /\ ProducerInv /\ SendInv

\* The invariant holds before anything has been produced.
LEMMA SInit == SnapshotInit => SInv
<1> SUFFICES ASSUME SnapshotInit PROVE SInv
  OBVIOUS
<1>1. IInv
  BY InitInv DEF SnapshotInit
<1>2. SnapshotTypeOK /\ ProducerInv
  BY CapIsNat DEF SnapshotInit, NewProducer, SnapshotTypeOK, ProducerInv
<1>3. SendInv
  BY CapIsNat DEF SnapshotInit, Init, IdleWorker, SendInv, DeliveredWasSent
<1> QED
  BY <1>1, <1>2, <1>3 DEF SInv

\* What an attempt does: it calls once if there is a snapshot and not at all otherwise.
LEMMA AttemptSends ==
    ASSUME SInv, NEW w \in Workers, handle_snapshot_attempt(w)
    PROVE  LET d == worker[w].delivery
               n == worker[w].token
           IN  /\ d \in Deliveries /\ n \in AttemptNumbers
               /\ worker[w].pc = "attempt" /\ sent[d][n] = 0
               /\ \A c \in Deliveries : \A m \in AttemptNumbers :
                     c # d \/ m # n => sent'[c][m] = sent[c][m]
               /\ sent'[d][n] = IF snapshot[d] # NoSource THEN 1 ELSE 0
               /\ worker'[w].delivery = d /\ worker'[w].token = n
               /\ worker'[w].outcome = "ok" => snapshot[d] # NoSource
               /\ \A v \in Workers : v # w => worker'[v] = worker[v]
               /\ UNCHANGED <<row, producer, snapshot>>
<1> DEFINE d == worker[w].delivery
           n == worker[w].token
<1>1. /\ worker[w].pc = "attempt" /\ d \in Deliveries /\ n \in AttemptNumbers
      /\ sent[d][n] = 0 /\ worker[w].pc # "idle"
      /\ sent \in [Deliveries -> [AttemptNumbers -> Nat]]
      /\ worker \in [Workers -> WorkerRecords]
  BY DEF SInv, IInv, WorkerInv, TypeOK, handle_snapshot_attempt, handle_delivery_attempt
<1>2. UNCHANGED <<row, producer, snapshot>> /\ (snapshot[d] # NoSource <=> sent' # sent)
  BY DEF handle_snapshot_attempt, handle_delivery_attempt
<1>3. CASE \E o \in Outcomes :
             /\ sent' = [sent EXCEPT ![d][n] = @ + 1]
             /\ worker' = [worker EXCEPT ![w].pc = "complete", ![w].outcome = o]
  <2>1. /\ sent'[d][n] = 1
        /\ \A c \in Deliveries : \A m \in AttemptNumbers :
              c # d \/ m # n => sent'[c][m] = sent[c][m]
    BY <1>1, <1>3
  <2>2. snapshot[d] # NoSource
    BY <1>1, <1>2, <2>1
  <2>3. /\ worker'[w].delivery = d /\ worker'[w].token = n
        /\ \A v \in Workers : v # w => worker'[v] = worker[v]
    BY <1>1, <1>3 DEF WorkerRecords
  <2> QED
    BY <1>1, <1>2, <2>1, <2>2, <2>3
<1>4. CASE \E o \in Outcomes \ {"ok"} :
             /\ worker' = [worker EXCEPT ![w].pc = "complete", ![w].outcome = o]
             /\ UNCHANGED sent
  <2>1. snapshot[d] = NoSource
    BY <1>2, <1>4
  <2>2. /\ worker'[w].delivery = d /\ worker'[w].token = n /\ worker'[w].outcome # "ok"
        /\ \A v \in Workers : v # w => worker'[v] = worker[v]
    BY <1>1, <1>4 DEF WorkerRecords
  <2> QED
    BY <1>1, <1>2, <1>4, <2>1, <2>2
<1> QED
  BY <1>3, <1>4 DEF handle_snapshot_attempt, handle_delivery_attempt

\* A step that neither calls nor writes snapshots keeps SendInv if nobody newly
\* claims to have called, and no row newly claims to be delivered.
LEMMA SendQuiet ==
    ASSUME SInv, UNCHANGED <<sent, snapshot, recorded>>,
           \A w \in Workers : worker'[w].pc = "complete" => worker'[w] = worker[w],
           \A d \in Deliveries : status'[d] = "DELIVERED" =>
              status[d] = "DELIVERED" /\ attempts'[d] = attempts[d]
    PROVE  SendInv'
BY DEF SInv, SendInv, DeliveredWasSent

\* An attempt keeps the invariant: the call it makes has a snapshot and is its first.
LEMMA SendAttempt ==
    ASSUME SInv, NEW w \in Workers, handle_snapshot_attempt(w)
    PROVE  SendInv' /\ SnapshotTypeOK' /\ ProducerInv'
<1> DEFINE d == worker[w].delivery
           n == worker[w].token
<1>1. /\ d \in Deliveries /\ n \in AttemptNumbers
      /\ worker[w].pc = "attempt" /\ sent[d][n] = 0
      /\ \A c \in Deliveries : \A m \in AttemptNumbers :
            c # d \/ m # n => sent'[c][m] = sent[c][m]
      /\ sent'[d][n] = IF snapshot[d] # NoSource THEN 1 ELSE 0
      /\ worker'[w].delivery = d /\ worker'[w].token = n
      /\ worker'[w].outcome = "ok" => snapshot[d] # NoSource
      /\ \A v \in Workers : v # w => worker'[v] = worker[v]
      /\ UNCHANGED <<row, producer, snapshot>>
  BY AttemptSends
<1>2. \A c \in Deliveries : \A m \in AttemptNumbers :
         sent'[c][m] > 0 => snapshot'[c] # NoSource
  BY <1>1 DEF SInv, SendInv
<1>3. \A v \in Workers : worker'[v].pc = "complete" /\ worker'[v].outcome = "ok" =>
         sent'[worker'[v].delivery][worker'[v].token] = 1
  <2> SUFFICES ASSUME NEW v \in Workers, worker'[v].pc = "complete", worker'[v].outcome = "ok"
               PROVE  sent'[worker'[v].delivery][worker'[v].token] = 1
    OBVIOUS
  <2>1. CASE v = w
    BY <1>1, <2>1
  <2>2. CASE v # w
    <3>1. /\ worker'[v] = worker[v] /\ worker[v].pc # "idle" /\ worker[w].pc # "idle"
          /\ sent[worker[v].delivery][worker[v].token] = 1
      BY <1>1, <2>2 DEF SInv, SendInv
    <3>2. /\ worker[v].delivery \in Deliveries /\ worker[v].token \in AttemptNumbers
          /\ worker[v].delivery # d \/ worker[v].token # n
      BY <2>2, <3>1 DEF SInv, IInv, WorkerInv
    <3> QED
      BY <1>1, <3>1, <3>2
  <2> QED
    BY <2>1, <2>2
<1>4. DeliveredWasSent'
  <2>1. ASSUME NEW c \in Deliveries, status'[c] = "DELIVERED"
        PROVE  snapshot'[c] # NoSource /\ sent'[c][attempts'[c]] = 1
    <3>1. /\ status[c] = "DELIVERED" /\ attempts'[c] = attempts[c]
          /\ snapshot'[c] = snapshot[c]
          /\ snapshot[c] # NoSource /\ sent[c][attempts[c]] = 1
      BY <1>1, <2>1 DEF SInv, SendInv, DeliveredWasSent, row
    <3>2. attempts[c] \in AttemptNumbers
      BY <3>1 DEF SInv, SendInv
    <3> QED
      BY <1>1, <3>1, <3>2
  <2>2. ASSUME NEW c \in Deliveries, recorded'[c] # 0 PROVE sent'[c][recorded'[c]] = 1
    <3>1. CASE recorded'[c] = recorded[c]
      <4>1. recorded[c] \in AttemptNumbers /\ sent[c][recorded[c]] = 1
        BY <2>2, <3>1, CapIsNat
           DEF SInv, SnapshotTypeOK, SendInv, DeliveredWasSent, AttemptNumbers
      <4> QED
        BY <1>1, <3>1, <4>1
    <3>2. CASE recorded'[c] # recorded[c]
      <4>1. c = d /\ recorded'[c] = n /\ snapshot[d] # NoSource
        BY <1>1, <3>2 DEF SInv, SnapshotTypeOK, handle_snapshot_attempt
      <4> QED
        BY <1>1, <4>1
    <3> QED
      BY <3>1, <3>2
  <2> QED
    BY <2>1, <2>2 DEF DeliveredWasSent
<1>5. SendInv'
  BY <1>1, <1>2, <1>3, <1>4 DEF SInv, SendInv, row
<1>6. recorded' \in [Deliveries -> 0..AttemptCap]
  <2>1. n \in 0..AttemptCap
    BY <1>1, CapIsNat DEF AttemptNumbers
  <2> QED
    BY <1>1, <2>1 DEF SInv, SnapshotTypeOK, handle_snapshot_attempt
<1> QED
  BY <1>1, <1>5, <1>6 DEF SInv, SnapshotTypeOK, ProducerInv

\* Every step keeps the invariant.
LEMMA SNext == SInv /\ [SnapshotNext]_allVars => SInv'
<1> SUFFICES ASSUME SInv, [SnapshotNext]_allVars PROVE SInv'
  OBVIOUS
<1>1. IInv'
  BY NextInv, StepsAreDeliverySteps DEF SInv
<1>2. ASSUME NEW p \in Producers, NEW s \in Sources, create_or_reuse(p, s)
      PROVE  SendInv' /\ SnapshotTypeOK' /\ ProducerInv'
  <2>1. SendInv'
    BY <1>2, SendQuiet DEF create_or_reuse, vars
  <2>2. SnapshotTypeOK' /\ ProducerInv'
    BY <1>2 DEF SInv, SnapshotTypeOK, ProducerInv, create_or_reuse
  <2> QED
    BY <2>1, <2>2
<1>3. ASSUME NEW p \in Producers, NEW d \in Deliveries, create_for_source(p, d)
      PROVE  SendInv' /\ SnapshotTypeOK' /\ ProducerInv'
  <2>1. SendInv'
    BY <1>3, SendQuiet DEF create_for_source, create_delivery, SInv, IInv, TypeOK
  <2>2. SnapshotTypeOK' /\ ProducerInv'
    BY <1>3 DEF SInv, SnapshotTypeOK, ProducerInv, create_for_source
  <2> QED
    BY <2>1, <2>2
<1>4. ASSUME NEW p \in Producers, create_snapshot(p)
      PROVE  SendInv' /\ SnapshotTypeOK' /\ ProducerInv'
  <2>1. producer[p].source \in Sources /\ producer[p].delivery \in Deliveries
    BY <1>4 DEF SInv, ProducerInv, create_snapshot
  <2>2. SnapshotTypeOK' /\ ProducerInv'
    BY <1>4, <2>1 DEF SInv, SnapshotTypeOK, ProducerInv, create_snapshot
  <2>3. \A d \in Deliveries : snapshot[d] # NoSource => snapshot'[d] # NoSource
    BY <1>4, <2>1, SnapshotAssumption DEF SInv, SnapshotTypeOK, create_snapshot
  <2>4. \A c, d \in Deliveries : snapshot'[c] = snapshot'[d] /\ snapshot'[c] # NoSource => c = d
    BY <1>4, <2>1 DEF SInv, SendInv, SnapshotTypeOK, create_snapshot, HasSnapshot
  <2>5. SendInv'
    BY <1>4, <2>3, <2>4 DEF SInv, SendInv, DeliveredWasSent, create_snapshot, vars
  <2> QED
    BY <2>2, <2>5
<1>5. ASSUME NEW p \in Producers, ProducerCrash(p)
      PROVE  SendInv' /\ SnapshotTypeOK' /\ ProducerInv'
  <2>1. SendInv'
    BY <1>5, SendQuiet DEF ProducerCrash, vars
  <2>2. SnapshotTypeOK' /\ ProducerInv'
    BY <1>5 DEF SInv, SnapshotTypeOK, ProducerInv, ProducerCrash
  <2> QED
    BY <2>1, <2>2
<1>6. ASSUME UNCHANGED snapshotVars PROVE SnapshotTypeOK' /\ ProducerInv'
  BY <1>6 DEF SInv, SnapshotTypeOK, ProducerInv, snapshotVars
<1>7. ASSUME NEW w \in Workers, EngineStep(w) PROVE SendInv'
  <2> DEFINE e == worker[w].delivery
  <2>0. /\ UNCHANGED <<sent, snapshot, recorded>> /\ worker[w].pc = "complete"
        /\ \A v \in Workers : worker'[v].pc = "complete" => worker'[v] = worker[v]
    BY <1>7 DEF EngineStep, snapshotVars, complete_delivery_success, complete_delivery_failure,
                stale_claim, Done, IdleWorker, SInv, IInv, TypeOK
  <2>1. CASE complete_delivery_success(w)
    <3>1. /\ e \in Deliveries /\ status[e] = "CLAIMED" /\ token[e] = worker[w].token
          /\ attempts[e] = token[e] /\ token[e] \in AttemptNumbers
          /\ sent[e][token[e]] = 1
      BY <2>0, <2>1 DEF SInv, IInv, WorkerInv, ClaimInv, SendInv, active_claim,
                        complete_delivery_success
    <3>2. snapshot[e] # NoSource
      BY <3>1 DEF SInv, SendInv
    <3>3. /\ UNCHANGED attempts
          /\ \A c \in Deliveries : c # e => status'[c] = status[c]
      BY <2>1, <3>1 DEF SInv, IInv, TypeOK, complete_delivery_success, Complete
    <3> QED
      BY <2>0, <3>1, <3>2, <3>3 DEF SInv, SendInv, DeliveredWasSent
  <2>2. CASE complete_delivery_failure(w)
    <3>1. /\ UNCHANGED attempts /\ e \in Deliveries
          /\ \A c \in Deliveries : status'[c] = "DELIVERED" => status[c] = "DELIVERED"
      BY <2>2 DEF SInv, IInv, TypeOK, WorkerInv, complete_delivery_failure, Complete, RetryOrFail
    <3> QED
      BY <2>0, <3>1, SendQuiet
  <2>3. CASE stale_claim(w)
    BY <2>0, <2>3, SendQuiet DEF stale_claim, row
  <2> QED
    BY <1>7, <2>1, <2>2, <2>3 DEF EngineStep
<1>8. ASSUME NEW w \in Workers, NEW d \in Deliveries, EngineTake(w, d) PROVE SendInv'
  <2>0. UNCHANGED <<sent, snapshot, recorded>> /\ worker[w].pc = "idle"
    BY <1>8 DEF EngineTake, snapshotVars, process_claimed_delivery
  <2>1. CASE (due_eligible(d) \/ expired_claim_eligible(d)) /\ claim_row(w, d)
    <3>1. /\ \A v \in Workers : worker'[v].pc = "complete" => worker'[v] = worker[v]
          /\ status[d] # "DELIVERED"
          /\ \A c \in Deliveries : status'[c] = "DELIVERED" =>
                status[c] = "DELIVERED" /\ attempts'[c] = attempts[c]
      BY <2>1 DEF claim_row, SInv, IInv, TypeOK, due_eligible, expired_claim_eligible, DueClaimable
    <3> QED
      BY <2>0, <3>1, SendQuiet
  <2>2. CASE UNCHANGED <<row, worker>>
    BY <2>0, <2>2, SendQuiet DEF row
  <2> QED
    BY <1>8, <2>1, <2>2 DEF EngineTake, process_claimed_delivery
<1>9. ASSUME NEW w \in Workers, EngineCrash(w) PROVE SendInv'
  <2>1. \A v \in Workers : worker'[v].pc = "complete" => worker'[v] = worker[v]
    BY <1>9 DEF EngineCrash, WorkerCrash, Done, IdleWorker, SInv, IInv, TypeOK
  <2> QED
    BY <1>9, <2>1, SendQuiet DEF EngineCrash, WorkerCrash, row, snapshotVars
<1>10. ASSUME NEW d \in Deliveries, EngineSweep(d) \/ EngineTime(d) PROVE SendInv'
  BY <1>10, SendQuiet DEF EngineSweep, EngineTime, Sweep, Time, dispatch_due_deliveries,
       recover_expired_delivery_claims, RetryDue, LeaseExpires, row, snapshotVars
<1>11. CASE UNCHANGED allVars
  <2>1. SendInv'
    BY <1>11, SendQuiet DEF allVars, vars, snapshotVars
  <2> QED
    BY <1>1, <1>6, <1>11, <2>1 DEF SInv, allVars
<1>12. CASE SnapshotNext
  <2>1. ASSUME NEW p \in Producers, ProducerStep(p) \/ ProducerCrash(p) PROVE SInv'
    BY <1>1, <1>2, <1>3, <1>4, <1>5, <2>1 DEF SInv, ProducerStep
  <2>2. ASSUME NEW w \in Workers,
               handle_snapshot_attempt(w) \/ EngineStep(w) \/ EngineCrash(w)
        PROVE  SInv'
    BY <1>1, <1>6, <1>7, <1>9, <2>2, SendAttempt DEF SInv, EngineStep, EngineCrash
  <2>3. ASSUME NEW w \in Workers, NEW d \in Deliveries, EngineTake(w, d) PROVE SInv'
    BY <1>1, <1>6, <1>8, <2>3 DEF SInv, EngineTake
  <2>4. ASSUME NEW d \in Deliveries, EngineSweep(d) \/ EngineTime(d) PROVE SInv'
    BY <1>1, <1>6, <1>10, <2>4 DEF SInv, EngineSweep, EngineTime
  <2> QED
    BY <1>12, <2>1, <2>2, <2>3, <2>4 DEF SnapshotNext
<1> QED
  BY <1>11, <1>12

\* A tool call or a reply is sent by one delivery at most, whoever retries its
\* producer, and DELIVERED means the recorded attempt called the provider.
THEOREM SnapshotSafety ==
    SnapshotSpec => [](SnapshotTypeOK /\ OneNotificationPerSource /\ DeliveredWasSent)
<1>1. SInv => SnapshotTypeOK /\ OneNotificationPerSource /\ DeliveredWasSent
  BY DEF SInv, SendInv, OneNotificationPerSource
<1> QED
  BY <1>1, SInit, SNext, PTL DEF SnapshotSpec

\* What is reported as delivered went out with the attempt that reported it.
THEOREM DeliveredMeansSent == SnapshotSpec => []DeliveredWasSent
BY SnapshotSafety, PTL
===============================================================================
