----------------------------- MODULE Evaluations -----------------------------
(***************************************************************************)
(* Evaluation runs (backend/evaluations): managers edit the cases of a     *)
(* dataset, start a run over the active ones, cancel it, replay a result;  *)
(* one Celery task claims the run, one per case executes an agent run with *)
(* a fake provider, scores it, writes the result, updates the counters of  *)
(* the run and finalizes it; a sweep re-publishes what was never claimed   *)
(* and fails the cases whose worker disappeared.                           *)
(*                                                                         *)
(* A result is claimed at most once, so the worker of a result is named by *)
(* the result.  A task message that finds its row already claimed does     *)
(* nothing, hence a message is kept only until its row is claimed.         *)
(***************************************************************************)
EXTENDS EvaluationScoring

CONSTANTS
    Runs, Cases,
    Specs,            \* contents of a case: [valid, expectations]
    Outcomes,         \* what executing an agent run may produce
    Thresholds,       \* threshold_config of the runs
    LiveProviders,    \* INTEGRATIONS_LIVE_PROVIDERS_ENABLED
    NoCase, NoSpec,
    MaxReplays,       \* bound: replays of a case of a run
    MaxResults,       \* bound: EvaluationResult rows
    MaxEdits          \* bound: PATCH requests on cases

ASSUME EvaluationsAssumption ==
    /\ LiveProviders \in BOOLEAN
    /\ IsFiniteSet(Cases)
    /\ MaxReplays \in Nat /\ MaxResults \in Nat /\ MaxEdits \in Nat
    /\ NoSpec \notin Specs
    /\ \A s \in Specs : NoCase # [status |-> "ACTIVE", spec |-> s]

VARIABLES
    cases,     \* EvaluationCase rows
    edits,     \* PATCH requests that changed a case
    run,       \* EvaluationRun rows
    snapshot,  \* EvaluationCaseSnapshot rows of a run
    result,    \* EvaluationResult rows; the original is number 0, replays follow
    worker,    \* where the worker of a result is in execute_evaluation_case
    sweeper,   \* runs the sweep is about to finalize
    agentRun,  \* the AgentRun of a result
    tasks      \* published task messages: runs and results

vars == <<cases, edits, run, snapshot, result, worker, sweeper, agentRun, tasks>>
caseVars == <<cases, edits>>

Results == Runs \X Cases \X (0..MaxReplays)
RunOf(x) == x[1]
CaseOf(x) == x[2]
IsReplay(x) == x[3] > 0
Originals(r) == {x \in Results : RunOf(x) = r /\ ~IsReplay(x) /\ result[x].status # "none"}

RunTerminal == {"SUCCEEDED", "PARTIAL", "FAILED", "CANCELLED"}
RunStatuses == {"none", "PENDING", "RUNNING"} \cup RunTerminal
ResultTerminal == {"SUCCEEDED", "FAILED", "CANCELLED"}
ResultStatuses == {"none", "PENDING", "RUNNING"} \cup ResultTerminal
CaseRows == [status : {"ACTIVE", "DISABLED"}, spec : Specs]
\* Steps of a worker: it has claimed the result, created the agent run, claimed
\* it, written the result, and found that the run is to be finalized.
WorkerSteps == {"none", "claimed", "created", "executing", "recorded", "finalizing", "gone"}

NoRun == [status |-> "none", total |-> 0, completed |-> 0, passed |-> 0]
NoResult == [status |-> "none", score |-> NotScored]

Init ==
    /\ cases = [c \in Cases |-> NoCase]
    /\ edits = 0
    /\ run = [r \in Runs |-> NoRun]
    /\ snapshot = [r \in Runs |-> [c \in Cases |-> NoSpec]]
    /\ result = [x \in Results |-> NoResult]
    /\ worker = [x \in Results |-> "none"]
    /\ sweeper = {}
    /\ agentRun = [x \in Results |-> "none"]
    /\ tasks = {}

-----------------------------------------------------------------------------
\* Dataset content.  A PATCH loads the row, changes the fields it was given and
\* saves the whole row, without a lock.

create_evaluation_case(c, s) ==
    /\ cases[c] = NoCase
    /\ cases' = [cases EXCEPT ![c] = [status |-> "ACTIVE", spec |-> s]]
    /\ UNCHANGED <<edits, run, snapshot, result, worker, sweeper, agentRun, tasks>>

\* What is saved is an older copy of the row with some fields replaced, hence any row.
update_evaluation_case(c) ==
    /\ cases[c] # NoCase /\ edits < MaxEdits
    /\ \E row \in CaseRows \ {cases[c]} : cases' = [cases EXCEPT ![c] = row]
    /\ edits' = edits + 1
    /\ UNCHANGED <<run, snapshot, result, worker, sweeper, agentRun, tasks>>

-----------------------------------------------------------------------------
\* Starting, claiming, cancelling and finalizing a run.

\* A message handed to Celery is delivered at some time, or lost.
Publish(t) == tasks' \in {tasks, tasks \cup {t}}

ActiveCases == {c \in Cases : cases[c] # NoCase /\ cases[c].status = "ACTIVE"}

\* The active cases are read before the transaction; it only inserts rows, so
\* the whole request is placed where it reads.
start_evaluation_run(r) ==
    /\ run[r].status = "none"
    /\ ActiveCases # {}
    /\ Cardinality({x \in Results : result[x].status # "none"}) + Cardinality(ActiveCases) <= MaxResults
    /\ run' = [run EXCEPT ![r] = [NoRun EXCEPT !.status = "PENDING", !.total = Cardinality(ActiveCases)]]
    /\ snapshot' = [snapshot EXCEPT ![r] = [c \in Cases |->
                       IF c \in ActiveCases THEN cases[c].spec ELSE NoSpec]]
    /\ result' = [x \in Results |->
                       IF RunOf(x) = r /\ CaseOf(x) \in ActiveCases /\ ~IsReplay(x)
                       THEN [NoResult EXCEPT !.status = "PENDING"] ELSE result[x]]
    /\ Publish(r)
    /\ UNCHANGED <<caseVars, worker, sweeper, agentRun>>

PendingCases(r) == {x \in Originals(r) : result[x].status = "PENDING"}

\* The case messages published after the claim may be lost one by one.
claim_evaluation_run(r) ==
    /\ r \in tasks
    /\ run[r].status = "PENDING"
    /\ run' = [run EXCEPT ![r].status = "RUNNING"]
    /\ \E sent \in SUBSET PendingCases(r) : tasks' = (tasks \ {r}) \cup sent
    /\ UNCHANGED <<caseVars, snapshot, result, worker, sweeper, agentRun>>

\* Mutation: every case that was claimed counts as completed.
aggregate_case_counts_of_claimed(r, rows) ==
    [run[r] EXCEPT
        !.completed = Cardinality({x \in Originals(r) : rows[x].status # "PENDING"}),
        !.passed    = Cardinality({x \in Originals(r) : rows[x].score.passed = "yes"})]

\* completed_cases and passed_cases, from one query over the original results.
aggregate_case_counts(r, rows) ==
    [run[r] EXCEPT
        !.completed = Cardinality({x \in Originals(r) : rows[x].status \in {"SUCCEEDED", "FAILED"}}),
        !.passed    = Cardinality({x \in Originals(r) : rows[x].score.passed = "yes"})]

\* Mutation: any open run is finalized.
Finalized_unguarded(r) ==
    LET failed == {x \in Originals(r) : result[x].status = "FAILED"}
    IN  [run EXCEPT ![r].status =
            IF run[r].completed < run[r].total THEN @
            ELSE IF Cardinality(failed) = run[r].total THEN "FAILED"
            ELSE IF failed # {} THEN "PARTIAL" ELSE "SUCCEEDED"]

\* finalize_evaluation_run: the run rows it leaves.
Finalized(r) ==
    LET failed == {x \in Originals(r) : result[x].status = "FAILED"}
    IN  [run EXCEPT ![r].status =
            IF run[r].status # "RUNNING" \/ run[r].completed < run[r].total THEN @
            ELSE IF Cardinality(failed) = run[r].total THEN "FAILED"
            ELSE IF failed # {} THEN "PARTIAL" ELSE "SUCCEEDED"]

cancel_evaluation_run(r) ==
    LET rows == [x \in Results |-> IF x \in PendingCases(r)
                                   THEN [result[x] EXCEPT !.status = "CANCELLED"] ELSE result[x]]
    IN  /\ run[r].status \in {"PENDING", "RUNNING"}
        /\ result' = rows
        /\ run' = [run EXCEPT ![r] = [aggregate_case_counts(r, rows) EXCEPT !.status = "CANCELLED"]]
        /\ UNCHANGED <<caseVars, snapshot, worker, sweeper, agentRun, tasks>>

replay_evaluation_case(x) ==
    LET y == <<x[1], x[2], x[3] + 1>>
    IN  /\ result[x].status \in ResultTerminal
        /\ x[3] < MaxReplays /\ result[y].status = "none"
        /\ Cardinality({z \in Results : result[z].status # "none"}) < MaxResults
        /\ result' = [result EXCEPT ![y].status = "PENDING"]
        /\ Publish(y)
        /\ UNCHANGED <<caseVars, run, snapshot, worker, sweeper, agentRun>>

-----------------------------------------------------------------------------
\* Executing a case.

claim_evaluation_result(x) ==
    /\ x \in tasks
    /\ result[x].status = "PENDING"
    /\ tasks' = tasks \ {x}
    /\ IF run[RunOf(x)].status = "CANCELLED"
       THEN /\ result' = [result EXCEPT ![x].status = "CANCELLED"]
            /\ UNCHANGED worker
       ELSE /\ result' = [result EXCEPT ![x].status = "RUNNING"]
            /\ worker' = [worker EXCEPT ![x] = "claimed"]
    /\ UNCHANGED <<caseVars, run, snapshot, sweeper, agentRun>>

\* The write that ends a case does not look at the status it replaces.
Write(x, status, score) ==
    /\ result' = [result EXCEPT ![x] = [status |-> status, score |-> score]]
    /\ worker' = [worker EXCEPT ![x] = IF IsReplay(x) THEN "gone" ELSE "recorded"]

terminate_result(x) ==
    Write(x, "FAILED", [result[x].score EXCEPT !.passed = "no", !.code = "HARNESS"])

\* Live providers are enabled, or the scenarios of the snapshot are malformed.
RefuseCase(x) ==
    /\ worker[x] = "claimed"
    /\ LiveProviders \/ ~snapshot[RunOf(x)][CaseOf(x)].valid
    /\ terminate_result(x)
    /\ UNCHANGED <<caseVars, run, snapshot, sweeper, agentRun, tasks>>

create_evaluation_agent_run(x) ==
    /\ worker[x] = "claimed"
    /\ ~LiveProviders /\ snapshot[RunOf(x)][CaseOf(x)].valid
    /\ agentRun' = [agentRun EXCEPT ![x] = "PENDING"]
    /\ worker' = [worker EXCEPT ![x] = "created"]
    /\ UNCHANGED <<caseVars, run, snapshot, result, sweeper, tasks>>

claim_agent_run(x) ==
    /\ worker[x] = "created"
    /\ \/ /\ agentRun[x] = "PENDING"
          /\ agentRun' = [agentRun EXCEPT ![x] = "CLAIMED"]
          /\ worker' = [worker EXCEPT ![x] = "executing"]
          /\ UNCHANGED result
       \/ /\ agentRun[x] # "PENDING"
          /\ terminate_result(x)
          /\ UNCHANGED agentRun
    /\ UNCHANGED <<caseVars, run, snapshot, sweeper, tasks>>

\* The agents sweep publishes any PENDING agent run again, and the task that takes
\* it executes it with the provider of the deployment.
execute_agent_run_task(x) ==
    /\ agentRun[x] = "PENDING"
    /\ agentRun' = [agentRun EXCEPT ![x] = "DEFAULT_PROVIDER"]
    /\ UNCHANGED <<caseVars, run, snapshot, result, worker, sweeper, tasks>>

\* Mutation: the case is scored against the dataset as it is now.
Expected_now(x) == cases[CaseOf(x)].spec.expectations

Expected(x) == snapshot[RunOf(x)][CaseOf(x)].expectations

\* The agent run ends and is scored, or an exception ends the case.
execute_evaluation_case(x) ==
    /\ worker[x] = "executing"
    /\ \/ \E o \in Outcomes : Write(x, "SUCCEEDED", score_case(o, Expected(x)))
       \/ terminate_result(x)
    /\ UNCHANGED <<caseVars, run, snapshot, sweeper, agentRun, tasks>>

record_case_completion(x) ==
    LET r == RunOf(x)
        counted == aggregate_case_counts(r, result)
    IN  /\ worker[x] = "recorded"
        /\ run' = [run EXCEPT ![r] = counted]
        /\ worker' = [worker EXCEPT ![x] =
              IF counted.status = "RUNNING" /\ counted.completed >= counted.total
              THEN "finalizing" ELSE "gone"]
        /\ UNCHANGED <<caseVars, snapshot, result, sweeper, agentRun, tasks>>

finalize_evaluation_run(x) ==
    /\ worker[x] = "finalizing"
    /\ run' = Finalized(RunOf(x))
    /\ worker' = [worker EXCEPT ![x] = "gone"]
    /\ UNCHANGED <<caseVars, snapshot, result, sweeper, agentRun, tasks>>

WorkerCrash(x) ==
    /\ worker[x] \notin {"none", "gone"}
    /\ worker' = [worker EXCEPT ![x] = "gone"]
    /\ UNCHANGED <<caseVars, run, snapshot, result, sweeper, agentRun, tasks>>

-----------------------------------------------------------------------------
\* The sweep of evaluations/recovery.py.

redispatch_pending_run(r) ==
    /\ run[r].status = "PENDING" /\ r \notin tasks
    /\ tasks' = tasks \cup {r}
    /\ UNCHANGED <<caseVars, run, snapshot, result, worker, sweeper, agentRun>>

redispatch_pending_case(x) ==
    /\ result[x].status = "PENDING" /\ ~IsReplay(x) /\ x \notin tasks
    /\ tasks' = tasks \cup {x}
    /\ UNCHANGED <<caseVars, run, snapshot, result, worker, sweeper, agentRun>>

RunningCases(r) == {x \in Originals(r) : result[x].status = "RUNNING"}

\* Mutation: a recovered case keeps the counters as they were.
recover_stuck_run_without_counting(r, stale) ==
    LET rows == [x \in Results |->
            IF x \in stale THEN [status |-> "FAILED",
                                 score  |-> [result[x].score EXCEPT !.passed = "no", !.code = "CRASH"]]
            ELSE result[x]]
    IN  /\ run[r].status = "RUNNING" /\ r \notin sweeper
        /\ stale # {} \/ RunningCases(r) = {}
        /\ result' = rows
        /\ run' = run
        /\ sweeper' = IF run[r].completed >= run[r].total THEN sweeper \cup {r} ELSE sweeper
        /\ UNCHANGED <<caseVars, snapshot, worker, agentRun, tasks>>

\* A run that has not been saved for a while: the stale ones of its running cases
\* are failed; when none is stale and one is live the run is left alone.  How long a
\* case may run is not bounded, so any running case may be stale.
recover_stuck_run(r, stale) ==
    LET rows == [x \in Results |->
            IF x \in stale THEN [status |-> "FAILED",
                                 score  |-> [result[x].score EXCEPT !.passed = "no", !.code = "CRASH"]]
            ELSE result[x]]
        counted == aggregate_case_counts(r, rows)
    IN  /\ run[r].status = "RUNNING" /\ r \notin sweeper
        /\ stale # {} \/ RunningCases(r) = {}
        /\ result' = rows
        /\ run' = [run EXCEPT ![r] = counted]
        /\ sweeper' = IF counted.completed >= counted.total THEN sweeper \cup {r} ELSE sweeper
        /\ UNCHANGED <<caseVars, snapshot, worker, agentRun, tasks>>

\* The sweep finalizes in a transaction of its own, or dies before it.
finalize_recovered_run(r) ==
    /\ r \in sweeper
    /\ run' = Finalized(r)
    /\ sweeper' = sweeper \ {r}
    /\ UNCHANGED <<caseVars, snapshot, result, worker, agentRun, tasks>>

SweepCrash(r) ==
    /\ r \in sweeper
    /\ sweeper' = sweeper \ {r}
    /\ UNCHANGED <<caseVars, run, snapshot, result, worker, agentRun, tasks>>

-----------------------------------------------------------------------------
Edit == \/ \E c \in Cases, s \in Specs : create_evaluation_case(c, s)
        \/ \E c \in Cases : update_evaluation_case(c)

Manage == \/ \E r \in Runs : start_evaluation_run(r) \/ cancel_evaluation_run(r)
          \/ \E x \in Results : replay_evaluation_case(x)

WorkerStep(x) ==
    \/ RefuseCase(x) \/ create_evaluation_agent_run(x) \/ claim_agent_run(x)
    \/ execute_evaluation_case(x) \/ record_case_completion(x) \/ finalize_evaluation_run(x)

Sweep == \/ \E r \in Runs : redispatch_pending_run(r) \/ finalize_recovered_run(r)
         \/ \E x \in Results : redispatch_pending_case(x)
         \/ \E r \in Runs : \E stale \in SUBSET RunningCases(r) : recover_stuck_run(r, stale)

Fault == \/ \E x \in Results : WorkerCrash(x)
         \/ \E r \in Runs : SweepCrash(r)

Next == \/ Edit \/ Manage \/ Sweep \/ Fault
        \/ \E r \in Runs : claim_evaluation_run(r)
        \/ \E x \in Results : \/ claim_evaluation_result(x) \/ WorkerStep(x)
                              \/ execute_agent_run_task(x)

Spec == Init /\ [][Next]_vars

\* Celery delivers what stays published, a worker that lives goes on, and Beat
\* runs the sweep for ever; a case whose worker is gone becomes stale.
Gone(r) == {x \in RunningCases(r) : worker[x] = "gone"}

Fairness ==
    /\ \A r \in Runs :
          /\ WF_vars(claim_evaluation_run(r))
          /\ WF_vars(redispatch_pending_run(r))
          /\ SF_vars(finalize_recovered_run(r))
          /\ SF_vars(recover_stuck_run(r, Gone(r)))
    /\ \A x \in {y \in Results : ~IsReplay(y)} :
          /\ WF_vars(claim_evaluation_result(x))
          /\ WF_vars(redispatch_pending_case(x))
          /\ WF_vars(WorkerStep(x))

FairSpec == Spec /\ Fairness

-----------------------------------------------------------------------------
TypeOK ==
    /\ cases \in [Cases -> CaseRows \cup {NoCase}]
    /\ edits \in 0..MaxEdits
    /\ run \in [Runs -> [status : RunStatuses, total : Nat, completed : Nat, passed : Nat]]
    /\ snapshot \in [Runs -> [Cases -> Specs \cup {NoSpec}]]
    /\ result \in [Results -> [status : ResultStatuses, score : ScoreRows]]
    /\ worker \in [Results -> WorkerSteps]
    /\ sweeper \subseteq Runs
    /\ agentRun \in [Results -> {"none", "PENDING", "CLAIMED", "DEFAULT_PROVIDER"}]
    /\ tasks \subseteq Runs \cup Results

\* A run that finalize_evaluation_run has ended was complete: every original case
\* has been executed, all are counted, and a SUCCEEDED run has no failed case,
\* whoever of its workers, the sweep and the requests came last.
FinalizedIsComplete ==
    \A r \in Runs : run[r].status \in RunTerminal \ {"CANCELLED"} =>
        /\ \A x \in Originals(r) : result[x].status \in {"SUCCEEDED", "FAILED"}
        /\ run[r].completed = run[r].total /\ run[r].total = Cardinality(Originals(r))
        /\ run[r].status = "SUCCEEDED" => \A x \in Originals(r) : result[x].status = "SUCCEEDED"

\* A scored result was scored against the case as it was when its run started,
\* however the case was edited since, and also when it is a replay.
ScoredAgainstSnapshot ==
    \A x \in Results : result[x].status = "SUCCEEDED" =>
        /\ snapshot[RunOf(x)][CaseOf(x)] \in Specs
        /\ \E o \in Outcomes :
              result[x].score = score_case(o, snapshot[RunOf(x)][CaseOf(x)].expectations)

\* A scored or cancelled result never changes, nor does the status of an ended run:
\* finalization, cancellation, recovery, replays and late workers all race for them.
EndedFrozen ==
    [][/\ \A x \in Results : result[x].status \in {"SUCCEEDED", "CANCELLED"} => result'[x] = result[x]
       /\ \A r \in Runs : run[r].status \in RunTerminal => run'[r].status = run[r].status]_vars

\* compare_evaluation_runs: the regressions of a candidate against a baseline over
\* the same cases.
Comparable(b, c) ==
    run[b].status # "none" /\ run[c].status # "none" /\
    {k \in Cases : snapshot[b][k] # NoSpec} = {k \in Cases : snapshot[c][k] # NoSpec}
Scores(r) == [x \in Originals(r) |-> result[x].score]
compare_evaluation_runs(b, c) ==
    evaluate_thresholds(run_metrics(Scores(b)), run_metrics(Scores(c)), Thresholds)

\* When the gate asks for a pass rate of 100 percent, a candidate it lets through
\* has every case scored and passed: an unfinished, cancelled or recovered case
\* counts against it, and a replay that passed does not help.
GateMeansPassed ==
    Thresholds.min_pass_rate = 100 =>
        \A b, c \in Runs : Comparable(b, c) /\ compare_evaluation_runs(b, c) = {} =>
            \A x \in Originals(c) : result[x].status = "SUCCEEDED" /\ result[x].score.passed = "yes"

\* Every run that was started is finalized or cancelled: lost messages, dead
\* workers and a dead sweep only delay it.
EveryEvaluationEnds ==
    \A r \in Runs : run[r].status = "PENDING" ~> run[r].status \in RunTerminal
=============================================================================
