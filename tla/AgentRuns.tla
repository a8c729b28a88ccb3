------------------------------ MODULE AgentRuns ------------------------------
(***************************************************************************)
(* The life of an AgentRun: the Celery workers that execute and resume it, *)
(* the tool calls it makes through the policy gate, the human approvals    *)
(* that gate those calls, cancellation, and the recovery sweeps.           *)
(*                                                                         *)
(* Every action below is one database transaction, or one step between two *)
(* transactions, of backend/agents, backend/tools/execution.py and         *)
(* backend/approvals.  A row taken with select_for_update and guarded by   *)
(* its status is one atomic action; whatever the code holds in memory      *)
(* between two transactions is in the worker record.                       *)
(***************************************************************************)
EXTENDS Naturals, FiniteSets

CONSTANTS
    Runs,              \* AgentRun rows of one workspace and conversation
    ConversationRuns,  \* the runs that have a conversation (the others are API runs)
    Calls,             \* (tool, arguments) pairs the model may propose
    Workers,           \* Celery worker slots
    NoRun,             \* "no AgentRun"
    Unknown,           \* the 'unknown' scope of a continuation's idempotency key
    NoKey,             \* "no tool call in hand"
    MaxModelCalls,     \* AgentVersion.max_model_calls
    MaxRetryAttempts,  \* AgentVersion.max_retry_attempts
    MaxToolCalls,      \* AgentVersion.max_tool_calls
    MaxRetries,        \* RetryPolicy.max_retries of the tools
    AmbiguousCodes,    \* RetryPolicy.ambiguous_outcome_error_codes
    MaxFaults          \* bound: crashes, lost or repeated messages, slow workers

Scopes == Runs \cup {Unknown}

\* ToolExecution rows are found by (workspace, tool, idempotency_key), so a
\* row is named by its key: agent:<scope>:turn:<n>:<digest of the call>.
Keys == Scopes \X (1..MaxModelCalls) \X Calls

ErrorCodes == {"none", "tool_error", "tool_timeout", "stuck_worker_recovered"}

ASSUME RunsAssumption ==
    /\ ConversationRuns \subseteq Runs
    /\ NoRun \notin Runs
    /\ Unknown \notin Runs
    /\ NoKey \notin Keys

ASSUME BoundsAssumption ==
    /\ MaxModelCalls \in Nat \ {0}
    /\ MaxRetryAttempts \in Nat
    /\ MaxToolCalls \in Nat
    /\ MaxRetries \in Nat
    /\ MaxFaults \in Nat
    /\ AmbiguousCodes \subseteq ErrorCodes \ {"none"}

VARIABLES
    runStatus,   \* AgentRun.status ("none" before the row exists)
    modelCalls,  \* AgentRun.model_call_count as persisted
    toolCalls,   \* AgentRun.tool_call_count
    output,      \* messages written to the conversation for the run
    handoff,     \* the conversation's active HumanHandoff: the run that opened it
    exec,        \* ToolExecution rows by key
    approval,    \* ApprovalRequest.status by the key of its execution
    tasks,       \* published Celery messages not yet taken
    worker,      \* what each worker slot is doing
    users,       \* history: the runs that have claimed the row of a key
    invoked,     \* history: handler invocations by key
    resumed,     \* history: continuations started by each approval
    faults       \* faults still allowed

vars == <<runStatus, modelCalls, toolCalls, output, handoff, exec, approval,
          tasks, worker, users, invoked, resumed, faults>>

-----------------------------------------------------------------------------
(* Status sets *)

RunTerminal == {"SUCCEEDED", "FAILED", "CANCELLED", "BUDGET_EXCEEDED", "HANDED_OFF"}
RunStatuses == {"none", "PENDING", "RUNNING", "WAITING_FOR_APPROVAL"} \cup RunTerminal

PolicyTerminal == {"BLOCKED_BY_POLICY", "APPROVAL_TERMINATED"}
ExecStatuses ==
    {"none", "PENDING", "RUNNING", "WAITING_FOR_APPROVAL", "SUCCEEDED", "FAILED",
     "TIMED_OUT", "CANCELLED"} \cup PolicyTerminal

Decided == {"APPROVED", "REJECTED", "EXPIRED"}
ApprovalStatuses == {"none", "PENDING", "CANCELLED"} \cup Decided

\* PolicyEvaluation.decision of an execution; "none" while no row exists.
PolicyDecisions == {"none", "ALLOW", "DENY", "REQUIRE_APPROVAL"}

ExecuteTask(r) == [type |-> "execute", run |-> r]
ResumeTask(k)  == [type |-> "resume", key |-> k]
Tasks == {ExecuteTask(r) : r \in Runs} \cup {ResumeTask(k) : k \in Keys}

\* Where a worker is: at the node of the graph, or before the transaction, of
\* that name.
PCs == {"idle", "begin", "check_budget", "generate", "handoff_request",
        "tool_request", "claim", "check_policy", "gate", "start", "resume_claim",
        "continue", "reserve", "invoke", "finalize", "pause", "complete",
        "hand_over", "fail", "budget_exceeded"}

\* "first": execute_claimed_agent_run.  "resume": resume_after_approval is
\* executing the approved action.  "continuation": run_resume_graph.
Modes == {"first", "resume", "continuation"}

\* "uncaught": an exception of the handler that is not a ToolError.
Outcomes == {"none", "ok", "tool_timeout", "tool_error", "invalid_output", "uncaught"}

IdleWorker ==
    [pc |-> "idle", run |-> NoRun, key |-> NoKey, mode |-> "first",
     turn |-> 0, attempt |-> 0, tries |-> 0, outcome |-> "none"]

NoExecution ==
    [status |-> "none", run |-> NoRun, policy |-> "none", attempts |-> 0,
     error |-> "none"]

Init ==
    /\ runStatus = [r \in Runs |-> "none"]
    /\ modelCalls = [r \in Runs |-> 0]
    /\ toolCalls = [r \in Runs |-> 0]
    /\ output = [r \in Runs |-> 0]
    /\ handoff = NoRun
    /\ exec = [k \in Keys |-> NoExecution]
    /\ approval = [k \in Keys |-> "none"]
    /\ tasks = {}
    /\ worker = [w \in Workers |-> IdleWorker]
    /\ users = [k \in Keys |-> {}]
    /\ invoked = [k \in Keys |-> 0]
    /\ resumed = [k \in Keys |-> 0]
    /\ faults = MaxFaults

-----------------------------------------------------------------------------
(* Helpers *)

Working(w) == worker[w].pc # "idle"
Owns(w, r) == Working(w) /\ worker[w].run = r
Orphaned(r) == \A w \in Workers : ~Owns(w, r)

\* The run and the tool call a worker has in hand.
run(w) == worker[w].run
key(w) == worker[w].key

Go(w, next) == worker' = [worker EXCEPT ![w].pc = next]
Finish(w) == worker' = [worker EXCEPT ![w] = IdleWorker]

\* Leave the tool boundary with the call dealt with.
AfterTool(w, next) ==
    worker' = [worker EXCEPT ![w].pc = next, ![w].key = NoKey,
                             ![w].tries = 0, ![w].outcome = "none",
                             ![w].mode = IF @ = "resume" THEN "continuation" ELSE @]

\* Where the result of a tool call goes: to the model, which for a resumed call
\* means to a new graph.
NextTurn(w) == IF worker[w].mode = "resume" THEN "continue" ELSE "check_budget"

\* transaction.on_commit(task.delay): the publish may be lost with the broker.
Publish(t) ==
    \/ tasks' = tasks \cup {t} /\ UNCHANGED faults
    \/ faults > 0 /\ faults' = faults - 1 /\ UNCHANGED tasks

\* A message is handed to a worker, possibly to be delivered once more.
Take(t) ==
    /\ t \in tasks
    /\ \/ tasks' = tasks \ {t} /\ UNCHANGED faults
       \/ faults > 0 /\ faults' = faults - 1 /\ UNCHANGED tasks

\* is_cancelled is bound only in the first execution's RunContext.
SeesCancelled(w) ==
    worker[w].mode = "first" /\ runStatus[run(w)] = "CANCELLED"

\* f"agent:{ctx.agent_run_id or 'unknown'}:turn:{model_turn}:{digest}"
IdempotencyKey(w, turn, call) ==
    <<IF worker[w].mode = "first" THEN run(w) ELSE Unknown, turn, call>>

rowVars == <<runStatus, modelCalls, toolCalls, output, handoff>>
toolVars == <<exec, approval, users, invoked>>

\* _finalize_failure and _finalize_success: only a RUNNING row is written.
Finalized(k, status, code) ==
    IF exec[k].status = "RUNNING"
    THEN [exec EXCEPT ![k].status = status, ![k].error = code]
    ELSE exec

\* create_ai_agent_message, unless the run already has its output message.
Reply(r) ==
    output' = IF r \in ConversationRuns /\ output[r] = 0
              THEN [output EXCEPT ![r] = @ + 1] ELSE output

\* Mutation: a refused action stays open.
Terminated_by_nobody(k) == exec

\* _terminate_execution: a rejected or expired action is closed if still waiting.
Terminated(k) ==
    IF exec[k].status = "WAITING_FOR_APPROVAL"
    THEN [exec EXCEPT ![k].status = "APPROVAL_TERMINATED"] ELSE exec

-----------------------------------------------------------------------------
(* Variants of single definitions with a plausible mistake in each, for       *)
(* mutation runs.  Nothing below uses them.                                   *)

\* The approval is requested, and the call goes on instead of raising.
run_policy_gate_without_raise(w) ==
    /\ worker[w].pc = "gate"
    /\ exec' = [exec EXCEPT ![key(w)].policy = "REQUIRE_APPROVAL",
                            ![key(w)].status = "WAITING_FOR_APPROVAL"]
    /\ approval' = [approval EXCEPT ![key(w)] = "PENDING"]
    /\ Go(w, "start")
    /\ UNCHANGED <<rowVars, users, invoked, tasks, resumed, faults>>

\* The execution waits, and no approval request is created.
run_policy_gate_without_request(w) ==
    /\ worker[w].pc = "gate"
    /\ exec' = [exec EXCEPT ![key(w)].policy = "REQUIRE_APPROVAL",
                            ![key(w)].status = "WAITING_FOR_APPROVAL"]
    /\ AfterTool(w, "pause")
    /\ UNCHANGED <<rowVars, approval, users, invoked, tasks, resumed, faults>>

\* The slot is counted in the first execution only.
reserve_budget_slot_first_only(w) ==
    /\ worker[w].pc = "reserve"
    /\ toolCalls[run(w)] < MaxToolCalls
    /\ toolCalls' = IF worker[w].mode = "first"
                    THEN [toolCalls EXCEPT ![run(w)] = @ + 1] ELSE toolCalls
    /\ Go(w, "invoke")
    /\ UNCHANGED <<runStatus, modelCalls, output, handoff, toolVars, tasks,
                   resumed, faults>>

\* The status is not looked at again before the run is paused.
pause_run_for_approval_unguarded(w) ==
    /\ worker[w].pc = "pause"
    /\ runStatus' = [runStatus EXCEPT ![run(w)] = "WAITING_FOR_APPROVAL"]
    /\ modelCalls' = [modelCalls EXCEPT ![run(w)] = worker[w].turn]
    /\ Finish(w)
    /\ UNCHANGED <<toolCalls, output, handoff, toolVars, tasks, resumed, faults>>

\* The handoff is opened before the status is looked at.
complete_run_as_handoff_first(w) ==
    /\ worker[w].pc = "hand_over"
    /\ handoff' = IF handoff = NoRun THEN run(w) ELSE handoff
    /\ runStatus' = IF runStatus[run(w)] = "RUNNING"
                    THEN [runStatus EXCEPT ![run(w)] = "HANDED_OFF"] ELSE runStatus
    /\ Finish(w)
    /\ UNCHANGED <<modelCalls, toolCalls, output, toolVars, tasks, resumed, faults>>

\* The resume task trusts the decision and does not claim the run.
claim_run_for_resume_unguarded(w, k) ==
    /\ ~Working(w)
    /\ Take(ResumeTask(k))
    /\ approval[k] \in Decided
    /\ worker' = [worker EXCEPT ![w] = [IdleWorker EXCEPT !.run = exec[k].run,
                                           !.pc = "continue", !.mode = "continuation"]]
    /\ UNCHANGED <<rowVars, toolVars, resumed>>

\* The sweep forgets the approvals nobody answered.
redispatch_waiting_run_decided_by_people(k) ==
    /\ exec[k].run # NoRun
    /\ runStatus[exec[k].run] = "WAITING_FOR_APPROVAL"
    /\ approval[k] \in {"APPROVED", "REJECTED"}
    /\ ResumeTask(k) \notin tasks
    /\ Publish(ResumeTask(k))
    /\ UNCHANGED <<rowVars, toolVars, worker, resumed>>

-----------------------------------------------------------------------------
(* Starting a run *)

create_agent_run(r) ==
    /\ runStatus[r] = "none"
    /\ runStatus' = [runStatus EXCEPT ![r] = "PENDING"]
    /\ Publish(ExecuteTask(r))
    /\ UNCHANGED <<modelCalls, toolCalls, output, handoff, toolVars, worker, resumed>>

\* execute_agent_run_task: claim_agent_run makes a repeated delivery harmless.
claim_agent_run(w, r) ==
    /\ ~Working(w)
    /\ Take(ExecuteTask(r))
    /\ IF runStatus[r] = "PENDING"
       THEN /\ runStatus' = [runStatus EXCEPT ![r] = "RUNNING"]
            /\ worker' = [worker EXCEPT ![w] =
                            [IdleWorker EXCEPT !.pc = "begin", !.run = r]]
       ELSE UNCHANGED <<runStatus, worker>>
    /\ UNCHANGED <<modelCalls, toolCalls, output, handoff, toolVars, resumed>>

\* A conversation with an active handoff gets no autonomous execution; building
\* the context, the tool catalogue or the retrieval may fail the run.
execute_support_agent_run(w) ==
    /\ worker[w].pc = "begin"
    /\ IF run(w) \in ConversationRuns /\ handoff # NoRun
       THEN Go(w, "hand_over")
       ELSE Go(w, "check_budget") \/ Go(w, "fail")
    /\ UNCHANGED <<rowVars, toolVars, tasks, resumed, faults>>

-----------------------------------------------------------------------------
(* The bounded graph *)

\* The model-call budget is exact; steps, tokens, cost and wall time are the
\* other reasons a budget check may refuse.
check_budget(w) ==
    /\ worker[w].pc = "check_budget"
    /\ IF SeesCancelled(w)
       THEN Finish(w)
       ELSE \/ Go(w, "budget_exceeded")
            \/ worker[w].turn < MaxModelCalls /\ Go(w, "generate")
    /\ UNCHANGED <<rowVars, toolVars, tasks, resumed, faults>>

\* What ends the graph with an error: a failure of the provider that might have passed
\* is handed to a human if there is a conversation to hand over.
fail_or_handoff(w, retryable) ==
    IF retryable /\ run(w) \in ConversationRuns THEN "hand_over" ELSE "fail"

\* A retryable provider error is retried while attempts and calls remain.
ProviderError(w, retryable) ==
    LET next == [worker[w] EXCEPT !.turn = @ + 1, !.attempt = @ + 1]
        canRetry == retryable /\ next.attempt < MaxRetryAttempts
                              /\ next.turn < MaxModelCalls
    IN worker' = [worker EXCEPT ![w] = [next EXCEPT !.pc =
          IF canRetry THEN "check_budget" ELSE fail_or_handoff(w, retryable)]]

ProviderAnswer(w, next) ==
    worker' = [worker EXCEPT ![w].turn = @ + 1, ![w].attempt = @ + 1, ![w].pc = next]

ProviderToolCall(w, call) ==
    worker' = [worker EXCEPT ![w].turn = @ + 1, ![w].attempt = @ + 1,
                             ![w].pc = "tool_request",
                             ![w].key = IdempotencyKey(w, worker[w].turn + 1, call)]

generate_response(w) ==
    /\ worker[w].pc = "generate"
    /\ \/ \E retryable \in BOOLEAN : ProviderError(w, retryable)
       \/ ProviderAnswer(w, "handoff_request")
       \/ \E call \in Calls : ProviderToolCall(w, call)
       \/ ProviderAnswer(w, "complete")
       \/ ProviderAnswer(w, "fail")      \* an empty answer
    /\ UNCHANGED <<rowVars, toolVars, tasks, resumed, faults>>

execute_handoff_request(w) ==
    /\ worker[w].pc = "handoff_request"
    /\ IF SeesCancelled(w)
       THEN Finish(w)
       ELSE \/ run(w) \in ConversationRuns /\ Go(w, "hand_over")
            \/ Go(w, "fail")             \* no conversation, or an invalid request
    /\ UNCHANGED <<rowVars, toolVars, tasks, resumed, faults>>

-----------------------------------------------------------------------------
(* execute_tool *)

\* Before any row is written: cancellation, then in any order the checks that
\* either go back to the model or end the run, the advisory budget read among them.
execute_tool_call(w) ==
    /\ worker[w].pc = "tool_request"
    /\ IF SeesCancelled(w)
       THEN Finish(w)
       ELSE \/ toolCalls[run(w)] < MaxToolCalls /\ Go(w, "claim")
            \/ AfterTool(w, "check_budget")     \* unbound tool, invalid input
            \/ AfterTool(w, "fail")             \* tool_configuration_error
            \/ AfterTool(w, "budget_exceeded")  \* no call or no wall time left
    /\ UNCHANGED <<rowVars, toolVars, tasks, resumed, faults>>

ClaimNew(w) ==
    /\ exec[key(w)].status = "none"
    /\ exec' = [exec EXCEPT ![key(w)] =
                  [NoExecution EXCEPT !.status = "PENDING", !.run = run(w)]]
    /\ Go(w, "check_policy")

\* _resolve_existing for a row another call of the same key already made.
ClaimExisting(w) ==
    LET row == exec[key(w)]
        retryable == /\ row.status \in {"FAILED", "TIMED_OUT", "CANCELLED"}
                     /\ row.error \notin AmbiguousCodes
                     /\ row.attempts < MaxRetries + 1
    IN  /\ row.status # "none"
        /\ IF retryable
           THEN /\ exec' = [exec EXCEPT ![key(w)].status = "PENDING",
                                        ![key(w)].error = "none"]
                /\ worker' = [worker EXCEPT ![w].tries = row.attempts,
                                            ![w].pc = "check_policy"]
           ELSE /\ UNCHANGED exec
                /\ AfterTool(w,
                     CASE row.status \in {"PENDING", "RUNNING"} -> "fail"
                       [] row.status = "WAITING_FOR_APPROVAL" -> "pause"
                       [] OTHER -> "check_budget")

claim_execution(w) ==
    /\ worker[w].pc = "claim"
    /\ ClaimNew(w) \/ ClaimExisting(w)
    /\ users' = [users EXCEPT ![key(w)] = @ \cup {run(w)}]
    /\ UNCHANGED <<rowVars, approval, invoked, tasks, resumed, faults>>

already_policy_evaluated(w) ==
    /\ worker[w].pc = "check_policy"
    /\ Go(w, IF exec[key(w)].policy = "none" THEN "gate" ELSE "start")
    /\ UNCHANGED <<rowVars, toolVars, tasks, resumed, faults>>

\* One request per execution.
create_or_reuse_approval_request(k) ==
    IF approval[k] = "none" THEN [approval EXCEPT ![k] = "PENDING"] ELSE approval

\* One transaction: the policy evaluation, the approval request it may need and
\* the execution's status.  An execution has at most one evaluation, and only a
\* PENDING one is blocked or made to wait: otherwise the gate is rolled back, and
\* so it is when the evaluation cannot be stored (Configuration, decision_code).
run_policy_gate(w) ==
    LET row == exec[key(w)]
        decides(policy, status) ==
            exec' = [exec EXCEPT ![key(w)].policy = policy, ![key(w)].status = status]
    IN
    /\ worker[w].pc = "gate"
    /\ \/ /\ row.policy = "none"
          /\ decides("ALLOW", row.status)
          /\ Go(w, "start")
          /\ UNCHANGED approval
       \/ /\ row.policy = "none" /\ row.status = "PENDING"
          /\ decides("DENY", "BLOCKED_BY_POLICY")
          /\ \/ AfterTool(w, "check_budget")   \* denied
             \/ AfterTool(w, "fail")           \* evaluation failed: closed
          /\ UNCHANGED approval
       \/ /\ row.policy = "none" /\ row.status = "PENDING"
          /\ decides("REQUIRE_APPROVAL", "WAITING_FOR_APPROVAL")
          /\ approval' = create_or_reuse_approval_request(key(w))
          /\ AfterTool(w, "pause")
       \/ /\ AfterTool(w, "fail")
          /\ UNCHANGED <<exec, approval>>
    /\ UNCHANGED <<rowVars, users, invoked, tasks, resumed, faults>>

transition_running(w) ==
    /\ worker[w].pc = "start"
    /\ IF exec[key(w)].status \in {"PENDING", "WAITING_FOR_APPROVAL"}
       THEN /\ exec' = [exec EXCEPT ![key(w)].status = "RUNNING"]
            /\ Go(w, "reserve")
       ELSE AfterTool(w, "fail") /\ UNCHANGED exec
    /\ UNCHANGED <<rowVars, approval, users, invoked, tasks, resumed, faults>>

\* The conditional UPDATE ... WHERE tool_call_count < max_tool_calls.
reserve_budget_slot(w) ==
    /\ worker[w].pc = "reserve"
    /\ IF toolCalls[run(w)] < MaxToolCalls
       THEN /\ toolCalls' = [toolCalls EXCEPT ![run(w)] = @ + 1]
            /\ Go(w, "invoke")
            /\ UNCHANGED exec
       ELSE /\ exec' = Finalized(key(w), "FAILED", "tool_error")
            /\ AfterTool(w, IF worker[w].mode = "resume" THEN "fail"
                                                         ELSE "budget_exceeded")
            /\ UNCHANGED toolCalls
    /\ UNCHANGED <<runStatus, modelCalls, output, handoff, approval, users, invoked,
                   tasks, resumed, faults>>

\* One pass of the _run_with_retries loop; attempt_count is written from the
\* value held in memory.
Attempt(w) ==
    LET k == key(w)
        tries == worker[w].tries + 1
    IN  /\ worker[w].tries < MaxRetries + 1
        /\ exec' = [exec EXCEPT ![k].attempts = tries]
        /\ invoked' = [invoked EXCEPT ![k] = @ + 1]
        /\ \/ \E o \in Outcomes \ {"none"} :
                worker' = [worker EXCEPT ![w].tries = tries, ![w].outcome = o,
                                         ![w].pc = "finalize"]
           \/ /\ tries < MaxRetries + 1         \* a retryable tool error
              /\ worker' = [worker EXCEPT ![w].tries = tries]

RetriesExhausted(w) ==
    /\ worker[w].tries >= MaxRetries + 1
    /\ worker' = [worker EXCEPT ![w].outcome = "tool_error", ![w].pc = "finalize"]
    /\ UNCHANGED <<exec, invoked>>

run_with_retries(w) ==
    /\ worker[w].pc = "invoke"
    /\ Attempt(w) \/ RetriesExhausted(w)
    /\ UNCHANGED <<rowVars, approval, users, tasks, resumed, faults>>

\* The stored outcome, and what the caller makes of it: the graph goes back to
\* the model after an ordinary tool error, a resume fails the run.  An exception
\* nobody expected leaves the row as it is; the graph's caller fails the run, a
\* resume does not catch it.
finalize_execution(w) ==
    LET o == worker[w].outcome
        resume == worker[w].mode = "resume" IN
    /\ worker[w].pc = "finalize"
    /\ exec' = CASE o = "ok" -> Finalized(key(w), "SUCCEEDED", "none")
                 [] o = "tool_timeout" -> Finalized(key(w), "TIMED_OUT", "tool_timeout")
                 [] o = "uncaught" -> exec
                 [] OTHER -> Finalized(key(w), "FAILED", "tool_error")
    /\ IF o = "uncaught" /\ resume THEN Finish(w)
       ELSE AfterTool(w, IF o \in {"invalid_output", "uncaught"} \/ (resume /\ o # "ok")
                         THEN "fail" ELSE NextTurn(w))
    /\ UNCHANGED <<rowVars, approval, users, invoked, tasks, resumed, faults>>

-----------------------------------------------------------------------------
(* Leaving the RUNNING state *)

pause_run_for_approval(w) ==
    /\ worker[w].pc = "pause"
    /\ IF runStatus[run(w)] = "RUNNING"
       THEN /\ runStatus' = [runStatus EXCEPT ![run(w)] = "WAITING_FOR_APPROVAL"]
            /\ modelCalls' = [modelCalls EXCEPT ![run(w)] = worker[w].turn]
       ELSE UNCHANGED <<runStatus, modelCalls>>
    /\ Finish(w)
    /\ UNCHANGED <<toolCalls, output, handoff, toolVars, tasks, resumed, faults>>

complete_run(w) ==
    /\ worker[w].pc = "complete"
    /\ IF runStatus[run(w)] = "RUNNING"
       THEN /\ runStatus' = [runStatus EXCEPT ![run(w)] = "SUCCEEDED"]
            /\ modelCalls' = [modelCalls EXCEPT ![run(w)] = worker[w].turn]
            /\ Reply(run(w))
       ELSE UNCHANGED <<runStatus, modelCalls, output>>
    /\ Finish(w)
    /\ UNCHANGED <<toolCalls, handoff, toolVars, tasks, resumed, faults>>

\* Create or reuse the conversation's active handoff, acknowledge, terminate.
complete_run_as_handoff(w) ==
    /\ worker[w].pc = "hand_over"
    /\ IF runStatus[run(w)] = "RUNNING"
       THEN /\ runStatus' = [runStatus EXCEPT ![run(w)] = "HANDED_OFF"]
            /\ modelCalls' = [modelCalls EXCEPT ![run(w)] = worker[w].turn]
            /\ handoff' = IF handoff = NoRun THEN run(w) ELSE handoff
            /\ Reply(run(w))
       ELSE UNCHANGED <<runStatus, modelCalls, handoff, output>>
    /\ Finish(w)
    /\ UNCHANGED <<toolCalls, toolVars, tasks, resumed, faults>>

\* _fail_run and _budget_exceeded_run: any status but a terminal one.
TerminateRun(w, status) ==
    /\ IF runStatus[run(w)] \notin RunTerminal
       THEN /\ runStatus' = [runStatus EXCEPT ![run(w)] = status]
            /\ modelCalls' = [modelCalls EXCEPT ![run(w)] = worker[w].turn]
       ELSE UNCHANGED <<runStatus, modelCalls>>
    /\ Finish(w)
    /\ UNCHANGED <<toolCalls, output, handoff, toolVars, tasks, resumed, faults>>

fail_run(w) == worker[w].pc = "fail" /\ TerminateRun(w, "FAILED")

budget_exceeded_run(w) ==
    worker[w].pc = "budget_exceeded" /\ TerminateRun(w, "BUDGET_EXCEEDED")

-----------------------------------------------------------------------------
(* Approvals *)

\* A decision by a role the request admits.  Refused decisions change nothing.
decide_approval(k, decision) ==
    /\ approval[k] = "PENDING"
    /\ approval' = [approval EXCEPT ![k] = decision]
    /\ exec' = IF decision = "REJECTED" THEN Terminated(k) ELSE exec
    /\ Publish(ResumeTask(k))
    /\ UNCHANGED <<rowVars, worker, users, invoked, resumed>>

\* _expire_if_stale and expire_stale_approvals: the deadline has passed.
expire_approval(k) ==
    /\ approval[k] = "PENDING"
    /\ approval' = [approval EXCEPT ![k] = "EXPIRED"]
    /\ exec' = Terminated(k)
    /\ Publish(ResumeTask(k))
    /\ UNCHANGED <<rowVars, worker, users, invoked, resumed>>

\* resume_agent_run_after_approval up to _claim_run_for_resume.  A message for an
\* undecided approval, or for a run that does not wait, is dropped.
claim_run_for_resume(w, k) ==
    LET r == exec[k].run IN
    /\ ~Working(w)
    /\ Take(ResumeTask(k))
    /\ IF approval[k] \in Decided /\ runStatus[r] = "WAITING_FOR_APPROVAL"
       THEN /\ runStatus' = [runStatus EXCEPT ![r] = "RUNNING"]
            /\ resumed' = [resumed EXCEPT ![k] = @ + 1]
            /\ worker' = [worker EXCEPT ![w] =
                 [IdleWorker EXCEPT !.run = r, !.turn = modelCalls[r],
                    !.pc = IF approval[k] = "APPROVED" THEN "resume_claim"
                                                       ELSE "continue",
                    !.mode = IF approval[k] = "APPROVED" THEN "resume"
                                                         ELSE "continuation",
                    !.key = IF approval[k] = "APPROVED" THEN k ELSE NoKey]]
       ELSE UNCHANGED <<runStatus, resumed, worker>>
    /\ UNCHANGED <<modelCalls, toolCalls, output, handoff, toolVars>>

\* _claim_resume: only a waiting row is executed.  A row another worker runs
\* ends this call and leaves the run as it was claimed.
claim_resume(w) ==
    LET row == exec[key(w)] IN
    /\ worker[w].pc = "resume_claim"
    /\ IF row.status = "WAITING_FOR_APPROVAL"
       THEN /\ exec' = [exec EXCEPT ![key(w)].status = "RUNNING"]
            /\ worker' = [worker EXCEPT ![w].pc = "reserve", ![w].tries = row.attempts]
       ELSE /\ UNCHANGED exec
            /\ CASE row.status = "SUCCEEDED" -> AfterTool(w, NextTurn(w))
                 [] row.status = "RUNNING" -> Finish(w)
                 [] OTHER -> AfterTool(w, "fail")
    /\ UNCHANGED <<rowVars, approval, users, invoked, tasks, resumed, faults>>

\* A new graph starts from the persisted counters; its provider may be
\* misconfigured by now.
continue_run_after_resumed_tool(w) ==
    /\ worker[w].pc = "continue"
    /\ Go(w, "check_budget") \/ Go(w, "fail")
    /\ UNCHANGED <<rowVars, toolVars, tasks, resumed, faults>>

\* The tool or its binding was disabled, or the stored arguments no longer
\* validate: the claimed row is failed without calling the handler.
refuse_resume(w) ==
    /\ worker[w].pc = "reserve" /\ worker[w].mode = "resume"
    /\ exec' = Finalized(key(w), "FAILED", "tool_error")
    /\ AfterTool(w, "fail")
    /\ UNCHANGED <<rowVars, approval, users, invoked, tasks, resumed, faults>>

-----------------------------------------------------------------------------
(* Cancellation, recovery and faults *)

\* An approval nobody has answered cannot be answered any more.
cancel_approval_for_execution(k) ==
    IF approval[k] = "PENDING" THEN "CANCELLED" ELSE approval[k]

\* Only a run that was waiting also withdraws its approvals and executions.
cancel_agent_run(r) ==
    LET withdrawn == {k \in Keys : /\ runStatus[r] = "WAITING_FOR_APPROVAL"
                                   /\ exec[k].run = r
                                   /\ exec[k].status = "WAITING_FOR_APPROVAL"}
    IN  /\ runStatus[r] \notin RunTerminal \cup {"none"}
        /\ runStatus' = [runStatus EXCEPT ![r] = "CANCELLED"]
        /\ approval' = [k \in Keys |-> IF k \in withdrawn THEN cancel_approval_for_execution(k)
                                                        ELSE approval[k]]
        /\ exec' = [k \in Keys |->
             IF k \in withdrawn THEN [exec[k] EXCEPT !.status = "CANCELLED"]
                                ELSE exec[k]]
        /\ handoff' = IF handoff = r THEN NoRun ELSE handoff
        /\ UNCHANGED <<modelCalls, toolCalls, output, tasks, worker, users, invoked,
                       resumed, faults>>

\* _recover_one_stuck_run: RUNNING without a write for longer than the
\* threshold, because its worker is gone or, against the odds, only slow.
recover_stuck_run(r) ==
    /\ runStatus[r] = "RUNNING"
    /\ IF Orphaned(r) THEN UNCHANGED faults ELSE faults > 0 /\ faults' = faults - 1
    /\ runStatus' = [runStatus EXCEPT ![r] = "FAILED"]
    /\ exec' = [k \in Keys |->
         IF exec[k].run = r /\ exec[k].status \in {"PENDING", "RUNNING"}
         THEN [exec[k] EXCEPT !.status = "FAILED", !.error = "stuck_worker_recovered"]
         ELSE exec[k]]
    /\ UNCHANGED <<modelCalls, toolCalls, output, handoff, approval, tasks,
                   worker, users, invoked, resumed>>

redispatch_pending_run(r) ==
    /\ runStatus[r] = "PENDING"
    /\ ExecuteTask(r) \notin tasks
    /\ Publish(ExecuteTask(r))
    /\ UNCHANGED <<rowVars, toolVars, worker, resumed>>

\* Any decided approval of a waiting run is published again.
redispatch_waiting_run(k) ==
    /\ exec[k].run # NoRun
    /\ runStatus[exec[k].run] = "WAITING_FOR_APPROVAL"
    /\ approval[k] \in Decided
    /\ ResumeTask(k) \notin tasks
    /\ Publish(ResumeTask(k))
    /\ UNCHANGED <<rowVars, toolVars, worker, resumed>>

\* A worker process dies; its message was acknowledged when it was taken.
WorkerCrash(w) ==
    /\ Working(w)
    /\ faults > 0
    /\ faults' = faults - 1
    /\ Finish(w)
    /\ UNCHANGED <<rowVars, toolVars, tasks, resumed>>

\* A support manager resolves the conversation's active handoff.
resolve_handoff ==
    /\ handoff # NoRun
    /\ handoff' = NoRun
    /\ UNCHANGED <<runStatus, modelCalls, toolCalls, output, toolVars, tasks,
                   worker, resumed, faults>>

-----------------------------------------------------------------------------

WorkerStep(w) ==
    \/ execute_support_agent_run(w)
    \/ check_budget(w)
    \/ generate_response(w)
    \/ execute_handoff_request(w)
    \/ execute_tool_call(w)
    \/ claim_execution(w)
    \/ already_policy_evaluated(w)
    \/ run_policy_gate(w)
    \/ transition_running(w)
    \/ reserve_budget_slot(w)
    \/ run_with_retries(w)
    \/ finalize_execution(w)
    \/ pause_run_for_approval(w)
    \/ complete_run(w)
    \/ complete_run_as_handoff(w)
    \/ fail_run(w)
    \/ budget_exceeded_run(w)
    \/ claim_resume(w)
    \/ continue_run_after_resumed_tool(w)
    \/ refuse_resume(w)

Deliver(w) ==
    \/ \E r \in Runs : claim_agent_run(w, r)
    \/ \E k \in Keys : claim_run_for_resume(w, k)

\* The Celery Beat sweeps.
Sweep ==
    \/ \E r \in Runs : redispatch_pending_run(r)
    \/ \E k \in Keys : redispatch_waiting_run(k)

Next ==
    \/ \E w \in Workers : WorkerStep(w) \/ Deliver(w) \/ WorkerCrash(w)
    \/ \E r \in Runs : create_agent_run(r) \/ cancel_agent_run(r) \/ recover_stuck_run(r)
    \/ \E k \in Keys : expire_approval(k)
    \/ \E k \in Keys, d \in {"APPROVED", "REJECTED"} : decide_approval(k, d)
    \/ Sweep
    \/ resolve_handoff

Spec == Init /\ [][Next]_vars

\* Workers keep running, the broker hands out what it holds, and Beat keeps
\* running the sweeps: expiry, redispatch, and recovery of runs without a worker.
\* People promise nothing: no fairness on decisions, cancellation or handoffs.
Fairness ==
    /\ \A w \in Workers : WF_vars(WorkerStep(w))
    /\ WF_vars(\E w \in Workers : Deliver(w))
    /\ \A k \in Keys : WF_vars(expire_approval(k))
    /\ \A r \in Runs : WF_vars(Orphaned(r) /\ recover_stuck_run(r))
    /\ WF_vars(Sweep)

FairSpec == Spec /\ Fairness

-----------------------------------------------------------------------------
(* Properties *)

WorkerRecords ==
    [pc : PCs, run : Runs \cup {NoRun}, key : Keys \cup {NoKey}, mode : Modes,
     turn : 0..MaxModelCalls, attempt : 0..MaxModelCalls,
     tries : 0..(MaxRetries + 1), outcome : Outcomes]

Executions ==
    [status : ExecStatuses, run : Runs \cup {NoRun}, policy : PolicyDecisions,
     attempts : 0..(MaxRetries + 1), error : ErrorCodes]

\* Every column and every worker keeps its type and its bound; in particular
\* tool_call_count never passes max_tool_calls, however calls interleave.
TypeOK ==
    /\ runStatus \in [Runs -> RunStatuses]
    /\ modelCalls \in [Runs -> 0..MaxModelCalls]
    /\ toolCalls \in [Runs -> 0..MaxToolCalls]
    /\ output \in [Runs -> {0, 1}]
    /\ handoff \in Runs \cup {NoRun}
    /\ exec \in [Keys -> Executions]
    /\ approval \in [Keys -> ApprovalStatuses]
    /\ tasks \subseteq Tasks
    /\ worker \in [Workers -> WorkerRecords]
    /\ users \in [Keys -> SUBSET Runs]
    /\ invoked \in [Keys -> Nat]
    /\ resumed \in [Keys -> Nat]
    /\ faults \in 0..MaxFaults

\* claim_agent_run and _claim_run_for_resume hand a run to one worker at a time:
\* a run that is waiting or pending is in nobody's hands, and no two workers
\* hold the same run, even while redelivered and swept messages race.
ExclusiveOwner ==
    \A r \in Runs :
        /\ runStatus[r] \in {"none", "PENDING", "WAITING_FOR_APPROVAL"} => Orphaned(r)
        /\ \A v, w \in Workers : Owns(v, r) /\ Owns(w, r) => v = w

\* The rows one run at most has used so far.  A continuation's key does not carry
\* its run's id, so two runs may compute the same one and share its row.
UnsharedKeys == {k \in Keys : \A r, s \in users[k] : r = s}

Authorized(k) == exec[k].policy = "ALLOW" \/ approval[k] = "APPROVED"

\* The approval and the execution it gates tell the same story after every
\* interleaving of deciding, expiring, cancelling, recovering and resuming: an
\* undecided request has its execution waiting and untouched, a refused one has it
\* closed, a request exists exactly where the gate asked for one, and nothing waits
\* for an answer that cannot come.  The first two hold of a row while one run uses it,
\* the others of every row.
DecisionMatchesExecution ==
    /\ \A k \in UnsharedKeys :
          /\ approval[k] = "PENDING" => exec[k].status = "WAITING_FOR_APPROVAL"
          /\ approval[k] \in {"REJECTED", "EXPIRED"} => exec[k].status = "APPROVAL_TERMINATED"
    /\ \A k \in Keys :
          /\ approval[k] # "none" <=> exec[k].policy = "REQUIRE_APPROVAL"
          /\ exec[k].status = "WAITING_FOR_APPROVAL" => approval[k] \in {"PENDING", "APPROVED"}

\* The whole promise of the policy gate: a handler has run only for an action
\* the policy allowed or a person approved, never for one denied, rejected,
\* expired or still undecided.  Of a row two runs share this is left: its action
\* has been judged, and a denied one never runs.
HandlerAuthorized ==
    /\ \A k \in UnsharedKeys : invoked[k] > 0 => Authorized(k)
    /\ \A k \in Keys : invoked[k] > 0 => exec[k].policy \in {"ALLOW", "REQUIRE_APPROVAL"}

\* _reserve_budget_slot is taken before the handler runs: a run has never called
\* more distinct actions than the slots it has paid for, whatever crashes,
\* resets or resumes come between the reservation and the call.  A row two runs have
\* claimed counts for neither.
SlotBeforeHandler ==
    \A r \in Runs :
        Cardinality({k \in UnsharedKeys : exec[k].run = r /\ invoked[k] > 0}) <= toolCalls[r]

\* The customer sees exactly one message for a run that answered or handed off,
\* and none for any other.
OneReply ==
    \A r \in Runs :
        output[r] = IF r \in ConversationRuns /\ runStatus[r] \in {"SUCCEEDED", "HANDED_OFF"}
                    THEN 1 ELSE 0

\* A run that lost the race with cancellation leaves no active handoff behind.
NoOrphanHandoff ==
    handoff # NoRun => runStatus[handoff] = "HANDED_OFF" /\ handoff \in ConversationRuns

\* approval-resume-continuations.md: "an AgentRun paused in WAITING_FOR_APPROVAL
\* now always reaches a terminal, single-message outcome, for every human
\* decision and for expiry".  So a waiting run has an approval of its own, undecided, so that its
\* decision or expiry will publish a resume, or decided, so that the sweep will.
WaitingRunWakeable ==
    \A r \in Runs :
        runStatus[r] = "WAITING_FOR_APPROVAL" =>
            \E k \in Keys : exec[k].run = r /\ approval[k] \in Decided \cup {"PENDING"}

\* A terminal run is never reopened, and gains no reply, by a worker that comes
\* late: a slow one after recovery, or one that lost to cancellation.
TerminalRunFrozen ==
    [][\A r \in Runs : runStatus[r] \in RunTerminal =>
          runStatus'[r] = runStatus[r] /\ output'[r] = output[r]]_vars

\* Every run that is created ends, whatever is lost or crashes and whether or
\* not anybody decides its approvals.
EveryRunEnds ==
    \A r \in Runs : runStatus[r] = "PENDING" ~> runStatus[r] \in RunTerminal

Lifecycle == INSTANCE RunLifecycle WITH
    status <- runStatus, reply <- output,
    holder <- [r \in Runs |-> {w \in Workers : Owns(w, r)}]

\* Every interleaving of executions, resumes, redeliveries, sweeps, cancellations
\* and crashes is one of the orderly lives RunLifecycle allows: in particular
\* nothing settles a run it does not hold, or holds one another worker has.
ImplementsLifecycle == Lifecycle!LifecycleSpec

(* What the repository's comments and documents say, and the code does not do. *)

\* full-agent-orchestration.md: "a cancellation that wins never lets a provider
\* call slip through afterward".
NoApprovedCallAfterCancel ==
    [][\A k \in Keys : invoked'[k] > invoked[k] /\ approval[k] = "APPROVED" =>
          runStatus[exec[k].run] # "CANCELLED"]_vars

=============================================================================
