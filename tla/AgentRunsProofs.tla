--------------------------- MODULE AgentRunsProofs ---------------------------
(***************************************************************************)
(* AgentRuns is type-correct, hands a run to one worker at a time, answers *)
(* at most once and implements RunLifecycle; it leaves no waiting run      *)
(* without somebody to wake it. On the rows one run has claimed it invokes *)
(* only authorized tools, keeps approvals and executions in step and pays  *)
(* for a slot of the budget before a handler is called; on the rows that   *)
(* runs share it never invokes an action the policy denied. All this for   *)
(* any number of runs, workers, calls and faults and any budgets.          *)
(***************************************************************************)
EXTENDS AgentRuns, FiniteSetTheorems, TLAPS

\* The places where a worker has a tool call in hand.
ToolPCs == {"tool_request", "claim", "check_policy", "gate", "start",
            "resume_claim", "reserve", "invoke", "finalize"}

\* What a worker remembers makes sense where it is.
WorkerShape(rec) ==
    /\ rec \in WorkerRecords
    /\ rec.pc # "idle" => rec.run \in Runs
    /\ rec.pc \in ToolPCs => rec.key \in Keys
    /\ rec.pc = "generate" => rec.turn < MaxModelCalls
    /\ rec.pc = "hand_over" => rec.run \in ConversationRuns
    /\ rec.attempt <= rec.turn

WorkersInv ==
    /\ worker \in [Workers -> WorkerRecords]
    /\ \A w \in Workers : WorkerShape(worker[w])

\* Every execution row and every approval request belongs to a run.
RowsInv ==
    \A k \in Keys :
        exec[k].status # "none" \/ approval[k] # "none" => exec[k].run \in Runs

TypeInv == TypeOK /\ WorkersInv /\ RowsInv

IInv == TypeInv /\ ExclusiveOwner /\ OneReply /\ NoOrphanHandoff

\* Replacing one worker's record by a sensible one.
LEMMA WorkerUpdate ==
    ASSUME WorkersInv, NEW w \in Workers, NEW rec, WorkerShape(rec),
           worker' = [worker EXCEPT ![w] = rec]
    PROVE  /\ WorkersInv'
           /\ worker'[w] = rec
           /\ \A v \in Workers : v # w => worker'[v] = worker[v]
<1>1. rec \in WorkerRecords
  BY DEF WorkerShape
<1>2. worker' \in [Workers -> WorkerRecords]
  BY <1>1 DEF WorkersInv
<1>3. worker'[w] = rec /\ \A v \in Workers : v # w => worker'[v] = worker[v]
  BY DEF WorkersInv
<1>4. \A v \in Workers : WorkerShape(worker[v])'
  <2> SUFFICES ASSUME NEW v \in Workers PROVE WorkerShape(worker'[v])
    BY DEF WorkerShape, WorkerRecords
  <2> QED
    BY <1>3 DEF WorkersInv
<1> QED
  BY <1>2, <1>3, <1>4 DEF WorkersInv, WorkerShape

\* A worker moves without touching the run, the reply or the handoff: it keeps
\* the run it has, or lets go of it.
Moves(w) ==
    /\ Working(w)
    /\ \A v \in Workers : v # w => worker'[v] = worker[v]
    /\ worker'[w].pc = "idle" \/ worker'[w].run = run(w)

LEMMA FinishMoves ==
    ASSUME WorkersInv, NEW w \in Workers, Working(w), Finish(w)
    PROVE  WorkersInv' /\ Moves(w) /\ worker'[w].pc = "idle"
<1>1. WorkerShape(IdleWorker)
  BY BoundsAssumption DEF WorkerShape, IdleWorker, WorkerRecords, PCs, Modes, Outcomes,
                          ToolPCs
<1>2. worker' = [worker EXCEPT ![w] = IdleWorker]
  BY DEF Finish
<1>3. /\ WorkersInv' /\ worker'[w] = IdleWorker
      /\ \A v \in Workers : v # w => worker'[v] = worker[v]
  BY <1>1, <1>2, WorkerUpdate
<1>4. worker'[w].pc = "idle"
  BY <1>3 DEF IdleWorker
<1> QED
  BY <1>3, <1>4 DEF Moves

\* What Go asks of the next place.
MayGo(w, next) ==
    /\ next \in PCs \ {"idle"}
    /\ next \in ToolPCs => key(w) \in Keys
    /\ next = "generate" => worker[w].turn < MaxModelCalls
    /\ next = "hand_over" => run(w) \in ConversationRuns

LEMMA GoMoves ==
    ASSUME WorkersInv, NEW w \in Workers, Working(w), NEW next, MayGo(w, next),
           Go(w, next)
    PROVE  WorkersInv' /\ Moves(w)
<1> DEFINE rec == [worker[w] EXCEPT !.pc = next]
<1>1. worker[w] \in WorkerRecords /\ WorkerShape(worker[w])
  BY DEF WorkersInv
<1>2. WorkerShape(rec) /\ rec.run = run(w)
  BY <1>1 DEF WorkerShape, WorkerRecords, MayGo, Working, run, key
<1>3. worker' = [worker EXCEPT ![w] = rec]
  BY DEF Go
<1> HIDE DEF rec
<1> QED
  BY <1>2, <1>3, WorkerUpdate DEF Moves

LEMMA AfterToolMoves ==
    ASSUME WorkersInv, NEW w \in Workers, Working(w), NEW next,
           next \in PCs \ (ToolPCs \cup {"idle", "generate", "hand_over"}),
           AfterTool(w, next)
    PROVE  WorkersInv' /\ Moves(w)
<1> DEFINE mode == IF worker[w].mode = "resume" THEN "continuation" ELSE worker[w].mode
           rec == [worker[w] EXCEPT !.pc = next, !.key = NoKey, !.tries = 0,
                                    !.outcome = "none", !.mode = mode]
<1>1. worker[w] \in WorkerRecords /\ WorkerShape(worker[w])
  BY DEF WorkersInv
<1>2. WorkerShape(rec) /\ rec.run = run(w)
  <2>1. rec \in WorkerRecords
    <3>1. mode \in Modes /\ 0 \in 0..(MaxRetries + 1) /\ "none" \in Outcomes
      BY <1>1, BoundsAssumption DEF WorkerRecords, Modes, Outcomes
    <3> HIDE DEF mode
    <3> QED
      BY <1>1, <3>1 DEF WorkerRecords
  <2>2. /\ rec.pc = next /\ rec.run = worker[w].run
        /\ rec.turn = worker[w].turn /\ rec.attempt = worker[w].attempt
    BY <1>1 DEF WorkerRecords
  <2> QED
    BY <1>1, <2>1, <2>2 DEF WorkerShape, Working, run
<1>3. worker' = [worker EXCEPT ![w] = rec]
  BY DEF AfterTool
<1> HIDE DEF rec
<1> QED
  BY <1>2, <1>3, WorkerUpdate DEF Moves

\* Replacing one execution row by another that belongs to a run.
LEMMA RowUpdate ==
    ASSUME TypeOK, RowsInv, NEW k \in Keys, NEW rec \in Executions,
           rec.status # "none" \/ approval'[k] # "none" => rec.run \in Runs,
           exec' = [exec EXCEPT ![k] = rec],
           \A j \in Keys : j # k => approval'[j] = approval[j]
    PROVE  exec' \in [Keys -> Executions] /\ RowsInv'
<1>1. exec'[k] = rec /\ \A j \in Keys : j # k => exec'[j] = exec[j]
  BY DEF TypeOK
<1> QED
  BY <1>1 DEF TypeOK, RowsInv

Quiet(w) == Moves(w) /\ UNCHANGED <<runStatus, output, handoff>>

\* The steps that only move the worker.
LEMMA WorkerOnly ==
    ASSUME TypeInv, WorkersInv', UNCHANGED <<rowVars, toolVars, tasks, resumed, faults>>
    PROVE  TypeInv' /\ UNCHANGED <<runStatus, output, handoff>>
<1>1. TypeOK'
  BY DEF TypeInv, TypeOK, WorkersInv, rowVars, toolVars
<1>2. RowsInv'
  BY DEF TypeInv, RowsInv, toolVars
<1> QED
  BY <1>1, <1>2 DEF TypeInv, rowVars

\* generate_response counts the call and goes on with the answer.
LEMMA GenerateStep ==
    ASSUME TypeInv, NEW w \in Workers, generate_response(w)
    PROVE  WorkersInv' /\ Moves(w)
<1> DEFINE counted == [worker[w] EXCEPT !.turn = @ + 1, !.attempt = @ + 1]
<1>1. /\ worker[w] \in WorkerRecords /\ WorkerShape(worker[w]) /\ Working(w)
      /\ worker[w].turn < MaxModelCalls /\ run(w) \in Runs /\ worker[w].pc = "generate"
  BY DEF TypeInv, WorkersInv, WorkerShape, generate_response, Working, run
<1>2. /\ counted \in WorkerRecords
      /\ counted.turn = worker[w].turn + 1 /\ counted.attempt = worker[w].attempt + 1
      /\ counted.run = run(w) /\ counted.key = worker[w].key
      /\ counted.attempt <= counted.turn
  <2>1. /\ worker[w].turn + 1 \in 0..MaxModelCalls
        /\ worker[w].attempt + 1 \in 0..MaxModelCalls
        /\ worker[w].attempt + 1 <= worker[w].turn + 1
    BY <1>1, BoundsAssumption DEF WorkerShape, WorkerRecords
  <2>2. counted \in WorkerRecords
    BY <1>1, <2>1 DEF WorkerRecords
  <2>3. /\ counted.turn = worker[w].turn + 1 /\ counted.attempt = worker[w].attempt + 1
        /\ counted.run = run(w) /\ counted.key = worker[w].key
    BY <1>1 DEF WorkerRecords, run
  <2> QED
    BY <2>1, <2>2, <2>3
<1> HIDE DEF counted
<1>3. ASSUME NEW next \in {"check_budget", "hand_over", "fail", "handoff_request", "complete"},
             next = "hand_over" => run(w) \in ConversationRuns,
             worker' = [worker EXCEPT ![w] = [counted EXCEPT !.pc = next]]
      PROVE  WorkersInv' /\ Moves(w)
  <2> DEFINE rec == [counted EXCEPT !.pc = next]
  <2>1. rec \in WorkerRecords
    BY <1>2 DEF WorkerRecords, PCs
  <2>2. /\ rec.pc = next /\ rec.run = counted.run
        /\ rec.turn = counted.turn /\ rec.attempt = counted.attempt
    BY <1>2 DEF WorkerRecords
  <2>3. WorkerShape(rec) /\ rec.run = run(w)
    BY <1>1, <1>2, <1>3, <2>1, <2>2 DEF WorkerShape, ToolPCs
  <2> HIDE DEF rec
  <2> QED
    BY <1>1, <1>3, <2>3, WorkerUpdate DEF TypeInv, Moves, rec
<1>4. ASSUME NEW retryable \in BOOLEAN, ProviderError(w, retryable)
      PROVE  WorkersInv' /\ Moves(w)
  <2>1. \E next \in {"check_budget", "hand_over", "fail"} :
           /\ next = "hand_over" => run(w) \in ConversationRuns
           /\ worker' = [worker EXCEPT ![w] = [counted EXCEPT !.pc = next]]
    BY <1>4 DEF ProviderError, fail_or_handoff, counted
  <2> QED
    BY <1>3, <2>1
<1>5. ASSUME NEW next \in {"handoff_request", "complete", "fail"}, ProviderAnswer(w, next)
      PROVE  WorkersInv' /\ Moves(w)
  <2>1. worker' = [worker EXCEPT ![w] = [counted EXCEPT !.pc = next]]
    BY <1>5 DEF ProviderAnswer, counted
  <2> QED
    BY <1>3, <2>1
<1>6. ASSUME NEW call \in Calls, ProviderToolCall(w, call)
      PROVE  WorkersInv' /\ Moves(w)
  <2> DEFINE k == IdempotencyKey(w, worker[w].turn + 1, call)
             rec == [counted EXCEPT !.pc = "tool_request", !.key = k]
  <2>1. worker[w].turn + 1 \in 1..MaxModelCalls
    BY <1>1, BoundsAssumption DEF WorkerRecords
  <2>2. k \in Keys
    BY <1>1, <2>1 DEF Keys, Scopes, IdempotencyKey
  <2>3. worker' = [worker EXCEPT ![w] = rec]
    BY <1>6 DEF ProviderToolCall, counted
  <2> HIDE DEF k
  <2>4. rec \in WorkerRecords
    BY <1>2, <2>2 DEF WorkerRecords, PCs
  <2>5. /\ rec.pc = "tool_request" /\ rec.run = counted.run /\ rec.key = k
        /\ rec.turn = counted.turn /\ rec.attempt = counted.attempt
    BY <1>2 DEF WorkerRecords
  <2>6. WorkerShape(rec) /\ rec.run = run(w)
    BY <1>1, <1>2, <2>2, <2>4, <2>5 DEF WorkerShape
  <2> HIDE DEF rec
  <2> QED
    BY <1>1, <2>3, <2>6, WorkerUpdate DEF TypeInv, Moves
<1> QED
  BY <1>4, <1>5, <1>6 DEF generate_response

\* The nodes of the graph that write nothing.
LEMMA GraphSteps ==
    ASSUME TypeInv, NEW w \in Workers,
           \/ execute_support_agent_run(w)
           \/ check_budget(w)
           \/ generate_response(w)
           \/ execute_handoff_request(w)
           \/ execute_tool_call(w)
           \/ already_policy_evaluated(w)
           \/ continue_run_after_resumed_tool(w)
    PROVE  TypeInv' /\ Quiet(w)
<1>1. WorkersInv /\ WorkerShape(worker[w]) /\ Working(w)
  BY DEF TypeInv, WorkersInv, Working, execute_support_agent_run, check_budget,
         generate_response, execute_handoff_request, execute_tool_call,
         already_policy_evaluated, continue_run_after_resumed_tool
<1>2. \A next \in {"check_budget", "fail", "budget_exceeded"} : MayGo(w, next)
  BY DEF MayGo, PCs, ToolPCs
<1>3. UNCHANGED <<rowVars, toolVars, tasks, resumed, faults>>
  BY DEF execute_support_agent_run, check_budget, generate_response,
         execute_handoff_request, execute_tool_call, already_policy_evaluated,
         continue_run_after_resumed_tool
<1>4. WorkersInv' /\ Moves(w)
  <2>1. CASE execute_support_agent_run(w)
    <3>1. run(w) \in ConversationRuns => MayGo(w, "hand_over")
      BY DEF MayGo, PCs, ToolPCs
    <3> QED
      BY <1>1, <1>2, <2>1, <3>1, GoMoves DEF execute_support_agent_run
  <2>2. CASE check_budget(w)
    <3>1. worker[w].turn < MaxModelCalls => MayGo(w, "generate")
      BY DEF MayGo, PCs, ToolPCs
    <3> QED
      BY <1>1, <1>2, <2>2, <3>1, GoMoves, FinishMoves DEF check_budget
  <2>3. CASE generate_response(w)
    BY <2>3, GenerateStep
  <2>4. CASE execute_handoff_request(w)
    <3>1. run(w) \in ConversationRuns => MayGo(w, "hand_over")
      BY DEF MayGo, PCs, ToolPCs
    <3> QED
      BY <1>1, <1>2, <2>4, <3>1, GoMoves, FinishMoves DEF execute_handoff_request
  <2>5. CASE execute_tool_call(w)
    <3>1. worker[w].pc \in ToolPCs
      BY <2>5 DEF execute_tool_call, ToolPCs
    <3>2. MayGo(w, "claim")
      BY <1>1, <3>1 DEF MayGo, PCs, ToolPCs, WorkerShape, key
    <3>3. {"check_budget", "fail", "budget_exceeded"} \subseteq
             PCs \ (ToolPCs \cup {"idle", "generate", "hand_over"})
      BY DEF PCs, ToolPCs
    <3> QED
      BY <1>1, <2>5, <3>2, <3>3, GoMoves, FinishMoves, AfterToolMoves
         DEF execute_tool_call
  <2>6. CASE already_policy_evaluated(w)
    <3>1. worker[w].pc \in ToolPCs
      BY <2>6 DEF already_policy_evaluated, ToolPCs
    <3>2. MayGo(w, "gate") /\ MayGo(w, "start")
      BY <1>1, <3>1 DEF MayGo, PCs, ToolPCs, WorkerShape, key
    <3> QED
      BY <1>1, <2>6, <3>2, GoMoves DEF already_policy_evaluated
  <2>7. CASE continue_run_after_resumed_tool(w)
    BY <1>1, <1>2, <2>7, GoMoves DEF continue_run_after_resumed_tool
  <2> QED
    BY <2>1, <2>2, <2>3, <2>4, <2>5, <2>6, <2>7
<1> QED
  BY <1>3, <1>4, WorkerOnly DEF Quiet

\* What is left to show of a step at the tool boundary.
LEMMA ToolStep ==
    ASSUME TypeInv, WorkersInv', RowsInv', exec' \in [Keys -> Executions],
           approval' \in [Keys -> ApprovalStatuses], invoked' \in [Keys -> Nat],
           users' \in [Keys -> SUBSET Runs],
           toolCalls' \in [Runs -> 0..MaxToolCalls],
           UNCHANGED <<runStatus, modelCalls, output, handoff, tasks, resumed, faults>>
    PROVE  TypeInv'
BY DEF TypeInv, TypeOK, WorkersInv

\* Only a RUNNING row is finalized, and it keeps its run.
LEMMA FinalizedRow ==
    ASSUME TypeOK, RowsInv, NEW k \in Keys, NEW status \in ExecStatuses,
           NEW code \in ErrorCodes, exec' = Finalized(k, status, code),
           UNCHANGED approval
    PROVE  exec' \in [Keys -> Executions] /\ RowsInv'
<1>1. CASE exec[k].status = "RUNNING"
  <2> DEFINE rec == [exec[k] EXCEPT !.status = status, !.error = code]
  <2>1. exec[k] \in Executions /\ exec[k].run \in Runs
    BY <1>1 DEF TypeOK, RowsInv
  <2>2. rec \in Executions /\ rec.run = exec[k].run
    BY <2>1 DEF Executions
  <2>3. exec' = [exec EXCEPT ![k] = rec]
    BY <1>1 DEF Finalized
  <2> HIDE DEF rec
  <2> QED
    BY <2>1, <2>2, <2>3, RowUpdate
<1>2. CASE exec[k].status # "RUNNING"
  BY <1>2 DEF Finalized, TypeOK, RowsInv
<1> QED
  BY <1>1, <1>2

\* What a worker with a tool call in hand knows.
LEMMA ToolWorker ==
    ASSUME TypeInv, NEW w \in Workers, worker[w].pc \in ToolPCs
    PROVE  /\ WorkersInv /\ WorkerShape(worker[w]) /\ worker[w] \in WorkerRecords
           /\ Working(w) /\ run(w) \in Runs /\ key(w) \in Keys
           /\ exec[key(w)] \in Executions
           /\ \A next \in ToolPCs : MayGo(w, next)
           /\ {"check_budget", "continue", "fail", "budget_exceeded", "pause"} \subseteq
                 PCs \ (ToolPCs \cup {"idle", "generate", "hand_over"})
<1>1. WorkersInv /\ WorkerShape(worker[w]) /\ worker[w] \in WorkerRecords /\ Working(w)
  BY DEF TypeInv, WorkersInv, ToolPCs, Working
<1>2. run(w) \in Runs /\ key(w) \in Keys
  BY <1>1 DEF WorkerShape, Working, run, key
<1>3. exec[key(w)] \in Executions
  BY <1>2 DEF TypeInv, TypeOK
<1> QED
  BY <1>1, <1>2, <1>3 DEF MayGo, PCs, ToolPCs

LEMMA ClaimStep ==
    ASSUME TypeInv, NEW w \in Workers, claim_execution(w)
    PROVE  TypeInv' /\ Quiet(w)
<1> DEFINE k == key(w)
<1>1. worker[w].pc \in ToolPCs
  BY DEF claim_execution, ToolPCs
<1>2. /\ WorkersInv /\ WorkerShape(worker[w]) /\ worker[w] \in WorkerRecords
      /\ Working(w) /\ run(w) \in Runs /\ k \in Keys /\ exec[k] \in Executions
      /\ MayGo(w, "check_policy")
      /\ {"check_budget", "fail", "pause"} \subseteq
            PCs \ (ToolPCs \cup {"idle", "generate", "hand_over"})
  <2>1. "check_policy" \in ToolPCs
    BY DEF ToolPCs
  <2> QED
    BY <1>1, <2>1, ToolWorker
<1>3. UNCHANGED <<runStatus, modelCalls, toolCalls, output, handoff, approval,
                  invoked, tasks, resumed, faults>>
  BY DEF claim_execution, rowVars
<1>0. users' \in [Keys -> SUBSET Runs]
  BY <1>2 DEF claim_execution, TypeInv, TypeOK
<1>4. CASE ClaimNew(w)
  <2> DEFINE rec == [NoExecution EXCEPT !.status = "PENDING", !.run = run(w)]
  <2>1. rec \in Executions /\ rec.run = run(w)
    <3>1. NoExecution \in Executions
      BY BoundsAssumption
         DEF Executions, NoExecution, ExecStatuses, PolicyDecisions, ErrorCodes
    <3> QED
      BY <1>2, <3>1 DEF Executions, ExecStatuses
  <2>2. exec' = [exec EXCEPT ![k] = rec]
    BY <1>4 DEF ClaimNew
  <2> HIDE DEF rec
  <2>3. exec' \in [Keys -> Executions] /\ RowsInv'
    BY <1>2, <1>3, <2>1, <2>2, RowUpdate DEF TypeInv
  <2>4. WorkersInv' /\ Moves(w)
    BY <1>2, <1>4, GoMoves DEF ClaimNew
  <2> QED
    BY <1>0, <1>3, <2>3, <2>4, ToolStep DEF TypeInv, TypeOK, Quiet
<1>5. CASE /\ UNCHANGED exec
           /\ \/ AfterTool(w, "check_budget") \/ AfterTool(w, "fail")
              \/ AfterTool(w, "pause")
  <2>2. WorkersInv' /\ Moves(w)
    BY <1>2, <1>5, AfterToolMoves
  <2>3. RowsInv'
    BY <1>3, <1>5 DEF TypeInv, RowsInv
  <2> QED
    BY <1>0, <1>3, <1>5, <2>2, <2>3, ToolStep DEF TypeInv, TypeOK, Quiet
<1>6. CASE /\ exec[k].status # "none"
           /\ exec' = [exec EXCEPT ![k].status = "PENDING", ![k].error = "none"]
           /\ worker' = [worker EXCEPT ![w].tries = exec[k].attempts,
                                       ![w].pc = "check_policy"]
  <2> DEFINE rec == [exec[k] EXCEPT !.status = "PENDING", !.error = "none"]
             wrec == [worker[w] EXCEPT !.tries = exec[k].attempts, !.pc = "check_policy"]
  <2>1. rec \in Executions /\ rec.run = exec[k].run /\ exec[k].run \in Runs
    BY <1>2, <1>6 DEF Executions, ExecStatuses, ErrorCodes, TypeInv, RowsInv
  <2>2. exec' = [exec EXCEPT ![k] = rec] /\ worker' = [worker EXCEPT ![w] = wrec]
    BY <1>6
  <2>3. wrec \in WorkerRecords
    BY <1>2 DEF Executions, WorkerRecords, PCs
  <2>4. /\ wrec.pc = "check_policy" /\ wrec.run = run(w) /\ wrec.key = k
        /\ wrec.turn = worker[w].turn /\ wrec.attempt = worker[w].attempt
    BY <1>2 DEF WorkerRecords, run, key
  <2> HIDE DEF rec, wrec
  <2>5. WorkerShape(wrec)
    BY <1>2, <2>3, <2>4 DEF WorkerShape
  <2>6. WorkersInv' /\ Moves(w)
    BY <1>2, <2>2, <2>4, <2>5, WorkerUpdate DEF Moves
  <2>7. exec' \in [Keys -> Executions] /\ RowsInv'
    BY <1>2, <1>3, <2>1, <2>2, RowUpdate DEF TypeInv
  <2> QED
    BY <1>0, <1>3, <2>6, <2>7, ToolStep DEF TypeInv, TypeOK, Quiet
<1>7. ClaimNew(w) \/ ClaimExisting(w)
  BY DEF claim_execution
<1>8. ASSUME ClaimExisting(w)
      PROVE  \/ /\ UNCHANGED exec
                /\ \/ AfterTool(w, "check_budget") \/ AfterTool(w, "fail")
                   \/ AfterTool(w, "pause")
             \/ /\ exec[k].status # "none"
                /\ exec' = [exec EXCEPT ![k].status = "PENDING", ![k].error = "none"]
                /\ worker' = [worker EXCEPT ![w].tries = exec[k].attempts,
                                            ![w].pc = "check_policy"]
  <2> DEFINE next == CASE exec[k].status \in {"PENDING", "RUNNING"} -> "fail"
                       [] exec[k].status = "WAITING_FOR_APPROVAL" -> "pause"
                       [] OTHER -> "check_budget"
  <2>1. next \in {"check_budget", "fail", "pause"}
    OBVIOUS
  <2>2. \/ UNCHANGED exec /\ AfterTool(w, next)
        \/ /\ exec[k].status # "none"
           /\ exec' = [exec EXCEPT ![k].status = "PENDING", ![k].error = "none"]
           /\ worker' = [worker EXCEPT ![w].tries = exec[k].attempts,
                                       ![w].pc = "check_policy"]
    BY <1>8, Zenon DEF ClaimExisting
  <2> HIDE DEF next
  <2> QED
    BY <2>1, <2>2
<1> QED
  BY <1>4, <1>5, <1>6, <1>7, <1>8

LEMMA GateStep ==
    ASSUME TypeInv, NEW w \in Workers, run_policy_gate(w)
    PROVE  TypeInv' /\ Quiet(w)
<1> DEFINE k == key(w)
           decided(policy, status) == [exec[k] EXCEPT !.policy = policy, !.status = status]
<1>1. /\ WorkersInv /\ Working(w) /\ k \in Keys /\ exec[k] \in Executions
      /\ MayGo(w, "start")
      /\ {"check_budget", "fail", "pause"} \subseteq
            PCs \ (ToolPCs \cup {"idle", "generate", "hand_over"})
  <2>1. worker[w].pc \in ToolPCs /\ "start" \in ToolPCs
    BY DEF run_policy_gate, ToolPCs
  <2> QED
    BY <2>1, ToolWorker
<1>2. UNCHANGED <<runStatus, modelCalls, toolCalls, output, handoff, users, invoked,
                  tasks, resumed, faults>>
  BY DEF run_policy_gate, rowVars
<1>3. WorkersInv' /\ Moves(w)
  BY <1>1, GoMoves, AfterToolMoves DEF run_policy_gate
<1>4. ASSUME NEW policy \in PolicyDecisions, NEW status \in ExecStatuses,
             status # "none" => exec[k].status # "none",
             exec' = [exec EXCEPT ![k].policy = policy, ![k].status = status],
             \/ UNCHANGED approval
             \/ /\ exec[k].status = "PENDING"
                /\ approval' = [approval EXCEPT ![k] = "PENDING"]
      PROVE  exec' \in [Keys -> Executions] /\ RowsInv'
  <2>1. decided(policy, status) \in Executions
    BY <1>1, <1>4 DEF Executions
  <2>2. /\ decided(policy, status).run = exec[k].run
        /\ decided(policy, status).status = status
    BY <1>1, <1>4 DEF Executions
  <2>3. exec' = [exec EXCEPT ![k] = decided(policy, status)]
    BY <1>4
  <2> HIDE DEF decided
  <2>4. /\ \A j \in Keys : j # k => approval'[j] = approval[j]
        /\ status # "none" \/ approval'[k] # "none" => exec[k].run \in Runs
    BY <1>1, <1>4 DEF TypeInv, TypeOK, RowsInv
  <2> QED
    BY <1>1, <2>1, <2>2, <2>3, <2>4, RowUpdate DEF TypeInv
<1>5. /\ exec' \in [Keys -> Executions] /\ RowsInv'
      /\ approval' \in [Keys -> ApprovalStatuses]
  <2>1. CASE /\ exec' = [exec EXCEPT ![k].policy = "ALLOW", ![k].status = exec[k].status]
             /\ UNCHANGED approval
    <3>1. "ALLOW" \in PolicyDecisions /\ exec[k].status \in ExecStatuses
      BY <1>1 DEF PolicyDecisions, Executions
    <3> QED
      BY <1>4, <2>1, <3>1 DEF TypeInv, TypeOK
  <2>2. CASE /\ exec[k].status = "PENDING"
             /\ exec' = [exec EXCEPT ![k].policy = "DENY", ![k].status = "BLOCKED_BY_POLICY"]
             /\ UNCHANGED approval
    <3>1. "DENY" \in PolicyDecisions /\ "BLOCKED_BY_POLICY" \in ExecStatuses
      BY DEF PolicyDecisions, ExecStatuses, PolicyTerminal
    <3> QED
      BY <1>4, <2>2, <3>1 DEF TypeInv, TypeOK
  <2>3. CASE /\ exec[k].status = "PENDING"
             /\ exec' = [exec EXCEPT ![k].policy = "REQUIRE_APPROVAL",
                                     ![k].status = "WAITING_FOR_APPROVAL"]
             /\ approval' = create_or_reuse_approval_request(k)
    <3>1. "REQUIRE_APPROVAL" \in PolicyDecisions /\ "WAITING_FOR_APPROVAL" \in ExecStatuses
      BY DEF PolicyDecisions, ExecStatuses
    <3>2. UNCHANGED approval \/ approval' = [approval EXCEPT ![k] = "PENDING"]
      BY <2>3 DEF create_or_reuse_approval_request
    <3>3. approval' \in [Keys -> ApprovalStatuses]
      BY <3>2 DEF TypeInv, TypeOK, ApprovalStatuses
    <3> QED
      BY <1>4, <2>3, <3>1, <3>2, <3>3
  <2>4. CASE UNCHANGED <<exec, approval>>
    BY <2>4 DEF TypeInv, TypeOK, RowsInv
  <2> QED
    BY <2>1, <2>2, <2>3, <2>4 DEF run_policy_gate
<1> QED
  BY <1>2, <1>3, <1>5, ToolStep DEF TypeInv, TypeOK, Quiet

LEMMA StartStep ==
    ASSUME TypeInv, NEW w \in Workers, transition_running(w)
    PROVE  TypeInv' /\ Quiet(w)
<1> DEFINE k == key(w)
           rec == [exec[k] EXCEPT !.status = "RUNNING"]
<1>1. /\ WorkersInv /\ Working(w) /\ k \in Keys /\ exec[k] \in Executions
      /\ MayGo(w, "reserve")
      /\ "fail" \in PCs \ (ToolPCs \cup {"idle", "generate", "hand_over"})
  <2>1. worker[w].pc \in ToolPCs /\ "reserve" \in ToolPCs
    BY DEF transition_running, ToolPCs
  <2> QED
    BY <2>1, ToolWorker
<1>2. UNCHANGED <<runStatus, modelCalls, toolCalls, output, handoff, approval,
                  users, invoked, tasks, resumed, faults>>
  BY DEF transition_running, rowVars
<1>3. WorkersInv' /\ Moves(w)
  BY <1>1, GoMoves, AfterToolMoves DEF transition_running
<1>4. exec' \in [Keys -> Executions] /\ RowsInv'
  <2>1. CASE exec[k].status # "none" /\ exec' = [exec EXCEPT ![k].status = "RUNNING"]
    <3>1. rec \in Executions /\ rec.run = exec[k].run /\ exec[k].run \in Runs
      BY <1>1, <2>1 DEF Executions, ExecStatuses, TypeInv, RowsInv
    <3>2. exec' = [exec EXCEPT ![k] = rec]
      BY <2>1
    <3> HIDE DEF rec
    <3> QED
      BY <1>1, <1>2, <3>1, <3>2, RowUpdate DEF TypeInv
  <2>2. CASE UNCHANGED exec
    BY <1>2, <2>2 DEF TypeInv, TypeOK, RowsInv
  <2> QED
    BY <2>1, <2>2 DEF transition_running
<1> QED
  BY <1>2, <1>3, <1>4, ToolStep DEF TypeInv, TypeOK, Quiet

LEMMA ReserveStep ==
    ASSUME TypeInv, NEW w \in Workers, reserve_budget_slot(w) \/ refuse_resume(w)
    PROVE  TypeInv' /\ Quiet(w)
<1> DEFINE k == key(w)
<1>1. /\ WorkersInv /\ Working(w) /\ k \in Keys /\ run(w) \in Runs /\ MayGo(w, "invoke")
      /\ {"fail", "budget_exceeded"} \subseteq
            PCs \ (ToolPCs \cup {"idle", "generate", "hand_over"})
  <2>1. worker[w].pc \in ToolPCs /\ "invoke" \in ToolPCs
    BY DEF reserve_budget_slot, refuse_resume, ToolPCs
  <2> QED
    BY <2>1, ToolWorker
<1>2. UNCHANGED <<runStatus, modelCalls, output, handoff, approval, users, invoked, tasks,
                  resumed, faults>>
  BY DEF reserve_budget_slot, refuse_resume, rowVars
<1>3. WorkersInv' /\ Moves(w)
  BY <1>1, GoMoves, AfterToolMoves DEF reserve_budget_slot, refuse_resume
<1>4. exec' \in [Keys -> Executions] /\ RowsInv'
  <2>1. "FAILED" \in ExecStatuses /\ "tool_error" \in ErrorCodes
    BY DEF ExecStatuses, ErrorCodes
  <2>2. exec' = exec \/ exec' = Finalized(k, "FAILED", "tool_error")
    BY DEF reserve_budget_slot, refuse_resume
  <2>3. CASE exec' = exec
    BY <1>2, <2>3 DEF TypeInv, TypeOK, RowsInv
  <2> QED
    BY <1>1, <1>2, <2>1, <2>2, <2>3, FinalizedRow DEF TypeInv
<1>5. toolCalls' \in [Runs -> 0..MaxToolCalls]
  BY <1>1, BoundsAssumption
     DEF TypeInv, TypeOK, reserve_budget_slot, refuse_resume, rowVars
<1> QED
  BY <1>2, <1>3, <1>4, <1>5, ToolStep DEF TypeInv, TypeOK, Quiet

LEMMA InvokeStep ==
    ASSUME TypeInv, NEW w \in Workers, run_with_retries(w)
    PROVE  TypeInv' /\ Quiet(w)
<1> DEFINE k == key(w)
           tries == worker[w].tries + 1
<1>1. /\ WorkersInv /\ Working(w) /\ k \in Keys /\ run(w) \in Runs
      /\ WorkerShape(worker[w]) /\ worker[w] \in WorkerRecords /\ exec[k] \in Executions
  <2>1. worker[w].pc \in ToolPCs
    BY DEF run_with_retries, ToolPCs
  <2> QED
    BY <2>1, ToolWorker
<1>2. UNCHANGED <<runStatus, modelCalls, toolCalls, output, handoff, approval, users, tasks,
                  resumed, faults>>
  BY DEF run_with_retries, rowVars
<1>3. ASSUME NEW n \in 0..(MaxRetries + 1), NEW o \in Outcomes,
             NEW next \in {"invoke", "finalize"},
             worker' = [worker EXCEPT ![w] =
                          [worker[w] EXCEPT !.tries = n, !.outcome = o, !.pc = next]]
      PROVE  WorkersInv' /\ Moves(w)
  <2> DEFINE rec == [worker[w] EXCEPT !.tries = n, !.outcome = o, !.pc = next]
  <2>1. rec \in WorkerRecords
    BY <1>1, <1>3 DEF WorkerRecords, PCs
  <2>2. /\ rec.pc = next /\ rec.run = run(w) /\ rec.key = k
        /\ rec.turn = worker[w].turn /\ rec.attempt = worker[w].attempt
    BY <1>1, <1>3 DEF WorkerRecords, run, key
  <2>3. worker' = [worker EXCEPT ![w] = rec]
    BY <1>3
  <2> HIDE DEF rec
  <2>4. WorkerShape(rec)
    BY <1>1, <2>1, <2>2 DEF WorkerShape
  <2> QED
    BY <1>1, <2>2, <2>3, <2>4, WorkerUpdate DEF Moves
<1>4. CASE Attempt(w)
  <2>1. tries \in 0..(MaxRetries + 1)
    <3>1. worker[w].tries < MaxRetries + 1
      BY <1>4, Zenon DEF Attempt
    <3>2. worker[w].tries \in 0..(MaxRetries + 1)
      BY <1>1 DEF WorkerRecords
    <3> QED
      BY <3>1, <3>2, BoundsAssumption
  <2>2. WorkersInv' /\ Moves(w)
    <3>1. CASE \E o \in Outcomes \ {"none"} :
                 worker' = [worker EXCEPT ![w].tries = tries, ![w].outcome = o,
                                          ![w].pc = "finalize"]
      <4>1. PICK o \in Outcomes :
              worker' = [worker EXCEPT ![w] =
                [worker[w] EXCEPT !.tries = tries, !.outcome = o, !.pc = "finalize"]]
        BY <3>1
      <4> HIDE DEF tries
      <4> QED
        BY <1>3, <2>1, <4>1
    <3>2. CASE worker' = [worker EXCEPT ![w].tries = tries]
      <4> DEFINE o == worker[w].outcome
      <4>1. o \in Outcomes /\ worker[w].pc = "invoke"
        BY <1>1 DEF WorkerRecords, run_with_retries
      <4>2. [worker[w] EXCEPT !.tries = tries]
              = [worker[w] EXCEPT !.tries = tries, !.outcome = o, !.pc = "invoke"]
        BY <1>1, <4>1 DEF WorkerRecords
      <4>3. worker' = [worker EXCEPT ![w] = [worker[w] EXCEPT !.tries = tries]]
        BY <3>2
      <4>4. worker' = [worker EXCEPT ![w] =
              [worker[w] EXCEPT !.tries = tries, !.outcome = o, !.pc = "invoke"]]
        BY <4>2, <4>3
      <4> HIDE DEF tries, o
      <4> QED
        BY <1>3, <2>1, <4>1, <4>4
    <3> QED
      BY <1>4, <3>1, <3>2 DEF Attempt
  <2>3. exec' \in [Keys -> Executions] /\ RowsInv'
    <3> DEFINE rec == [exec[k] EXCEPT !.attempts = tries]
    <3>1. /\ rec \in Executions /\ rec.run = exec[k].run /\ rec.status = exec[k].status
      BY <1>1, <2>1 DEF Executions
    <3>2. exec' = [exec EXCEPT ![k] = rec]
      BY <1>4 DEF Attempt
    <3> HIDE DEF rec
    <3>3. rec.status # "none" \/ approval'[k] # "none" => rec.run \in Runs
      BY <1>1, <1>2, <3>1 DEF TypeInv, RowsInv
    <3> QED
      BY <1>1, <1>2, <3>1, <3>2, <3>3, RowUpdate DEF TypeInv
  <2>4. invoked' \in [Keys -> Nat]
    <3>1. invoked' = [invoked EXCEPT ![k] = @ + 1]
      BY <1>4, Zenon DEF Attempt
    <3>2. invoked \in [Keys -> Nat]
      BY DEF TypeInv, TypeOK
    <3> QED
      BY <1>1, <3>1, <3>2
  <2> QED
    BY <1>2, <2>2, <2>3, <2>4, ToolStep DEF TypeInv, TypeOK, Quiet
<1>5. CASE RetriesExhausted(w)
  <2> DEFINE n == worker[w].tries
  <2>1. n \in 0..(MaxRetries + 1) /\ "tool_error" \in Outcomes
    BY <1>1 DEF WorkerRecords, Outcomes
  <2>2. [worker[w] EXCEPT !.outcome = "tool_error", !.pc = "finalize"]
          = [worker[w] EXCEPT !.tries = n, !.outcome = "tool_error", !.pc = "finalize"]
    BY <1>1 DEF WorkerRecords
  <2>3. worker' = [worker EXCEPT ![w] =
            [worker[w] EXCEPT !.tries = n, !.outcome = "tool_error", !.pc = "finalize"]]
    BY <1>5, <2>2 DEF RetriesExhausted
  <2> HIDE DEF n
  <2>4. WorkersInv' /\ Moves(w)
    BY <1>3, <2>1, <2>3
  <2>5. UNCHANGED <<exec, invoked>> /\ RowsInv'
    BY <1>2, <1>5 DEF RetriesExhausted, TypeInv, RowsInv
  <2> QED
    BY <1>2, <2>4, <2>5, ToolStep DEF TypeInv, TypeOK, Quiet
<1> QED
  BY <1>4, <1>5 DEF run_with_retries

LEMMA FinalizeStep ==
    ASSUME TypeInv, NEW w \in Workers, finalize_execution(w)
    PROVE  TypeInv' /\ Quiet(w)
<1> DEFINE k == key(w)
<1>1. /\ WorkersInv /\ Working(w) /\ k \in Keys
      /\ {"check_budget", "continue", "fail"} \subseteq
            PCs \ (ToolPCs \cup {"idle", "generate", "hand_over"})
  <2>1. worker[w].pc \in ToolPCs
    BY DEF finalize_execution, ToolPCs
  <2> QED
    BY <2>1, ToolWorker
<1>2. UNCHANGED <<runStatus, modelCalls, toolCalls, output, handoff, approval,
                  users, invoked, tasks, resumed, faults>>
  BY DEF finalize_execution, rowVars
<1>3. WorkersInv' /\ Moves(w)
  <2>1. Finish(w) \/ AfterTool(w, "fail") \/ AfterTool(w, NextTurn(w))
    BY DEF finalize_execution
  <2>2. NextTurn(w) \in {"check_budget", "continue"}
    BY DEF NextTurn
  <2> QED
    BY <1>1, <2>1, <2>2, AfterToolMoves, FinishMoves
<1>4. exec' \in [Keys -> Executions] /\ RowsInv'
  <2>1. /\ {"SUCCEEDED", "TIMED_OUT", "FAILED"} \subseteq ExecStatuses
        /\ {"none", "tool_timeout", "tool_error"} \subseteq ErrorCodes
    BY DEF ExecStatuses, ErrorCodes
  <2>2. \/ exec' = Finalized(k, "SUCCEEDED", "none")
        \/ exec' = Finalized(k, "TIMED_OUT", "tool_timeout")
        \/ exec' = Finalized(k, "FAILED", "tool_error")
        \/ exec' = exec
    BY DEF finalize_execution
  <2>3. exec' = exec => exec' \in [Keys -> Executions] /\ RowsInv'
    BY <1>2 DEF TypeInv, TypeOK, RowsInv
  <2> QED
    BY <1>1, <1>2, <2>1, <2>2, <2>3, FinalizedRow DEF TypeInv
<1> QED
  BY <1>2, <1>3, <1>4, ToolStep DEF TypeInv, TypeOK, Quiet

LEMMA ResumeStep ==
    ASSUME TypeInv, NEW w \in Workers, claim_resume(w)
    PROVE  TypeInv' /\ Quiet(w)
<1> DEFINE k == key(w)
<1>1. /\ WorkersInv /\ Working(w) /\ k \in Keys /\ exec[k] \in Executions
      /\ WorkerShape(worker[w]) /\ worker[w] \in WorkerRecords
      /\ {"check_budget", "continue", "fail"} \subseteq
            PCs \ (ToolPCs \cup {"idle", "generate", "hand_over"})
  <2>1. worker[w].pc \in ToolPCs
    BY DEF claim_resume, ToolPCs
  <2> QED
    BY <2>1, ToolWorker
<1>2. UNCHANGED <<runStatus, modelCalls, toolCalls, output, handoff, approval,
                  users, invoked, tasks, resumed, faults>>
  BY DEF claim_resume, rowVars
<1>3. CASE /\ exec[k].status = "WAITING_FOR_APPROVAL"
           /\ exec' = [exec EXCEPT ![k].status = "RUNNING"]
           /\ worker' = [worker EXCEPT ![w].pc = "reserve", ![w].tries = exec[k].attempts]
  <2> DEFINE rec == [exec[k] EXCEPT !.status = "RUNNING"]
             wrec == [worker[w] EXCEPT !.pc = "reserve", !.tries = exec[k].attempts]
  <2>1. rec \in Executions /\ rec.run = exec[k].run /\ exec[k].run \in Runs
    BY <1>1, <1>3 DEF Executions, ExecStatuses, TypeInv, RowsInv
  <2>2. exec' = [exec EXCEPT ![k] = rec] /\ worker' = [worker EXCEPT ![w] = wrec]
    BY <1>3
  <2>3. wrec \in WorkerRecords
    BY <1>1 DEF Executions, WorkerRecords, PCs
  <2>4. /\ wrec.pc = "reserve" /\ wrec.run = run(w) /\ wrec.key = k
        /\ wrec.turn = worker[w].turn /\ wrec.attempt = worker[w].attempt
    BY <1>1 DEF WorkerRecords, run, key
  <2> HIDE DEF rec, wrec
  <2>5. WorkerShape(wrec)
    BY <1>1, <2>3, <2>4 DEF WorkerShape, Working, run
  <2>6. WorkersInv' /\ Moves(w)
    BY <1>1, <2>2, <2>4, <2>5, WorkerUpdate DEF Moves
  <2>7. exec' \in [Keys -> Executions] /\ RowsInv'
    BY <1>1, <1>2, <2>1, <2>2, RowUpdate DEF TypeInv
  <2> QED
    BY <1>2, <2>6, <2>7, ToolStep DEF TypeInv, TypeOK, Quiet
<1>4. CASE /\ UNCHANGED exec
           /\ AfterTool(w, NextTurn(w)) \/ Finish(w) \/ AfterTool(w, "fail")
  <2>1. NextTurn(w) \in {"check_budget", "continue"}
    BY DEF NextTurn
  <2>2. WorkersInv' /\ Moves(w)
    BY <1>1, <1>4, <2>1, AfterToolMoves, FinishMoves
  <2>3. RowsInv'
    BY <1>2, <1>4 DEF TypeInv, RowsInv
  <2> QED
    BY <1>2, <1>4, <2>2, <2>3, ToolStep DEF TypeInv, TypeOK, Quiet
<1> QED
  BY <1>3, <1>4 DEF claim_resume

\* A worker settles the run it has: the status, the reply that goes with it and
\* the handoff that goes with it, in one transaction.
SettledStatuses == {"WAITING_FOR_APPROVAL", "SUCCEEDED", "HANDED_OFF", "FAILED",
                    "BUDGET_EXCEEDED"}

Ends(w, s) ==
    /\ runStatus[run(w)] \notin RunTerminal
    /\ runStatus' = [runStatus EXCEPT ![run(w)] = s]
    /\ output' = IF /\ s \in {"SUCCEEDED", "HANDED_OFF"}
                    /\ run(w) \in ConversationRuns /\ output[run(w)] = 0
                 THEN [output EXCEPT ![run(w)] = 1] ELSE output
    /\ \/ handoff' = handoff
       \/ s = "HANDED_OFF" /\ run(w) \in ConversationRuns /\ handoff' = run(w)

LEMMA SettleStep ==
    ASSUME TypeInv, NEW w \in Workers,
           \/ pause_run_for_approval(w)
           \/ complete_run(w)
           \/ complete_run_as_handoff(w)
           \/ fail_run(w)
           \/ budget_exceeded_run(w)
    PROVE  /\ TypeInv' /\ Moves(w) /\ worker'[w].pc = "idle"
           /\ \/ UNCHANGED <<runStatus, output, handoff>>
              \/ \E s \in SettledStatuses : Ends(w, s)
<1> USE DEF pause_run_for_approval, complete_run, complete_run_as_handoff, fail_run,
            budget_exceeded_run
<1>1. /\ WorkersInv /\ WorkerShape(worker[w]) /\ worker[w] \in WorkerRecords /\ Working(w)
  BY DEF TypeInv, WorkersInv, Working
<1>2. run(w) \in Runs /\ worker[w].turn \in 0..MaxModelCalls
  BY <1>1 DEF WorkerShape, WorkerRecords, Working, run
<1>3. Finish(w) /\ UNCHANGED <<toolCalls, exec, approval, users, invoked, tasks, resumed, faults>>
  BY DEF TerminateRun, toolVars
<1>4. WorkersInv' /\ Moves(w) /\ worker'[w].pc = "idle"
  BY <1>1, <1>3, FinishMoves
<1>5. modelCalls' \in [Runs -> 0..MaxModelCalls]
  <2>1. modelCalls' = modelCalls \/ modelCalls' = [modelCalls EXCEPT ![run(w)] = worker[w].turn]
    BY DEF TerminateRun
  <2> QED
    BY <1>2, <2>1 DEF TypeInv, TypeOK
<1>6. \/ UNCHANGED <<runStatus, output, handoff>>
      \/ \E s \in SettledStatuses : Ends(w, s)
  <2>0. /\ output[run(w)] \in {0, 1}
        /\ "RUNNING" \notin RunTerminal
    BY <1>2 DEF TypeInv, TypeOK, RunTerminal
  <2>1. Reply(run(w)) =>
          output' = IF run(w) \in ConversationRuns /\ output[run(w)] = 0
                    THEN [output EXCEPT ![run(w)] = 1] ELSE output
    <3> DEFINE next == output[run(w)] + 1
    <3>1. Reply(run(w)) =>
            output' = IF run(w) \in ConversationRuns /\ output[run(w)] = 0
                      THEN [output EXCEPT ![run(w)] = next] ELSE output
      BY Zenon DEF Reply
    <3>2. output[run(w)] = 0 => next = 1
      OBVIOUS
    <3> HIDE DEF next
    <3> QED
      BY <3>1, <3>2, Zenon
  <2>2. CASE pause_run_for_approval(w)
    BY <2>0, <2>2 DEF SettledStatuses, Ends
  <2>3. CASE complete_run(w)
    BY <2>0, <2>1, <2>3 DEF SettledStatuses, Ends
  <2>4. CASE complete_run_as_handoff(w)
    <3>1. run(w) \in ConversationRuns
      BY <1>1, <2>4 DEF WorkerShape, run
    <3> QED
      BY <2>0, <2>1, <2>4, <3>1 DEF SettledStatuses, Ends
  <2>5. ASSUME NEW s \in {"FAILED", "BUDGET_EXCEEDED"}, TerminateRun(w, s)
        PROVE  \/ UNCHANGED <<runStatus, output, handoff>>
               \/ \E t \in SettledStatuses : Ends(w, t)
    BY <2>5 DEF TerminateRun, SettledStatuses, Ends
  <2> QED
    BY <2>2, <2>3, <2>4, <2>5
<1>7. /\ runStatus' \in [Runs -> RunStatuses] /\ output' \in [Runs -> {0, 1}]
      /\ handoff' \in Runs \cup {NoRun}
  <2>1. SettledStatuses \subseteq RunStatuses
    BY DEF SettledStatuses, RunStatuses, RunTerminal
  <2> QED
    BY <1>2, <1>6, <2>1 DEF TypeInv, TypeOK, Ends
<1>8. TypeInv'
  <2>1. RowsInv'
    BY <1>3 DEF TypeInv, RowsInv
  <2>2. TypeOK'
    BY <1>3, <1>4, <1>5, <1>7 DEF TypeInv, TypeOK, WorkersInv
  <2> QED
    BY <1>4, <2>1, <2>2 DEF TypeInv
<1> QED
  BY <1>4, <1>6, <1>8

LEMMA PublishType ==
    ASSUME TypeInv, NEW t \in Tasks, Publish(t)
    PROVE  tasks' \subseteq Tasks /\ faults' \in 0..MaxFaults
BY BoundsAssumption DEF TypeInv, TypeOK, Publish

LEMMA TakeType ==
    ASSUME TypeInv, NEW t, Take(t)
    PROVE  tasks' \subseteq Tasks /\ faults' \in 0..MaxFaults
BY BoundsAssumption DEF TypeInv, TypeOK, Take

LEMMA TaskTypes ==
    /\ \A r \in Runs : ExecuteTask(r) \in Tasks
    /\ \A k \in Keys : ResumeTask(k) \in Tasks
BY DEF Tasks

\* A worker that has nothing takes a run that is pending or waiting.
Claims(w, r) ==
    /\ ~Working(w)
    /\ runStatus[r] \in {"PENDING", "WAITING_FOR_APPROVAL"}
    /\ runStatus' = [runStatus EXCEPT ![r] = "RUNNING"]
    /\ worker'[w].pc # "idle" /\ worker'[w].run = r
    /\ \A v \in Workers : v # w => worker'[v] = worker[v]
    /\ UNCHANGED <<output, handoff>>

LEMMA IdleType == IdleWorker \in WorkerRecords
BY BoundsAssumption DEF IdleWorker, WorkerRecords, PCs, Modes, Outcomes

LEMMA ClaimRunStep ==
    ASSUME TypeInv, NEW w \in Workers, NEW r \in Runs, claim_agent_run(w, r)
    PROVE  TypeInv' /\ (Claims(w, r) \/ UNCHANGED <<runStatus, output, handoff, worker>>)
<1>1. tasks' \subseteq Tasks /\ faults' \in 0..MaxFaults
  BY TakeType DEF claim_agent_run
<1>2. UNCHANGED <<modelCalls, toolCalls, output, handoff, exec, approval, users, invoked, resumed>>
  BY DEF claim_agent_run, toolVars
<1>3. RowsInv'
  BY <1>2 DEF TypeInv, RowsInv
<1>4. CASE UNCHANGED <<runStatus, worker>>
  <2>1. TypeOK' /\ WorkersInv'
    BY <1>1, <1>2, <1>4 DEF TypeInv, TypeOK, WorkersInv, WorkerShape
  <2> QED
    BY <1>2, <1>3, <1>4, <2>1 DEF TypeInv
<1>5. CASE /\ runStatus[r] = "PENDING"
           /\ runStatus' = [runStatus EXCEPT ![r] = "RUNNING"]
           /\ worker' = [worker EXCEPT ![w] = [IdleWorker EXCEPT !.pc = "begin", !.run = r]]
  <2> DEFINE rec == [IdleWorker EXCEPT !.pc = "begin", !.run = r]
  <2>1. rec \in WorkerRecords
    BY IdleType DEF WorkerRecords, PCs
  <2>2. rec.pc = "begin" /\ rec.run = r /\ rec.attempt = 0 /\ rec.turn = 0
    BY DEF IdleWorker
  <2>3. worker' = [worker EXCEPT ![w] = rec]
    BY <1>5
  <2> HIDE DEF rec
  <2>4. WorkerShape(rec)
    BY <2>1, <2>2 DEF WorkerShape, ToolPCs
  <2>5. /\ WorkersInv' /\ worker'[w] = rec
        /\ \A v \in Workers : v # w => worker'[v] = worker[v]
    BY <2>3, <2>4, WorkerUpdate DEF TypeInv
  <2>6. Claims(w, r)
    BY <1>2, <1>5, <2>2, <2>5 DEF Claims, claim_agent_run
  <2>7. TypeOK'
    BY <1>1, <1>2, <1>5, <2>5 DEF TypeInv, TypeOK, WorkersInv, RunStatuses
  <2> QED
    BY <1>3, <2>5, <2>6, <2>7 DEF TypeInv
<1> QED
  BY <1>4, <1>5 DEF claim_agent_run

LEMMA ResumeRunStep ==
    ASSUME TypeInv, NEW w \in Workers, NEW k \in Keys, claim_run_for_resume(w, k)
    PROVE  /\ TypeInv'
           /\ \/ \E r \in Runs : Claims(w, r)
              \/ UNCHANGED <<runStatus, output, handoff, worker>>
<1> DEFINE r == exec[k].run
           approved == approval[k] = "APPROVED"
           pc == IF approved THEN "resume_claim" ELSE "continue"
           mode == IF approved THEN "resume" ELSE "continuation"
           ky == IF approved THEN k ELSE NoKey
           turn == modelCalls[r]
           rec == [IdleWorker EXCEPT !.run = r, !.turn = turn, !.pc = pc,
                                     !.mode = mode, !.key = ky]
<1>1. tasks' \subseteq Tasks /\ faults' \in 0..MaxFaults
  BY TakeType DEF claim_run_for_resume
<1>2. UNCHANGED <<modelCalls, toolCalls, output, handoff, exec, approval, users, invoked>>
  BY DEF claim_run_for_resume, toolVars
<1>3. RowsInv'
  BY <1>2 DEF TypeInv, RowsInv
<1>4. CASE UNCHANGED <<runStatus, resumed, worker>>
  <2>1. TypeOK' /\ WorkersInv'
    BY <1>1, <1>2, <1>4 DEF TypeInv, TypeOK, WorkersInv, WorkerShape
  <2> QED
    BY <1>2, <1>3, <1>4, <2>1 DEF TypeInv
<1>5. CASE /\ approval[k] \in Decided /\ runStatus[r] = "WAITING_FOR_APPROVAL"
           /\ runStatus' = [runStatus EXCEPT ![r] = "RUNNING"]
           /\ resumed' = [resumed EXCEPT ![k] = @ + 1]
           /\ worker' = [worker EXCEPT ![w] = rec]
  <2>1. r \in Runs
    BY <1>5 DEF TypeInv, RowsInv, Decided
  <2>2. /\ turn \in 0..MaxModelCalls /\ pc \in {"resume_claim", "continue"}
        /\ mode \in Modes /\ ky \in Keys \cup {NoKey}
        /\ pc = "resume_claim" => ky \in Keys
    BY <2>1 DEF TypeInv, TypeOK, Modes
  <2>3. 0 <= turn
    BY <2>2, BoundsAssumption
  <2> HIDE DEF r, turn, pc, mode, ky
  <2>4. rec \in WorkerRecords
    BY <2>1, <2>2, IdleType DEF WorkerRecords, PCs
  <2>5. rec.pc = pc /\ rec.run = r /\ rec.key = ky /\ rec.turn = turn /\ rec.attempt = 0
    BY DEF IdleWorker
  <2> HIDE DEF rec
  <2>6. WorkerShape(rec)
    BY <2>1, <2>2, <2>3, <2>4, <2>5 DEF WorkerShape, ToolPCs
  <2>7. /\ WorkersInv' /\ worker'[w] = rec
        /\ \A v \in Workers : v # w => worker'[v] = worker[v]
    BY <1>5, <2>6, WorkerUpdate DEF TypeInv
  <2>8. Claims(w, r)
    BY <1>2, <1>5, <2>2, <2>5, <2>7 DEF Claims, claim_run_for_resume
  <2>9. resumed' \in [Keys -> Nat] /\ runStatus' \in [Runs -> RunStatuses]
    BY <1>5, <2>1 DEF TypeInv, TypeOK, RunStatuses
  <2>10. TypeOK'
    BY <1>1, <1>2, <2>7, <2>9 DEF TypeInv, TypeOK, WorkersInv
  <2> QED
    BY <1>3, <2>1, <2>7, <2>8, <2>10 DEF TypeInv
<1> QED
  BY <1>4, <1>5, Zenon DEF claim_run_for_resume

\* A run ends under whoever has it: cancellation and stuck-run recovery.
EndedUnder(r) ==
    /\ \/ /\ runStatus[r] \in {"PENDING", "RUNNING", "WAITING_FOR_APPROVAL"}
          /\ runStatus' = [runStatus EXCEPT ![r] = "CANCELLED"]
       \/ runStatus[r] = "RUNNING" /\ runStatus' = [runStatus EXCEPT ![r] = "FAILED"]
    /\ handoff' \in {handoff, NoRun}
    /\ UNCHANGED <<output, worker>>

Created(r) ==
    /\ runStatus[r] = "none"
    /\ runStatus' = [runStatus EXCEPT ![r] = "PENDING"]
    /\ UNCHANGED <<output, handoff, worker>>

LEMMA CreateStep ==
    ASSUME TypeInv, NEW r \in Runs, create_agent_run(r)
    PROVE  TypeInv' /\ Created(r)
<1>1. tasks' \subseteq Tasks /\ faults' \in 0..MaxFaults
  BY PublishType, TaskTypes DEF create_agent_run
<1>2. UNCHANGED <<modelCalls, toolCalls, output, handoff, exec, approval, users, invoked,
                  worker, resumed>>
  BY DEF create_agent_run, toolVars
<1>3. RowsInv' /\ WorkersInv'
  BY <1>2 DEF TypeInv, RowsInv, WorkersInv, WorkerShape
<1>4. TypeOK'
  BY <1>1, <1>2 DEF TypeInv, TypeOK, create_agent_run, RunStatuses
<1> QED
  BY <1>2, <1>3, <1>4 DEF TypeInv, Created, create_agent_run

\* Rows change pointwise, and none changes its run.
LEMMA RowsUpdate ==
    ASSUME TypeInv, exec' = [k \in Keys |-> exec'[k]],
           \A k \in Keys :
              \/ exec'[k] = exec[k]
              \/ /\ exec'[k] \in Executions /\ exec'[k].run = exec[k].run
                 /\ exec[k].status # "none",
           \A k \in Keys : approval'[k] # "none" => approval[k] # "none"
    PROVE  exec' \in [Keys -> Executions] /\ RowsInv'
<1>1. \A k \in Keys : exec'[k] \in Executions
  BY DEF TypeInv, TypeOK
<1>2. exec' \in [Keys -> Executions]
  BY <1>1
<1>3. RowsInv'
  BY DEF TypeInv, RowsInv
<1> QED
  BY <1>2, <1>3

LEMMA CancelStep ==
    ASSUME TypeInv, NEW r \in Runs, cancel_agent_run(r)
    PROVE  TypeInv' /\ EndedUnder(r)
<1> DEFINE withdrawn == {k \in Keys : /\ runStatus[r] = "WAITING_FOR_APPROVAL"
                                      /\ exec[k].run = r
                                      /\ exec[k].status = "WAITING_FOR_APPROVAL"}
           rec(k) == [exec[k] EXCEPT !.status = "CANCELLED"]
<1>1. \A k \in withdrawn : /\ rec(k) \in Executions /\ rec(k).run = exec[k].run
                           /\ exec[k].status # "none"
  BY DEF TypeInv, TypeOK, Executions, ExecStatuses
<1>2. exec' = [k \in Keys |-> IF k \in withdrawn THEN rec(k) ELSE exec[k]]
  BY DEF cancel_agent_run
<1>3. approval' = [k \in Keys |-> IF k \in withdrawn /\ approval[k] = "PENDING"
                                  THEN "CANCELLED" ELSE approval[k]]
  BY DEF cancel_agent_run, cancel_approval_for_execution
<1>4. withdrawn \in SUBSET Keys
  OBVIOUS
<1> HIDE DEF withdrawn, rec
<1>5. /\ approval' \in [Keys -> ApprovalStatuses]
      /\ \A k \in Keys : approval'[k] # "none" => approval[k] # "none"
  BY <1>3 DEF TypeInv, TypeOK, ApprovalStatuses
<1>6. exec' \in [Keys -> Executions] /\ RowsInv'
  <2>1. /\ exec' = [k \in Keys |-> exec'[k]]
        /\ \A k \in Keys : exec'[k] = IF k \in withdrawn THEN rec(k) ELSE exec[k]
    BY <1>2
  <2> QED
    BY <1>1, <1>4, <1>5, <2>1, RowsUpdate
<1>7. /\ UNCHANGED <<modelCalls, toolCalls, output, tasks, worker, users, invoked, resumed, faults>>
      /\ handoff' \in {handoff, NoRun}
      /\ runStatus' = [runStatus EXCEPT ![r] = "CANCELLED"]
      /\ runStatus[r] \notin RunTerminal \cup {"none"}
  BY DEF cancel_agent_run
<1>8. WorkersInv'
  BY <1>7 DEF TypeInv, WorkersInv, WorkerShape
<1>9. TypeOK'
  BY <1>5, <1>6, <1>7 DEF TypeInv, TypeOK, RunStatuses, RunTerminal
<1>10. EndedUnder(r)
  BY <1>7 DEF EndedUnder, TypeInv, TypeOK, RunStatuses
<1> QED
  BY <1>6, <1>8, <1>9, <1>10 DEF TypeInv

LEMMA RecoverStep ==
    ASSUME TypeInv, NEW r \in Runs, recover_stuck_run(r)
    PROVE  TypeInv' /\ EndedUnder(r)
<1> DEFINE inFlight == {k \in Keys : exec[k].run = r /\ exec[k].status \in {"PENDING", "RUNNING"}}
           rec(k) == [exec[k] EXCEPT !.status = "FAILED", !.error = "stuck_worker_recovered"]
<1>1. \A k \in inFlight : /\ rec(k) \in Executions /\ rec(k).run = exec[k].run
                          /\ exec[k].status # "none"
  <2>1. \A k \in Keys : exec[k] \in Executions
    BY DEF TypeInv, TypeOK
  <2>2. \A row \in Executions :
           LET new == [row EXCEPT !.status = "FAILED", !.error = "stuck_worker_recovered"]
           IN  new \in Executions /\ new.run = row.run
    BY DEF Executions, ExecStatuses, ErrorCodes
  <2> QED
    BY <2>1, <2>2
<1>2. exec' = [k \in Keys |-> IF k \in inFlight THEN rec(k) ELSE exec[k]]
  BY DEF recover_stuck_run
<1>4. inFlight \in SUBSET Keys
  OBVIOUS
<1> HIDE DEF inFlight, rec
<1>5. /\ UNCHANGED <<modelCalls, toolCalls, output, handoff, approval, tasks, worker,
                     users, invoked, resumed>>
      /\ runStatus' = [runStatus EXCEPT ![r] = "FAILED"]
      /\ runStatus[r] = "RUNNING"
  BY DEF recover_stuck_run
<1>6. exec' \in [Keys -> Executions] /\ RowsInv'
  <2>1. /\ exec' = [k \in Keys |-> exec'[k]]
        /\ \A k \in Keys : exec'[k] = IF k \in inFlight THEN rec(k) ELSE exec[k]
    BY <1>2
  <2> QED
    BY <1>1, <1>4, <1>5, <2>1, RowsUpdate
<1>7. faults' \in 0..MaxFaults
  <2>1. faults' = faults \/ (faults > 0 /\ faults' = faults - 1)
    BY DEF recover_stuck_run
  <2> QED
    BY <2>1, BoundsAssumption DEF TypeInv, TypeOK
<1>8. WorkersInv'
  BY <1>5 DEF TypeInv, WorkersInv, WorkerShape
<1>9. TypeOK'
  BY <1>5, <1>6, <1>7 DEF TypeInv, TypeOK, RunStatuses, RunTerminal
<1> QED
  BY <1>5, <1>6, <1>8, <1>9 DEF TypeInv, EndedUnder

\* A decision or an expiry closes the request; neither touches a run.
LEMMA DecideStep ==
    ASSUME TypeInv, NEW k \in Keys,
           \/ expire_approval(k)
           \/ \E d \in {"APPROVED", "REJECTED"} : decide_approval(k, d)
    PROVE  TypeInv' /\ UNCHANGED <<runStatus, output, handoff, worker>>
<1>1. tasks' \subseteq Tasks /\ faults' \in 0..MaxFaults
  BY PublishType, TaskTypes DEF expire_approval, decide_approval
<1>2. UNCHANGED <<runStatus, modelCalls, toolCalls, output, handoff, worker, users, invoked, resumed>>
  BY DEF expire_approval, decide_approval, rowVars
<1>3. PICK d \in Decided :
         /\ approval[k] = "PENDING" /\ approval' = [approval EXCEPT ![k] = d]
         /\ exec' = Terminated(k) \/ exec' = exec
  BY DEF expire_approval, decide_approval, Decided
<1>4. /\ approval' \in [Keys -> ApprovalStatuses]
      /\ \A j \in Keys : j # k => approval'[j] = approval[j]
  BY <1>3 DEF TypeInv, TypeOK, ApprovalStatuses
<1>5. exec[k] \in Executions /\ exec[k].run \in Runs
  BY <1>3 DEF TypeInv, TypeOK, RowsInv
<1>6. exec' \in [Keys -> Executions] /\ RowsInv'
  <2>1. CASE exec' = [exec EXCEPT ![k].status = "APPROVAL_TERMINATED"]
    <3> DEFINE rec == [exec[k] EXCEPT !.status = "APPROVAL_TERMINATED"]
    <3>1. rec \in Executions /\ rec.run = exec[k].run
      BY <1>5 DEF Executions, ExecStatuses, PolicyTerminal
    <3>2. exec' = [exec EXCEPT ![k] = rec]
      BY <2>1
    <3> HIDE DEF rec
    <3> QED
      BY <1>4, <1>5, <3>1, <3>2, RowUpdate DEF TypeInv
  <2>2. CASE exec' = exec
    <3>1. RowsInv'
      BY <1>4, <1>5, <2>2 DEF TypeInv, RowsInv
    <3> QED
      BY <2>2, <3>1 DEF TypeInv, TypeOK
  <2> QED
    BY <1>3, <2>1, <2>2 DEF Terminated
<1>7. WorkersInv'
  BY <1>2 DEF TypeInv, WorkersInv, WorkerShape
<1>8. TypeOK'
  BY <1>1, <1>2, <1>4, <1>6 DEF TypeInv, TypeOK
<1> QED
  BY <1>2, <1>6, <1>7, <1>8 DEF TypeInv

LEMMA SweepStep ==
    ASSUME TypeInv, Sweep
    PROVE  TypeInv' /\ UNCHANGED <<runStatus, output, handoff, worker>>
<1>1. tasks' \subseteq Tasks /\ faults' \in 0..MaxFaults
  BY PublishType, TaskTypes DEF Sweep, redispatch_pending_run, redispatch_waiting_run
<1>2. UNCHANGED <<rowVars, toolVars, worker, resumed>>
  BY DEF Sweep, redispatch_pending_run, redispatch_waiting_run
<1>3. RowsInv' /\ WorkersInv'
  BY <1>2 DEF TypeInv, RowsInv, WorkersInv, WorkerShape, toolVars
<1>4. TypeOK'
  BY <1>1, <1>2 DEF TypeInv, TypeOK, rowVars, toolVars
<1> QED
  BY <1>2, <1>3, <1>4 DEF TypeInv, rowVars

LEMMA CrashStep ==
    ASSUME TypeInv, NEW w \in Workers, WorkerCrash(w)
    PROVE  TypeInv' /\ Quiet(w)
<1>1. WorkersInv' /\ Moves(w)
  BY FinishMoves DEF TypeInv, WorkerCrash
<1>2. UNCHANGED <<rowVars, toolVars, tasks, resumed>> /\ faults' \in 0..MaxFaults
  BY BoundsAssumption DEF TypeInv, TypeOK, WorkerCrash
<1>3. RowsInv'
  BY <1>2 DEF TypeInv, RowsInv, toolVars
<1>4. TypeOK'
  BY <1>1, <1>2 DEF TypeInv, TypeOK, WorkersInv, rowVars, toolVars
<1> QED
  BY <1>1, <1>2, <1>3, <1>4 DEF TypeInv, Quiet, rowVars

LEMMA ResolveStep ==
    ASSUME TypeInv, resolve_handoff
    PROVE  TypeInv' /\ handoff' = NoRun /\ UNCHANGED <<runStatus, output, worker>>
<1>1. handoff' = NoRun /\ UNCHANGED <<runStatus, modelCalls, toolCalls, output, exec,
                            approval, users, invoked, tasks, worker, resumed, faults>>
  BY DEF resolve_handoff, toolVars
<1>2. RowsInv' /\ WorkersInv'
  BY <1>1 DEF TypeInv, RowsInv, WorkersInv, WorkerShape
<1>3. TypeOK'
  BY <1>1 DEF TypeInv, TypeOK
<1> QED
  BY <1>1, <1>2, <1>3 DEF TypeInv

\* All that a step can do to the runs, the replies, the handoff and the owners.
RunStep ==
    \/ \E w \in Workers : Quiet(w)
    \/ \E w \in Workers, s \in SettledStatuses :
          Moves(w) /\ worker'[w].pc = "idle" /\ Ends(w, s)
    \/ \E w \in Workers, r \in Runs : Claims(w, r)
    \/ \E r \in Runs : Created(r) \/ EndedUnder(r)
    \/ handoff' \in {handoff, NoRun} /\ UNCHANGED <<runStatus, output, worker>>

\* Every step keeps the types and is one of those.
LEMMA NextSteps == TypeInv /\ [Next]_vars => TypeInv' /\ RunStep
<1> SUFFICES ASSUME TypeInv, [Next]_vars PROVE TypeInv' /\ RunStep
  OBVIOUS
<1>1. ASSUME NEW w \in Workers, WorkerStep(w) PROVE TypeInv' /\ RunStep
  <2>1. CASE \/ pause_run_for_approval(w) \/ complete_run(w)
             \/ complete_run_as_handoff(w) \/ fail_run(w) \/ budget_exceeded_run(w)
    BY <2>1, SettleStep DEF RunStep, Quiet
  <2>2. CASE \/ execute_support_agent_run(w) \/ check_budget(w) \/ generate_response(w)
             \/ execute_handoff_request(w) \/ execute_tool_call(w)
             \/ already_policy_evaluated(w) \/ continue_run_after_resumed_tool(w)
    BY <2>2, GraphSteps DEF RunStep
  <2>3. CASE \/ claim_execution(w) \/ run_policy_gate(w) \/ transition_running(w)
             \/ reserve_budget_slot(w) \/ refuse_resume(w) \/ run_with_retries(w)
             \/ finalize_execution(w) \/ claim_resume(w)
    BY <2>3, ClaimStep, GateStep, StartStep, ReserveStep, InvokeStep, FinalizeStep,
       ResumeStep DEF RunStep
  <2> QED
    BY <1>1, <2>1, <2>2, <2>3 DEF WorkerStep
<1>2. ASSUME NEW w \in Workers, Deliver(w) PROVE TypeInv' /\ RunStep
  <2>1. ASSUME NEW r \in Runs, claim_agent_run(w, r) PROVE TypeInv' /\ RunStep
    BY <2>1, ClaimRunStep DEF RunStep
  <2>2. ASSUME NEW k \in Keys, claim_run_for_resume(w, k) PROVE TypeInv' /\ RunStep
    BY <2>2, ResumeRunStep DEF RunStep
  <2> QED
    BY <1>2, <2>1, <2>2 DEF Deliver
<1>3. ASSUME NEW w \in Workers, WorkerCrash(w) PROVE TypeInv' /\ RunStep
  BY <1>3, CrashStep DEF RunStep
<1>4. ASSUME NEW r \in Runs,
             create_agent_run(r) \/ cancel_agent_run(r) \/ recover_stuck_run(r)
      PROVE  TypeInv' /\ RunStep
  BY <1>4, CreateStep, CancelStep, RecoverStep DEF RunStep
<1>5. ASSUME NEW k \in Keys,
             \/ expire_approval(k)
             \/ \E d \in {"APPROVED", "REJECTED"} : decide_approval(k, d)
      PROVE  TypeInv' /\ RunStep
  BY <1>5, DecideStep DEF RunStep
<1>6. CASE Sweep
  BY <1>6, SweepStep DEF RunStep
<1>7. CASE resolve_handoff
  BY <1>7, ResolveStep DEF RunStep
<1>8. CASE UNCHANGED vars
  <2>1. WorkersInv' /\ UNCHANGED <<rowVars, toolVars, tasks, resumed, faults>>
    BY <1>8 DEF vars, rowVars, toolVars, TypeInv, WorkersInv, WorkerShape
  <2> QED
    BY <1>8, <2>1, WorkerOnly DEF RunStep, vars
<1> QED
  BY <1>1, <1>2, <1>3, <1>4, <1>5, <1>6, <1>7, <1>8 DEF Next

\* A worker that has a run has one that is running or has ended under it.
LEMMA OwnedRun ==
    ASSUME TypeInv, ExclusiveOwner, NEW w \in Workers, Working(w)
    PROVE  run(w) \in Runs /\ runStatus[run(w)] \in {"RUNNING"} \cup RunTerminal
<1>1. run(w) \in Runs
  BY DEF TypeInv, WorkersInv, WorkerShape, Working, run
<1>2. Owns(w, run(w))
  BY DEF Owns, run
<1> QED
  BY <1>1, <1>2 DEF ExclusiveOwner, Orphaned, TypeInv, TypeOK, RunStatuses

LEMMA OwnerInv ==
    ASSUME TypeInv, ExclusiveOwner, RunStep
    PROVE  ExclusiveOwner'
<1> SUFFICES ASSUME NEW r \in Runs
             PROVE  /\ runStatus'[r] \in {"none", "PENDING", "WAITING_FOR_APPROVAL"}
                         => \A w \in Workers : ~(worker'[w].pc # "idle" /\ worker'[w].run = r)
                    /\ \A v, w \in Workers :
                          /\ worker'[v].pc # "idle" /\ worker'[v].run = r
                          /\ worker'[w].pc # "idle" /\ worker'[w].run = r
                          => v = w
  BY DEF ExclusiveOwner, Orphaned, Owns, Working
<1> USE DEF ExclusiveOwner, Orphaned, Owns, Working
<1>1. ASSUME NEW u \in Workers, Moves(u)
      PROVE  /\ run(u) \in Runs /\ Owns(u, run(u))
             /\ \A w \in Workers : worker'[w].pc # "idle" /\ worker'[w].run = r => Owns(w, r)
             /\ worker'[u].pc = "idle" =>
                  \A w \in Workers : ~(worker'[w].pc # "idle" /\ worker'[w].run = run(u))
  BY <1>1, OwnedRun DEF Moves, run
<1>2. CASE \E u \in Workers : Quiet(u)
  BY <1>1, <1>2 DEF Quiet
<1>3. ASSUME NEW u \in Workers, NEW s \in SettledStatuses,
             Moves(u), worker'[u].pc = "idle", Ends(u, s)
      PROVE  /\ runStatus'[r] \in {"none", "PENDING", "WAITING_FOR_APPROVAL"}
                  => \A w \in Workers : ~(worker'[w].pc # "idle" /\ worker'[w].run = r)
             /\ \A v, w \in Workers :
                   /\ worker'[v].pc # "idle" /\ worker'[v].run = r
                   /\ worker'[w].pc # "idle" /\ worker'[w].run = r
                   => v = w
  <2>1. r # run(u) => runStatus'[r] = runStatus[r]
    BY <1>1, <1>3 DEF Ends, TypeInv, TypeOK
  <2> QED
    BY <1>1, <1>3, <2>1
<1>4. ASSUME NEW u \in Workers, NEW q \in Runs, Claims(u, q)
      PROVE  /\ runStatus'[r] \in {"none", "PENDING", "WAITING_FOR_APPROVAL"}
                  => \A w \in Workers : ~(worker'[w].pc # "idle" /\ worker'[w].run = r)
             /\ \A v, w \in Workers :
                   /\ worker'[v].pc # "idle" /\ worker'[v].run = r
                   /\ worker'[w].pc # "idle" /\ worker'[w].run = r
                   => v = w
  <2>1. /\ runStatus'[q] = "RUNNING"
        /\ r # q => runStatus'[r] = runStatus[r]
    BY <1>4 DEF Claims, TypeInv, TypeOK
  <2>2. \A w \in Workers : ~Owns(w, q)
    BY <1>4 DEF Claims
  <2> QED
    BY <1>4, <2>1, <2>2 DEF Claims
<1>5. CASE \E q \in Runs : Created(q) \/ EndedUnder(q)
  <2>1. PICK q \in Runs : Created(q) \/ EndedUnder(q)
    BY <1>5
  <2>2. /\ worker' = worker
        /\ runStatus'[r] = runStatus[r]
           \/ (r = q /\ (runStatus'[r] \in {"CANCELLED", "FAILED"} \/ runStatus[r] = "none"))
    BY <2>1 DEF Created, EndedUnder, TypeInv, TypeOK
  <2> QED
    BY <2>2
<1>6. CASE UNCHANGED <<runStatus, output, worker>>
  BY <1>6
<1> QED
  BY <1>2, <1>3, <1>4, <1>5, <1>6 DEF RunStep

\* What a step does to one run: it leaves it alone, or moves it on from a status
\* that is not terminal, with the reply that belongs to the new status.
LEMMA OneRunStep ==
    ASSUME IInv, RunStep, NEW r \in Runs
    PROVE  \/ runStatus'[r] = runStatus[r] /\ output'[r] = output[r]
           \/ /\ runStatus[r] \notin RunTerminal
              /\ output'[r] = IF /\ r \in ConversationRuns
                                 /\ runStatus'[r] \in {"SUCCEEDED", "HANDED_OFF"}
                              THEN 1 ELSE 0
<1>0. /\ runStatus \in [Runs -> RunStatuses] /\ output \in [Runs -> {0, 1}]
      /\ runStatus[r] \notin RunTerminal => output[r] = 0
  BY DEF IInv, TypeInv, TypeOK, OneReply, RunTerminal
<1>1. CASE \E w \in Workers : Quiet(w)
  BY <1>1 DEF Quiet
<1>2. ASSUME NEW w \in Workers, NEW s \in SettledStatuses, Moves(w), Ends(w, s)
      PROVE  \/ runStatus'[r] = runStatus[r] /\ output'[r] = output[r]
             \/ /\ runStatus[r] \notin RunTerminal
                /\ output'[r] = IF /\ r \in ConversationRuns
                                   /\ runStatus'[r] \in {"SUCCEEDED", "HANDED_OFF"}
                                THEN 1 ELSE 0
  <2>1. run(w) \in Runs
    BY <1>2, OwnedRun DEF Moves, IInv
  <2>2. CASE r = run(w)
    BY <1>0, <1>2, <2>1, <2>2 DEF Ends
  <2>3. CASE r # run(w)
    BY <1>0, <1>2, <2>1, <2>3 DEF Ends
  <2> QED
    BY <2>2, <2>3
<1>3. CASE \E w \in Workers, q \in Runs : Claims(w, q)
  BY <1>0, <1>3 DEF Claims, RunTerminal
<1>4. CASE \E q \in Runs : Created(q) \/ EndedUnder(q)
  BY <1>0, <1>4 DEF Created, EndedUnder, RunTerminal
<1>5. CASE UNCHANGED <<runStatus, output, worker>>
  BY <1>5
<1> QED
  BY <1>1, <1>2, <1>3, <1>4, <1>5 DEF RunStep

LEMMA ReplyInv ==
    ASSUME IInv, RunStep
    PROVE  OneReply'
BY OneRunStep DEF IInv, OneReply

LEMMA HandoffInv ==
    ASSUME IInv, TypeInv', RunStep
    PROVE  NoOrphanHandoff'
<1>1. ASSUME NEW q \in Runs, runStatus[q] = "HANDED_OFF" PROVE runStatus'[q] = "HANDED_OFF"
  BY <1>1, OneRunStep DEF RunTerminal
<1>2. CASE handoff' = handoff \/ handoff' = NoRun
  BY <1>1, <1>2 DEF IInv, NoOrphanHandoff, TypeInv, TypeOK
<1>3. CASE \E w \in Workers : /\ Moves(w) /\ Ends(w, "HANDED_OFF")
                              /\ run(w) \in ConversationRuns /\ handoff' = run(w)
  <2>1. PICK w \in Workers : /\ Moves(w) /\ Ends(w, "HANDED_OFF")
                             /\ run(w) \in ConversationRuns /\ handoff' = run(w)
    BY <1>3
  <2>2. run(w) \in Runs
    BY <2>1, OwnedRun DEF Moves, IInv
  <2>3. runStatus'[run(w)] = "HANDED_OFF"
    BY <2>1, <2>2 DEF Ends, IInv, TypeInv, TypeOK
  <2> QED
    BY <2>1, <2>3 DEF NoOrphanHandoff
<1>4. \/ handoff' = handoff \/ handoff' = NoRun
      \/ \E w \in Workers : /\ Moves(w) /\ Ends(w, "HANDED_OFF")
                            /\ run(w) \in ConversationRuns /\ handoff' = run(w)
  BY DEF RunStep, Quiet, Ends, Claims, Created, EndedUnder
<1> QED
  BY <1>2, <1>3, <1>4

LEMMA InitInv == Init => IInv
<1> SUFFICES ASSUME Init PROVE IInv
  OBVIOUS
<1>1. NoExecution \in Executions
  BY BoundsAssumption
     DEF Executions, NoExecution, ExecStatuses, PolicyDecisions, ErrorCodes
<1>2. TypeOK
  BY <1>1, IdleType, BoundsAssumption DEF Init, TypeOK, RunStatuses, ApprovalStatuses
<1>3. WorkersInv
  <2>1. WorkerShape(IdleWorker)
    <3>1. IdleWorker.pc = "idle" /\ IdleWorker.attempt = 0 /\ IdleWorker.turn = 0
      BY DEF IdleWorker
    <3> QED
      BY <3>1, IdleType DEF WorkerShape, ToolPCs
  <2>2. \A w \in Workers : worker[w] = IdleWorker
    BY DEF Init
  <2>3. worker \in [Workers -> WorkerRecords]
    BY <1>2 DEF TypeOK
  <2> QED
    BY <2>1, <2>2, <2>3 DEF WorkersInv
<1>4. RowsInv
  BY DEF Init, RowsInv, NoExecution
<1>5. ExclusiveOwner /\ OneReply /\ NoOrphanHandoff
  BY DEF Init, IdleWorker, ExclusiveOwner, Orphaned, Owns, Working, OneReply, NoOrphanHandoff
<1> QED
  BY <1>2, <1>3, <1>4, <1>5 DEF IInv, TypeInv

LEMMA NextInv == IInv /\ [Next]_vars => IInv'
<1> SUFFICES ASSUME IInv, [Next]_vars PROVE IInv'
  OBVIOUS
<1>1. TypeInv' /\ RunStep
  BY NextSteps DEF IInv
<1> QED
  BY <1>1, OwnerInv, ReplyInv, HandoffInv DEF IInv

\* Every run is in one worker's hands at most, is answered exactly when it
\* succeeds or hands over, and leaves no handoff behind otherwise; and every
\* counter keeps to its budget.  For any number of runs, workers and faults.
THEOREM RunSafety ==
    Spec => [](TypeOK /\ ExclusiveOwner /\ OneReply /\ NoOrphanHandoff)
<1>1. IInv => TypeOK /\ ExclusiveOwner /\ OneReply /\ NoOrphanHandoff
  BY DEF IInv, TypeInv
<1> QED
  BY <1>1, InitInv, NextInv, PTL DEF Spec

\* An active handoff that a run opened belongs to a run that handed over: whatever
\* _complete_run_as_handoff and cancel_agent_run race, no handoff outlives the loser.
THEOREM HandoffsAreOwned == Spec => []NoOrphanHandoff
BY RunSafety, PTL

\* No late worker reopens a terminal run or adds a reply to it.
THEOREM TerminalRunsAreFrozen == Spec => TerminalRunFrozen
<1> DEFINE Frozen == \A r \in Runs : runStatus[r] \in RunTerminal =>
                        runStatus'[r] = runStatus[r] /\ output'[r] = output[r]
<1>1. IInv /\ [Next]_vars => [Frozen]_vars
  <2> SUFFICES ASSUME IInv, [Next]_vars PROVE Frozen
    OBVIOUS
  <2>1. RunStep
    BY NextSteps DEF IInv
  <2> QED
    BY <2>1, OneRunStep
<1>2. TerminalRunFrozen <=> [][Frozen]_vars
  BY DEF TerminalRunFrozen
<1> HIDE DEF Frozen
<1> QED
  BY <1>1, <1>2, InitInv, NextInv, PTL DEF Spec

-----------------------------------------------------------------------------
(* Refinement *)

Holders == [r \in Runs |-> {w \in Workers : Owns(w, r)}]

\* A worker that lets go of its run leaves it to nobody; no other run changes hands.
LEMMA HoldersMove ==
    ASSUME IInv, NEW w \in Workers, Moves(w)
    PROVE  /\ run(w) \in Runs /\ Holders[run(w)] # {}
           /\ Holders' = IF worker'[w].pc = "idle"
                         THEN [Holders EXCEPT ![run(w)] = {}] ELSE Holders
<1>1. run(w) \in Runs /\ Owns(w, run(w))
  BY OwnedRun DEF Moves, IInv, Owns, run
<1>2. \A v \in Workers : Owns(v, run(w)) => v = w
  BY <1>1 DEF IInv, ExclusiveOwner
<1>3. \A v \in Workers : v # w => worker'[v] = worker[v]
  BY DEF Moves
<1>4. CASE worker'[w].pc = "idle"
  <2>1. \A r \in Runs, v \in Workers : Owns(v, r)' <=> Owns(v, r) /\ r # run(w)
    BY <1>1, <1>2, <1>3, <1>4 DEF Owns, Working, run
  <2>2. \A r \in Runs : Holders'[r] = IF r = run(w) THEN {} ELSE Holders[r]
    BY <2>1 DEF Holders
  <2>3. Holders' = [r \in Runs |-> IF r = run(w) THEN {} ELSE Holders[r]]
    BY <2>2 DEF Holders
  <2> QED
    BY <1>1, <1>4, <2>3 DEF Holders
<1>5. CASE worker'[w].pc # "idle"
  <2>1. \A r \in Runs, v \in Workers : Owns(v, r)' <=> Owns(v, r)
    BY <1>1, <1>3, <1>5 DEF Owns, Working, run, Moves
  <2>2. \A r \in Runs : Holders'[r] = Holders[r]
    BY <2>1 DEF Holders
  <2> QED
    BY <1>1, <1>5, <2>2 DEF Holders
<1> QED
  BY <1>4, <1>5

LEMMA HoldersClaim ==
    ASSUME IInv, NEW w \in Workers, NEW r \in Runs, Claims(w, r)
    PROVE  Holders[r] = {} /\ Holders' = [Holders EXCEPT ![r] = {w}]
<1>1. \A v \in Workers : ~Owns(v, r)
  BY DEF Claims, IInv, ExclusiveOwner, Orphaned
<1>2. \A q \in Runs, v \in Workers : Owns(v, q)' <=> IF q = r THEN v = w ELSE Owns(v, q)
  BY <1>1 DEF Claims, Owns, Working
<1>3. \A q \in Runs : Holders'[q] = IF q = r THEN {w} ELSE Holders[q]
  BY <1>2 DEF Holders
<1> QED
  BY <1>1, <1>3 DEF Holders

\* Every step of the system is a step of the lifecycle, or none.
LEMMA LifecycleStep ==
    ASSUME IInv, RunStep
    PROVE  [Lifecycle!LifecycleNext]_(Lifecycle!lifecycleVars)
<1> USE DEF Lifecycle!LifecycleNext, Lifecycle!lifecycleVars
<1>0. runStatus \in [Runs -> RunStatuses] /\ output \in [Runs -> {0, 1}]
  BY DEF IInv, TypeInv, TypeOK
<1>1. ASSUME NEW w \in Workers, Quiet(w)
      PROVE  [Lifecycle!LifecycleNext]_(Lifecycle!lifecycleVars)
  <2>1. CASE worker'[w].pc = "idle"
    <3>1. Lifecycle!LetGo(run(w))
      BY <1>1, <2>1, HoldersMove DEF Quiet, Holders, Lifecycle!LetGo
    <3> QED
      BY <1>1, <3>1, HoldersMove DEF Quiet
  <2>2. CASE worker'[w].pc # "idle"
    BY <1>1, <2>2, HoldersMove DEF Quiet, Holders
  <2> QED
    BY <2>1, <2>2
<1>2. ASSUME NEW w \in Workers, NEW s \in SettledStatuses,
             Moves(w), worker'[w].pc = "idle", Ends(w, s)
      PROVE  [Lifecycle!LifecycleNext]_(Lifecycle!lifecycleVars)
  <2>1. run(w) \in Runs /\ runStatus[run(w)] = "RUNNING"
    BY <1>2, OwnedRun DEF Moves, Ends, IInv
  <2>2. output[run(w)] = 0
    BY <2>1 DEF IInv, OneReply
  <2>3. Lifecycle!Settle(run(w), s)
    BY <1>2, <2>1, <2>2, HoldersMove DEF Ends, Holders, Lifecycle!Settle
  <2>4. s \in Lifecycle!Settled
    BY <1>2 DEF SettledStatuses, Lifecycle!Settled
  <2> QED
    BY <2>1, <2>3, <2>4
<1>3. ASSUME NEW w \in Workers, NEW r \in Runs, Claims(w, r)
      PROVE  [Lifecycle!LifecycleNext]_(Lifecycle!lifecycleVars)
  <2>1. Lifecycle!Claim(r, w)
    BY <1>3, HoldersClaim DEF Claims, Holders, Lifecycle!Claim
  <2> QED
    BY <2>1
<1>4. ASSUME NEW r \in Runs, Created(r) \/ EndedUnder(r)
      PROVE  [Lifecycle!LifecycleNext]_(Lifecycle!lifecycleVars)
  <2>1. Holders' = Holders
    BY <1>4 DEF Created, EndedUnder, Holders, Owns, Working
  <2>2. Lifecycle!Create(r) \/ Lifecycle!EndUnder(r)
    BY <1>4, <2>1 DEF Created, EndedUnder, Holders, Lifecycle!Create, Lifecycle!EndUnder,
                      Lifecycle!Open
  <2> QED
    BY <2>2
<1>5. CASE UNCHANGED <<runStatus, output, worker>>
  <2>1. Holders' = Holders
    BY <1>5 DEF Holders, Owns, Working
  <2> QED
    BY <1>5, <2>1 DEF Holders
<1> QED
  BY <1>1, <1>2, <1>3, <1>4, <1>5 DEF RunStep

\* Whatever executes, resumes, redelivers, sweeps, cancels or crashes, an observer
\* of the runs sees one of the orderly lives of RunLifecycle.
THEOREM RunsFollowTheLifecycle == Spec => ImplementsLifecycle
<1>1. Init => Lifecycle!LifecycleInit
  <2> SUFFICES ASSUME Init PROVE Lifecycle!LifecycleInit
    OBVIOUS
  <2>1. \A r \in Runs, w \in Workers : ~Owns(w, r)
    BY DEF Init, IdleWorker, Owns, Working
  <2> QED
    BY <2>1 DEF Init, Lifecycle!LifecycleInit
<1>2. IInv /\ [Next]_vars => [Lifecycle!LifecycleNext]_(Lifecycle!lifecycleVars)
  BY NextSteps, LifecycleStep DEF IInv
<1> QED
  BY <1>1, <1>2, InitInv, NextInv, PTL DEF Spec, ImplementsLifecycle, Lifecycle!LifecycleSpec

-------------------------------------------------------------------------------
(***************************************************************************)
(* The tool boundary and the approvals.                                    *)
(***************************************************************************)

\* A resume of the run is, or will be, published for one of its approvals.
Woken(r) == \E k \in Keys : exec[k].run = r /\ approval[k] \in Decided
Wakeable(r) == \E k \in Keys : exec[k].run = r /\ approval[k] \in Decided \cup {"PENDING"}

\* A row nobody has claimed has no history, a claimed one belongs to a run that has
\* claimed it, and only the run its key names, if it names one, ever does.
RowOK(k) ==
    /\ exec[k].status = "none" =>
          exec[k].policy = "none" /\ approval[k] = "none" /\ invoked[k] = 0
    /\ exec[k].status # "none" =>
          k[1] \in {exec[k].run, Unknown} /\ exec[k].run \in users[k]
    /\ k[1] # Unknown => users[k] \subseteq {k[1]}

\* What the gate made of the action of a row stays, whoever uses the row.
Judged(k) ==
    /\ exec[k].policy = "DENY" => exec[k].status = "BLOCKED_BY_POLICY" /\ invoked[k] = 0
    /\ approval[k] # "none" <=> exec[k].policy = "REQUIRE_APPROVAL"
    /\ exec[k].status = "WAITING_FOR_APPROVAL" => approval[k] \in {"PENDING", "APPROVED"}
    /\ invoked[k] > 0 => exec[k].policy \in {"ALLOW", "REQUIRE_APPROVAL"}

\* The policy, the approval and the status of a row that one run owns.  A row is
\* cancelled only with a run that nobody executes and nobody can take up again,
\* so that the reset of a cancelled row never finds a withdrawn approval.
KeyOK(k) ==
    /\ approval[k] = "PENDING" => exec[k].status = "WAITING_FOR_APPROVAL"
    /\ approval[k] \in {"REJECTED", "EXPIRED"} => exec[k].status = "APPROVAL_TERMINATED"
    /\ approval[k] = "CANCELLED" => exec[k].status = "CANCELLED"
    /\ exec[k].status = "CANCELLED" =>
          runStatus[exec[k].run] \in RunTerminal /\ Orphaned(exec[k].run)
    /\ invoked[k] > 0 => Authorized(k)

\* What a worker knows of the row it has in hand, by how far it has come.
Passed(pc, k) ==
    /\ pc \in {"check_policy", "gate", "start"} => exec[k].status \in {"PENDING", "FAILED"}
    /\ pc = "resume_claim" => approval[k] = "APPROVED"
    /\ pc \in {"reserve", "invoke"} => Authorized(k)

InHand(rec) ==
    /\ rec.key[1] \in {rec.run, Unknown}
    /\ rec.mode = "first" => rec.key[1] = rec.run
    /\ rec.pc \notin {"tool_request", "claim"} =>
          exec[rec.key].status # "none" /\ rec.run \in users[rec.key]
    /\ rec.pc = "start" => exec[rec.key].policy # "none"
    /\ rec.pc \in {"reserve", "invoke"} =>
          exec[rec.key].policy \in {"ALLOW", "REQUIRE_APPROVAL"}
    /\ rec.key \in UnsharedKeys => Passed(rec.pc, rec.key)

HoldOK(rec) ==
    /\ rec.pc # "idle" /\ rec.mode # "first" => Woken(rec.run)
    /\ rec.pc = "pause" => Wakeable(rec.run)
    /\ rec.pc \in ToolPCs => InHand(rec)

ToolInv ==
    /\ \A k \in Keys : RowOK(k) /\ Judged(k)
    /\ \A k \in UnsharedKeys : KeyOK(k)
    /\ \A w \in Workers : HoldOK(worker[w])
    /\ WaitingRunWakeable

\* Once a worker has claimed a row that only one run has used, the row is of the
\* worker's run.
LEMMA OwnRow ==
    ASSUME TypeInv, ToolInv, NEW w \in Workers, worker[w].pc \in ToolPCs,
           worker[w].pc \notin {"tool_request", "claim"}, key(w) \in UnsharedKeys
    PROVE  exec[key(w)].run = run(w)
<1>1. key(w) \in Keys
  BY ToolWorker
<1>2. run(w) \in users[key(w)] /\ exec[key(w)].run \in users[key(w)]
  BY <1>1 DEF ToolInv, HoldOK, InHand, RowOK, run, key
<1> QED
  BY <1>2 DEF UnsharedKeys

\* A terminal run that nobody executes stays one.
LEMMA DeadRun ==
    ASSUME TypeInv, RunStep, NEW r \in Runs, runStatus[r] \in RunTerminal, Orphaned(r)
    PROVE  /\ runStatus'[r] \in RunTerminal
           /\ \A v \in Workers : ~(worker'[v].pc # "idle" /\ worker'[v].run = r)
<1>0. runStatus \in [Runs -> RunStatuses]
  BY DEF TypeInv, TypeOK
<1>1. \A w \in Workers : ~(worker[w].pc # "idle" /\ worker[w].run = r)
  BY DEF Orphaned, Owns, Working
<1>2. ASSUME NEW w \in Workers, Moves(w)
      PROVE  /\ run(w) # r
             /\ \A v \in Workers : ~(worker'[v].pc # "idle" /\ worker'[v].run = r)
  BY <1>1, <1>2 DEF Moves, Working, run
<1>3. CASE \E w \in Workers : Quiet(w)
  BY <1>2, <1>3 DEF Quiet
<1>4. CASE \E w \in Workers, s \in SettledStatuses : Moves(w) /\ Ends(w, s)
  BY <1>0, <1>2, <1>4 DEF Ends, SettledStatuses, RunTerminal
<1>5. CASE \E w \in Workers, q \in Runs : Claims(w, q)
  BY <1>0, <1>1, <1>5 DEF Claims, RunTerminal
<1>6. CASE \E q \in Runs : Created(q) \/ EndedUnder(q)
  BY <1>0, <1>1, <1>6 DEF Created, EndedUnder, RunTerminal
<1>7. CASE UNCHANGED <<runStatus, output, worker>>
  BY <1>1, <1>7
<1> QED
  BY <1>3, <1>4, <1>5, <1>6, <1>7 DEF RunStep

\* The steps that write no row: the workers' new records and the runs that now
\* wait are all there is to look at.
LEMMA NoRowWritten ==
    ASSUME TypeInv, RunStep, ToolInv, UNCHANGED toolVars,
           \A w \in Workers : worker'[w] = worker[w] \/ HoldOK(worker'[w]),
           \A r \in Runs : runStatus'[r] = "WAITING_FOR_APPROVAL" =>
               runStatus[r] = "WAITING_FOR_APPROVAL" \/ Wakeable(r)
    PROVE  ToolInv'
<1>1. /\ exec' = exec /\ approval' = approval /\ invoked' = invoked /\ users' = users
      /\ UnsharedKeys' = UnsharedKeys
  BY DEF toolVars, UnsharedKeys
<1>2. \A k \in Keys : RowOK(k)' /\ Judged(k)'
  BY <1>1 DEF ToolInv, RowOK, Judged
<1>3. \A k \in UnsharedKeys : KeyOK(k)'
  <2> SUFFICES ASSUME NEW k \in UnsharedKeys PROVE KeyOK(k)'
    BY DEF UnsharedKeys
  <2>1. KeyOK(k) /\ k \in Keys
    BY DEF ToolInv, UnsharedKeys
  <2>2. exec[k].status = "CANCELLED" =>
           /\ runStatus'[exec[k].run] \in RunTerminal
           /\ \A v \in Workers : ~(worker'[v].pc # "idle" /\ worker'[v].run = exec[k].run)
    BY <2>1, DeadRun DEF KeyOK, TypeInv, RowsInv
  <2> QED
    BY <1>1, <2>1, <2>2 DEF KeyOK, Authorized, Orphaned, Owns, Working
<1>4. \A w \in Workers : HoldOK(worker[w])'
  <2> SUFFICES ASSUME NEW w \in Workers PROVE HoldOK(worker[w])'
    OBVIOUS
  <2>1. HoldOK(worker'[w])
    BY DEF ToolInv
  <2> QED
    BY <1>1, <2>1 DEF HoldOK, InHand, Passed, Authorized, Woken, Wakeable
<1>5. WaitingRunWakeable'
  BY <1>1 DEF ToolInv, WaitingRunWakeable, Wakeable
<1> QED
  BY <1>1, <1>2, <1>3, <1>4, <1>5 DEF ToolInv

\* The steps of a worker that write the row it has in hand.  A claim may be the
\* first of a second run: from then on the row is shared.
LEMMA ClaimedRowWritten ==
    ASSUME TypeInv, RunStep, ToolInv, ExclusiveOwner, NEW w \in Workers,
           worker[w].pc \in ToolPCs, Quiet(w), NEW k \in Keys, k = key(w),
           \A j \in Keys : j # k => /\ exec'[j] = exec[j] /\ approval'[j] = approval[j]
                                    /\ invoked'[j] = invoked[j] /\ users'[j] = users[j],
           users'[k] = users[k] \cup {run(w)},
           exec'[k].status # "none",
           exec[k].status # "none" => exec'[k].run = exec[k].run,
           exec[k].status = "none" => exec'[k].run = run(w),
           exec[k].policy # "none" => exec'[k].policy = exec[k].policy, Judged(k)',
           approval[k] # "none" => approval'[k] = approval[k],
           k \in UnsharedKeys' => KeyOK(k)',
           worker'[w].pc = "idle" \/ (worker'[w].mode = "first" <=> worker[w].mode = "first"),
           worker'[w].pc = "pause" =>
              worker[w].mode # "first" \/ Wakeable(worker[w].run)',
           worker'[w].pc \in ToolPCs => InHand(worker[w])'
    PROVE  ToolInv'
<1>0. \A j \in UnsharedKeys' : j \in UnsharedKeys /\ j \in Keys
  <2> SUFFICES ASSUME NEW j \in Keys, \A r, s \in users'[j] : r = s
               PROVE  \A r, s \in users[j] : r = s
    BY DEF UnsharedKeys
  <2>1. users[j] \subseteq users'[j]
    OBVIOUS
  <2> QED
    BY <2>1
<1>1. \A j \in Keys : RowOK(j)' /\ Judged(j)'
  <2> SUFFICES ASSUME NEW j \in Keys PROVE RowOK(j)' /\ Judged(j)'
    OBVIOUS
  <2>1. RowOK(j) /\ Judged(j)
    BY DEF ToolInv
  <2>2. CASE j # k
    BY <2>1, <2>2 DEF RowOK, Judged
  <2>3. CASE j = k
    <3>1. k[1] \in {run(w), Unknown}
      BY DEF ToolInv, HoldOK, InHand, run, key
    <3> QED
      BY <2>1, <2>3, <3>1 DEF RowOK, Judged
  <2> QED
    BY <2>2, <2>3
<1>2. \A j \in Keys : approval[j] # "none" =>
         exec'[j].run = exec[j].run /\ approval'[j] = approval[j]
  BY DEF ToolInv, RowOK
<1>3. \A j \in UnsharedKeys' : KeyOK(j)'
  <2> SUFFICES ASSUME NEW j \in UnsharedKeys', j # k PROVE KeyOK(j)'
    OBVIOUS
  <2>1. KeyOK(j) /\ j \in Keys
    BY <1>0 DEF ToolInv
  <2>2. exec[j].status = "CANCELLED" =>
           /\ runStatus'[exec[j].run] \in RunTerminal
           /\ \A v \in Workers : ~(worker'[v].pc # "idle" /\ worker'[v].run = exec[j].run)
    BY <2>1, DeadRun DEF KeyOK, TypeInv, RowsInv
  <2> QED
    BY <2>1, <2>2 DEF KeyOK, Authorized, Orphaned, Owns, Working
<1>4. ASSUME NEW r PROVE (Woken(r) => Woken(r)') /\ (Wakeable(r) => Wakeable(r)')
  <2>1. "none" \notin Decided \cup {"PENDING"}
    BY DEF Decided
  <2> QED
    BY <1>2, <2>1 DEF Woken, Wakeable
<1>5. \A v \in Workers : HoldOK(worker[v])'
  <2>0. HoldOK(worker[w])'
    <3>1. HoldOK(worker[w]) /\ Working(w)
      BY DEF ToolInv, Quiet, Moves
    <3>2. worker'[w].pc = "idle" \/ worker'[w].run = run(w)
      BY DEF Quiet, Moves
    <3>4. worker[w].mode # "first" => Woken(worker[w].run)
      BY <3>1 DEF HoldOK, Working
    <3>5. ASSUME worker'[w].pc # "idle", worker[w].mode # "first"
          PROVE  Woken(worker[w].run)' /\ Wakeable(worker[w].run)'
      <4>1. \E j \in Keys : exec[j].run = run(w) /\ approval[j] \in Decided
        BY <3>4, <3>5 DEF Woken, run
      <4>2. \E j \in Keys : exec'[j].run = run(w) /\ approval'[j] \in Decided
        BY <1>2, <4>1 DEF Decided
      <4> QED
        BY <3>2, <3>5, <4>2 DEF Woken, Wakeable
    <3> QED
      BY <3>5 DEF HoldOK
  <2> SUFFICES ASSUME NEW v \in Workers, v # w PROVE HoldOK(worker[v])'
    BY <2>0
  <2>1. HoldOK(worker[v]) /\ worker'[v] = worker[v]
    BY DEF ToolInv, Quiet, Moves
  <2>2. ASSUME worker[v].pc \in ToolPCs PROVE InHand(worker[v])'
    <3>1. InHand(worker[v]) /\ key(v) \in Keys
      BY <2>1, <2>2, ToolWorker DEF HoldOK
    <3>2. users[key(v)] \subseteq users'[key(v)]
      BY <3>1
    <3>3. CASE worker[v].pc \in {"tool_request", "claim"}
      BY <2>1, <3>1, <3>3 DEF InHand, Passed
    <3>4. CASE worker[v].pc \notin {"tool_request", "claim"}
      <4>0. run(v) \in Runs /\ Working(v) /\ Working(w)
        BY <2>2, ToolWorker
      <4>1. run(v) \in users[key(v)] /\ run(v) # run(w)
        BY <3>1, <3>4, <4>0 DEF InHand, ExclusiveOwner, Owns, run, key
      <4>2. key(v) \in UnsharedKeys' => key(v) # k
        BY <3>2, <4>1 DEF UnsharedKeys
      <4> QED
        BY <1>0, <2>1, <3>1, <3>2, <4>2 DEF InHand, Passed, Authorized, key
    <3> QED
      BY <3>3, <3>4
  <2> QED
    BY <1>4, <2>1, <2>2 DEF HoldOK
<1>6. WaitingRunWakeable'
  BY <1>4 DEF ToolInv, WaitingRunWakeable, Wakeable, Quiet
<1> QED
  BY <1>1, <1>3, <1>5, <1>6 DEF ToolInv

LEMMA OneRowWritten ==
    ASSUME TypeInv, RunStep, ToolInv, ExclusiveOwner, NEW w \in Workers,
           worker[w].pc \in ToolPCs, worker[w].pc \notin {"tool_request", "claim"},
           Quiet(w), NEW k \in Keys, k = key(w), UNCHANGED users,
           \A j \in Keys : j # k => /\ exec'[j] = exec[j] /\ approval'[j] = approval[j]
                                    /\ invoked'[j] = invoked[j],
           exec'[k].status # "none", exec'[k].run = exec[k].run,
           exec[k].policy # "none" => exec'[k].policy = exec[k].policy, Judged(k)',
           approval[k] # "none" => approval'[k] = approval[k],
           k \in UnsharedKeys => KeyOK(k)',
           worker'[w].pc = "idle" \/ (worker'[w].mode = "first" <=> worker[w].mode = "first"),
           worker'[w].pc = "pause" =>
              worker[w].mode # "first" \/ Wakeable(worker[w].run)',
           worker'[w].pc \in ToolPCs => InHand(worker[w])'
    PROVE  ToolInv'
<1>1. run(w) \in users[k] /\ exec[k].status # "none"
  BY DEF ToolInv, HoldOK, InHand, run, key
<1>2. users'[k] = users[k] \cup {run(w)}
  BY <1>1
<1>3. UnsharedKeys' = UnsharedKeys
  BY DEF UnsharedKeys
<1> QED
  BY <1>1, <1>2, <1>3, ClaimedRowWritten

\* The record AfterTool leaves, and the one Go leaves.
LEMMA AfterToolRecord ==
    ASSUME TypeInv, NEW w \in Workers, NEW next, AfterTool(w, next)
    PROVE  /\ worker'[w].pc = next /\ worker'[w].run = run(w)
           /\ worker'[w].mode = "first" <=> worker[w].mode = "first"
<1>1. worker[w] \in WorkerRecords /\ worker \in [Workers -> WorkerRecords]
  BY DEF TypeInv, WorkersInv
<1> QED
  BY <1>1 DEF AfterTool, run, WorkerRecords

LEMMA GoRecord ==
    ASSUME TypeInv, NEW w \in Workers, NEW next, Go(w, next)
    PROVE  /\ worker'[w].pc = next /\ worker'[w].run = run(w)
           /\ worker'[w].mode = worker[w].mode /\ worker'[w].key = key(w)
<1>1. worker[w] \in WorkerRecords /\ worker \in [Workers -> WorkerRecords]
  BY DEF TypeInv, WorkersInv
<1> QED
  BY <1>1 DEF Go, run, key, WorkerRecords

\* A worker that lets go of the tool call, or of everything, and does not pause.
LEMMA LeavesTool ==
    ASSUME ToolInv, NEW w \in Workers, Working(w),
           worker'[w].pc \notin ToolPCs \cup {"pause"},
           \/ worker'[w].pc = "idle"
           \/ /\ worker'[w].run = run(w)
              /\ worker'[w].mode = "first" <=> worker[w].mode = "first"
    PROVE  HoldOK(worker'[w])
BY DEF ToolInv, HoldOK, Working, run

LEMMA GenerateHold ==
    ASSUME TypeInv, ToolInv, NEW w \in Workers, generate_response(w)
    PROVE  HoldOK(worker'[w])
<1>1. /\ worker[w] \in WorkerRecords /\ worker \in [Workers -> WorkerRecords]
      /\ Working(w) /\ worker[w].pc = "generate"
  BY DEF TypeInv, WorkersInv, generate_response, Working
<1>2. ASSUME NEW retryable \in BOOLEAN, ProviderError(w, retryable)
      PROVE  HoldOK(worker'[w])
  <2>1. /\ worker'[w].run = run(w) /\ worker'[w].mode = worker[w].mode
        /\ worker'[w].pc \in {"check_budget", "hand_over", "fail"}
    BY <1>1, <1>2 DEF ProviderError, fail_or_handoff, run, WorkerRecords
  <2> QED
    BY <1>1, <2>1, LeavesTool DEF ToolPCs
<1>3. ASSUME NEW next \in {"handoff_request", "complete", "fail"}, ProviderAnswer(w, next)
      PROVE  HoldOK(worker'[w])
  <2>1. /\ worker'[w].run = run(w) /\ worker'[w].mode = worker[w].mode
        /\ worker'[w].pc = next
    BY <1>1, <1>3 DEF ProviderAnswer, run, WorkerRecords
  <2> QED
    BY <1>1, <2>1, LeavesTool DEF ToolPCs
<1>4. ASSUME NEW call \in Calls, ProviderToolCall(w, call)
      PROVE  HoldOK(worker'[w])
  <2> DEFINE k == IdempotencyKey(w, worker[w].turn + 1, call)
  <2>1. k[1] = IF worker[w].mode = "first" THEN run(w) ELSE Unknown
    BY DEF IdempotencyKey
  <2> HIDE DEF k
  <2>2. /\ worker'[w].run = run(w) /\ worker'[w].mode = worker[w].mode
        /\ worker'[w].pc = "tool_request" /\ worker'[w].key = k
    BY <1>1, <1>4 DEF ProviderToolCall, run, WorkerRecords, k
  <2>3. InHand(worker'[w])
    BY <2>1, <2>2 DEF InHand, Passed
  <2> QED
    BY <1>1, <2>2, <2>3 DEF ToolInv, HoldOK, Working, run
<1> QED
  BY <1>2, <1>3, <1>4 DEF generate_response

LEMMA GraphHold ==
    ASSUME TypeInv, ToolInv, NEW w \in Workers,
           \/ execute_support_agent_run(w)
           \/ check_budget(w)
           \/ generate_response(w)
           \/ execute_handoff_request(w)
           \/ execute_tool_call(w)
           \/ already_policy_evaluated(w)
           \/ continue_run_after_resumed_tool(w)
    PROVE  HoldOK(worker'[w])
<1>1. /\ worker \in [Workers -> WorkerRecords] /\ Working(w) /\ HoldOK(worker[w])
  BY DEF TypeInv, WorkersInv, ToolInv, Working, execute_support_agent_run, check_budget,
         generate_response, execute_handoff_request, execute_tool_call,
         already_policy_evaluated, continue_run_after_resumed_tool
<1>2. ASSUME NEW next \in {"check_budget", "generate", "fail", "budget_exceeded", "hand_over"},
             Go(w, next)
      PROVE  HoldOK(worker'[w])
  BY <1>1, <1>2, GoRecord, LeavesTool DEF ToolPCs
<1>3. ASSUME Finish(w) PROVE HoldOK(worker'[w])
  <2>1. worker'[w].pc = "idle"
    BY <1>1, <1>3 DEF Finish, IdleWorker
  <2> QED
    BY <1>1, <2>1, LeavesTool DEF ToolPCs
<1>4. CASE execute_support_agent_run(w)
  BY <1>2, <1>4 DEF execute_support_agent_run
<1>5. CASE check_budget(w)
  BY <1>2, <1>3, <1>5 DEF check_budget
<1>6. CASE generate_response(w)
  BY <1>6, GenerateHold
<1>7. CASE execute_handoff_request(w)
  BY <1>2, <1>3, <1>7 DEF execute_handoff_request
<1>8. CASE execute_tool_call(w)
  <2>1. ASSUME Go(w, "claim") PROVE HoldOK(worker'[w])
    BY <1>1, <1>8, <2>1, GoRecord DEF execute_tool_call, HoldOK, InHand, Passed, ToolPCs, run, key
  <2>2. ASSUME NEW next \in {"check_budget", "fail", "budget_exceeded"}, AfterTool(w, next)
        PROVE  HoldOK(worker'[w])
    BY <1>1, <2>2, AfterToolRecord, LeavesTool DEF ToolPCs
  <2> QED
    BY <1>3, <1>8, <2>1, <2>2 DEF execute_tool_call
<1>9. CASE already_policy_evaluated(w)
  <2>1. /\ worker[w].pc = "check_policy"
        /\ Go(w, IF exec[key(w)].policy = "none" THEN "gate" ELSE "start")
    BY <1>9 DEF already_policy_evaluated
  <2>2. /\ worker'[w].pc = IF exec[key(w)].policy = "none" THEN "gate" ELSE "start"
        /\ worker'[w].run = run(w)
        /\ worker'[w].mode = worker[w].mode /\ worker'[w].key = key(w)
    BY <2>1, GoRecord
  <2>3. InHand(worker[w])
    BY <1>1, <2>1 DEF HoldOK, ToolPCs
  <2>4. InHand(worker'[w])
    BY <2>1, <2>2, <2>3 DEF InHand, Passed, run, key
  <2> QED
    BY <1>1, <2>1, <2>2, <2>4 DEF HoldOK, run
<1>10. CASE continue_run_after_resumed_tool(w)
  BY <1>2, <1>10 DEF continue_run_after_resumed_tool
<1> QED
  BY <1>4, <1>5, <1>6, <1>7, <1>8, <1>9, <1>10

\* What a worker at the tool boundary may rely on.
LEMMA ToolFacts ==
    ASSUME IInv, ToolInv, NEW w \in Workers, worker[w].pc \in ToolPCs
    PROVE  /\ TypeInv /\ ExclusiveOwner /\ Working(w) /\ run(w) \in Runs
           /\ key(w) \in Keys /\ exec[key(w)] \in Executions
           /\ exec \in [Keys -> Executions] /\ approval \in [Keys -> ApprovalStatuses]
           /\ invoked \in [Keys -> Nat] /\ users \in [Keys -> SUBSET Runs]
           /\ InHand(worker[w]) /\ RowOK(key(w)) /\ Judged(key(w))
           /\ key(w) \in UnsharedKeys => KeyOK(key(w))
           /\ key(w) \in UnsharedKeys /\ worker[w].pc \notin {"tool_request", "claim"} =>
                exec[key(w)].status # "CANCELLED" /\ exec[key(w)].run = run(w)
<1>1. /\ TypeInv /\ ExclusiveOwner /\ Working(w) /\ run(w) \in Runs
      /\ key(w) \in Keys /\ exec[key(w)] \in Executions
  BY ToolWorker DEF IInv
<1>2. /\ exec \in [Keys -> Executions] /\ approval \in [Keys -> ApprovalStatuses]
      /\ invoked \in [Keys -> Nat] /\ users \in [Keys -> SUBSET Runs]
  BY DEF IInv, TypeInv, TypeOK
<1>3. InHand(worker[w]) /\ RowOK(key(w)) /\ Judged(key(w))
  BY <1>1 DEF ToolInv, HoldOK
<1>4. key(w) \in UnsharedKeys => KeyOK(key(w))
  BY DEF ToolInv
<1>5. ASSUME key(w) \in UnsharedKeys, worker[w].pc \notin {"tool_request", "claim"}
      PROVE  exec[key(w)].status # "CANCELLED" /\ exec[key(w)].run = run(w)
  <2>1. KeyOK(key(w))
    BY <1>4, <1>5
  <2>2. exec[key(w)].run = run(w)
    BY <1>1, <1>5, OwnRow
  <2>3. exec[key(w)].status # "CANCELLED"
    BY <1>1, <2>1, <2>2 DEF KeyOK, Orphaned, Owns, run
  <2> QED
    BY <2>2, <2>3
<1> QED
  BY <1>1, <1>2, <1>3, <1>4, <1>5

LEMMA ClaimTool ==
    ASSUME IInv, ToolInv, RunStep, NEW w \in Workers, claim_execution(w),
           NEW k \in Keys, k = key(w)
    PROVE  ToolInv'
<1>1. worker[w].pc = "claim" /\ worker[w].pc \in ToolPCs
  BY DEF claim_execution, ToolPCs
<1>2. /\ TypeInv /\ ExclusiveOwner /\ Working(w) /\ run(w) \in Runs
      /\ k \in Keys /\ exec[k] \in Executions /\ exec \in [Keys -> Executions]
      /\ InHand(worker[w]) /\ RowOK(k) /\ Judged(k) /\ users \in [Keys -> SUBSET Runs]
      /\ k \in UnsharedKeys => KeyOK(k)
  BY <1>1, ToolFacts
<1>3. Quiet(w) /\ UNCHANGED <<approval, invoked>>
  BY <1>2, ClaimStep DEF claim_execution
<1>9. /\ users'[k] = users[k] \cup {run(w)}
      /\ \A j \in Keys : j # k => users'[j] = users[j]
  BY <1>2 DEF claim_execution
<1>10. ASSUME k \in UnsharedKeys'
       PROVE  /\ KeyOK(k) /\ exec[k].status # "CANCELLED"
              /\ exec[k].status # "none" => exec[k].run = run(w)
  <2>1. users[k] \subseteq {run(w)}
    BY <1>9, <1>10 DEF UnsharedKeys
  <2>2. KeyOK(k)
    BY <1>2, <2>1 DEF UnsharedKeys
  <2>3. exec[k].status # "none" => exec[k].run = run(w)
    BY <1>2, <2>1 DEF RowOK
  <2>4. exec[k].status # "CANCELLED"
    BY <1>2, <2>2, <2>3 DEF KeyOK, Orphaned, Owns, run
  <2> QED
    BY <2>2, <2>3, <2>4
<1>4. CASE ClaimNew(w)
  <2>1. /\ worker'[w].pc = "check_policy" /\ worker'[w].run = run(w)
        /\ worker'[w].mode = worker[w].mode /\ worker'[w].key = k
    BY <1>2, <1>4, GoRecord DEF ClaimNew
  <2>2. /\ exec[k].status = "none" /\ \A j \in Keys : j # k => exec'[j] = exec[j]
        /\ exec'[k].status = "PENDING" /\ exec'[k].run = run(w) /\ exec'[k].policy = "none"
    BY <1>2, <1>4 DEF ClaimNew, NoExecution
  <2>3. k \in UnsharedKeys' => KeyOK(k)'
    BY <1>2, <1>3, <1>10, <2>2 DEF KeyOK, RowOK
  <2>4. InHand(worker[w])'
    BY <1>2, <1>9, <2>1, <2>2 DEF InHand, Passed, run, key
  <2>5. Judged(k)' /\ exec[k].policy = "none"
    BY <1>2, <1>3, <2>2 DEF Judged, RowOK
  <2> QED
    BY <1>1, <1>2, <1>3, <1>9, <2>1, <2>2, <2>3, <2>4, <2>5, ClaimedRowWritten
<1>5. CASE /\ exec[k].status \in {"FAILED", "TIMED_OUT", "CANCELLED"}
           /\ exec' = [exec EXCEPT ![k].status = "PENDING", ![k].error = "none"]
           /\ worker' = [worker EXCEPT ![w].tries = exec[k].attempts,
                                       ![w].pc = "check_policy"]
  <2>1. /\ worker'[w].pc = "check_policy" /\ worker'[w].run = run(w)
        /\ worker'[w].mode = worker[w].mode /\ worker'[w].key = k
    <3>1. worker \in [Workers -> WorkerRecords]
      BY <1>2 DEF TypeInv, WorkersInv
    <3> QED
      BY <1>5, <3>1 DEF run, key, WorkerRecords
  <2>2. /\ \A j \in Keys : j # k => exec'[j] = exec[j]
        /\ exec'[k].status = "PENDING" /\ exec'[k].run = exec[k].run
        /\ exec'[k].policy = exec[k].policy
    BY <1>2, <1>5 DEF Executions
  <2>3. k \in UnsharedKeys' => KeyOK(k)'
    BY <1>2, <1>3, <1>5, <1>10, <2>2 DEF KeyOK, Authorized
  <2>4. InHand(worker[w])'
    BY <1>2, <1>9, <2>1, <2>2 DEF InHand, Passed, run, key
  <2>5. exec[k].status # "none" /\ Judged(k)'
    BY <1>2, <1>3, <1>5, <2>2 DEF Judged
  <2> QED
    BY <1>1, <1>2, <1>3, <1>9, <2>1, <2>2, <2>3, <2>4, <2>5, ClaimedRowWritten
<1>6. CASE /\ exec[k].status # "none" /\ UNCHANGED exec
           /\ \/ AfterTool(w, "check_budget") \/ AfterTool(w, "fail")
              \/ exec[k].status = "WAITING_FOR_APPROVAL" /\ AfterTool(w, "pause")
  <2>1. /\ worker'[w].pc \in {"check_budget", "fail", "pause"}
        /\ worker'[w].pc = "pause" => exec[k].status = "WAITING_FOR_APPROVAL"
        /\ worker'[w].mode = "first" <=> worker[w].mode = "first"
    BY <1>2, <1>6, AfterToolRecord
  <2>2. k \in UnsharedKeys' => KeyOK(k)'
    BY <1>2, <1>3, <1>6, <1>10 DEF KeyOK, Authorized
  <2>3. ASSUME worker'[w].pc = "pause", worker[w].mode = "first"
        PROVE  \E j \in Keys : exec'[j].run = worker'[w].run /\ approval'[j] \in Decided \cup {"PENDING"}
    <3>1. k \in UnsharedKeys'
      BY <1>2, <1>9, <2>3, RunsAssumption DEF InHand, RowOK, UnsharedKeys, run, key
    <3>2. exec[k].run = run(w) /\ approval[k] \in Decided \cup {"PENDING"}
      BY <1>2, <1>6, <1>10, <2>1, <2>3, <3>1 DEF Judged, Decided
    <3>3. worker'[w].run = run(w)
      BY <1>3, <2>3 DEF Quiet, Moves
    <3> QED
      BY <1>2, <1>3, <1>6, <3>2, <3>3
  <2>4. worker'[w].pc = "pause" => worker[w].mode # "first" \/ Wakeable(worker[w].run)'
    BY <2>3 DEF Wakeable
  <2>5. Judged(k)'
    BY <1>2, <1>3, <1>6 DEF Judged
  <2> QED
    BY <1>1, <1>2, <1>3, <1>6, <1>9, <2>1, <2>2, <2>4, <2>5, ClaimedRowWritten DEF ToolPCs
<1>7. ClaimNew(w) \/ ClaimExisting(w)
  BY DEF claim_execution
<1>8. ASSUME ClaimExisting(w)
      PROVE  \/ /\ exec[k].status \in {"FAILED", "TIMED_OUT", "CANCELLED"}
                /\ exec' = [exec EXCEPT ![k].status = "PENDING", ![k].error = "none"]
                /\ worker' = [worker EXCEPT ![w].tries = exec[k].attempts,
                                            ![w].pc = "check_policy"]
             \/ /\ exec[k].status # "none" /\ UNCHANGED exec
                /\ \/ AfterTool(w, "check_budget") \/ AfterTool(w, "fail")
                   \/ exec[k].status = "WAITING_FOR_APPROVAL" /\ AfterTool(w, "pause")
  BY <1>8 DEF ClaimExisting
<1> QED
  BY <1>4, <1>5, <1>6, <1>7, <1>8

LEMMA StartTool ==
    ASSUME IInv, ToolInv, RunStep, NEW w \in Workers, transition_running(w),
           NEW k \in Keys, k = key(w)
    PROVE  ToolInv'
<1>1. worker[w].pc = "start" /\ worker[w].pc \in ToolPCs
  BY DEF transition_running, ToolPCs
<1>2. /\ TypeInv /\ ExclusiveOwner /\ Working(w) /\ run(w) \in Runs
      /\ k \in Keys /\ exec[k] \in Executions /\ exec \in [Keys -> Executions]
      /\ InHand(worker[w]) /\ RowOK(k) /\ Judged(k)
      /\ k \in UnsharedKeys => KeyOK(k)
  BY <1>1, ToolFacts
<1>3. Quiet(w) /\ UNCHANGED <<approval, users, invoked>> /\ UnsharedKeys' = UnsharedKeys
  BY <1>2, StartStep DEF transition_running, UnsharedKeys
<1>4. exec[k].status # "none"
  BY <1>1, <1>2 DEF InHand, key
<1>5. CASE /\ exec[k].status \in {"PENDING", "WAITING_FOR_APPROVAL"}
           /\ exec' = [exec EXCEPT ![k].status = "RUNNING"] /\ Go(w, "reserve")
  <2>1. /\ worker'[w].pc = "reserve" /\ worker'[w].run = run(w)
        /\ worker'[w].mode = worker[w].mode /\ worker'[w].key = k
    BY <1>2, <1>5, GoRecord
  <2>2. /\ \A j \in Keys : j # k => exec'[j] = exec[j]
        /\ exec'[k].status = "RUNNING" /\ exec'[k].run = exec[k].run
        /\ exec'[k].policy = exec[k].policy
    BY <1>2, <1>5 DEF Executions
  <2>3. ASSUME k \in UnsharedKeys PROVE KeyOK(k)' /\ Authorized(k)'
    <3>1. /\ exec[k].status \in {"PENDING", "FAILED"} /\ exec[k].policy # "none"
          /\ exec[k].policy \in PolicyDecisions /\ approval[k] \in ApprovalStatuses
      BY <1>1, <1>2, <2>3 DEF InHand, Passed, key, Executions, TypeInv, TypeOK
    <3>2. Authorized(k)
      BY <1>2, <2>3, <3>1 DEF KeyOK, Judged, Authorized, PolicyDecisions, ApprovalStatuses, Decided
    <3> QED
      BY <1>2, <1>3, <2>2, <2>3, <3>1, <3>2 DEF KeyOK, Authorized
  <2>0. exec[k].policy \in {"ALLOW", "REQUIRE_APPROVAL"} /\ Judged(k)'
    BY <1>1, <1>2, <1>3, <1>5, <2>2
       DEF Judged, InHand, key, Executions, PolicyDecisions
  <2>4. InHand(worker[w])'
    BY <1>1, <1>2, <1>3, <2>0, <2>1, <2>2, <2>3 DEF InHand, Passed, Authorized, run, key
  <2> QED
    BY <1>1, <1>2, <1>3, <1>4, <2>0, <2>1, <2>2, <2>3, <2>4, OneRowWritten
<1>6. CASE AfterTool(w, "fail") /\ UNCHANGED exec
  <2>1. /\ worker'[w].pc = "fail"
        /\ worker'[w].mode = "first" <=> worker[w].mode = "first"
    BY <1>2, <1>6, AfterToolRecord
  <2> QED
    BY <1>2, <1>3, <1>6, <2>1, LeavesTool, NoRowWritten DEF ToolPCs, toolVars, Quiet, Moves
<1> QED
  BY <1>5, <1>6 DEF transition_running

LEMMA GateTool ==
    ASSUME IInv, ToolInv, RunStep, NEW w \in Workers, run_policy_gate(w),
           NEW k \in Keys, k = key(w)
    PROVE  ToolInv'
<1>1. worker[w].pc = "gate" /\ worker[w].pc \in ToolPCs
  BY DEF run_policy_gate, ToolPCs
<1>2. /\ TypeInv /\ ExclusiveOwner /\ Working(w) /\ run(w) \in Runs
      /\ exec[k] \in Executions /\ exec \in [Keys -> Executions]
      /\ approval \in [Keys -> ApprovalStatuses]
      /\ InHand(worker[w]) /\ RowOK(k) /\ Judged(k) /\ invoked \in [Keys -> Nat]
      /\ k \in UnsharedKeys => KeyOK(k) /\ exec[k].run = run(w)
  BY <1>1, ToolFacts
<1>3. Quiet(w) /\ UNCHANGED <<users, invoked>> /\ UnsharedKeys' = UnsharedKeys
  BY <1>2, GateStep DEF run_policy_gate, UnsharedKeys
<1>4. exec[k].status # "none"
  BY <1>1, <1>2 DEF InHand, key
<1>5. k \in UnsharedKeys => exec[k].status \in {"PENDING", "FAILED"}
  BY <1>1, <1>2 DEF InHand, Passed, key
<1>6. ASSUME NEW policy \in PolicyDecisions, NEW status \in ExecStatuses,
             exec' = [exec EXCEPT ![k].policy = policy, ![k].status = status]
      PROVE  /\ \A j \in Keys : j # k => exec'[j] = exec[j]
             /\ exec'[k].status = status /\ exec'[k].run = exec[k].run
             /\ exec'[k].policy = policy
  BY <1>2, <1>6 DEF Executions
<1>7. CASE /\ exec[k].policy = "none"
           /\ exec' = [exec EXCEPT ![k].policy = "ALLOW", ![k].status = exec[k].status]
           /\ Go(w, "start") /\ UNCHANGED approval
  <2>1. /\ worker'[w].pc = "start" /\ worker'[w].run = run(w)
        /\ worker'[w].mode = worker[w].mode /\ worker'[w].key = k
    BY <1>2, <1>7, GoRecord
  <2>2. exec[k].status \in ExecStatuses /\ "ALLOW" \in PolicyDecisions
    BY <1>2 DEF Executions, PolicyDecisions
  <2>3. /\ \A j \in Keys : j # k => exec'[j] = exec[j]
        /\ exec'[k].status = exec[k].status /\ exec'[k].run = exec[k].run
        /\ exec'[k].policy = "ALLOW"
    BY <1>6, <1>7, <2>2
  <2>4. k \in UnsharedKeys => KeyOK(k)'
    BY <1>2, <1>3, <1>5, <1>7, <2>3 DEF KeyOK, Authorized
  <2>5. InHand(worker[w])'
    BY <1>1, <1>2, <1>3, <1>4, <1>5, <2>1, <2>3 DEF InHand, Passed, run, key
  <2>6. approval' = approval /\ Judged(k)'
    BY <1>2, <1>3, <1>7, <2>3 DEF Judged
  <2> QED
    BY <1>1, <1>2, <1>3, <1>4, <1>7, <2>1, <2>3, <2>4, <2>5, <2>6, OneRowWritten
<1>8. CASE /\ exec[k].policy = "none" /\ exec[k].status = "PENDING"
           /\ exec' = [exec EXCEPT ![k].policy = "DENY", ![k].status = "BLOCKED_BY_POLICY"]
           /\ AfterTool(w, "check_budget") \/ AfterTool(w, "fail")
           /\ UNCHANGED approval
  <2>1. /\ worker'[w].pc \in {"check_budget", "fail"}
        /\ worker'[w].mode = "first" <=> worker[w].mode = "first"
    BY <1>2, <1>8, AfterToolRecord
  <2>2. "BLOCKED_BY_POLICY" \in ExecStatuses /\ "DENY" \in PolicyDecisions
    BY DEF ExecStatuses, PolicyTerminal, PolicyDecisions
  <2>3. /\ \A j \in Keys : j # k => exec'[j] = exec[j]
        /\ exec'[k].status = "BLOCKED_BY_POLICY" /\ exec'[k].run = exec[k].run
        /\ exec'[k].policy = "DENY"
    BY <1>6, <1>8, <2>2
  <2>4. k \in UnsharedKeys => KeyOK(k)'
    BY <1>2, <1>3, <1>8, <2>3 DEF KeyOK, Authorized
  <2>5. approval' = approval /\ Judged(k)'
    BY <1>2, <1>3, <1>8, <2>3 DEF Judged
  <2> QED
    BY <1>1, <1>2, <1>3, <1>4, <1>8, <2>1, <2>3, <2>4, <2>5, OneRowWritten DEF ToolPCs
<1>9. CASE /\ exec[k].policy = "none" /\ exec[k].status = "PENDING"
           /\ exec' = [exec EXCEPT ![k].policy = "REQUIRE_APPROVAL",
                                   ![k].status = "WAITING_FOR_APPROVAL"]
           /\ approval' = create_or_reuse_approval_request(k)
           /\ AfterTool(w, "pause")
  <2>1. /\ worker'[w].pc = "pause" /\ worker'[w].run = run(w)
        /\ worker'[w].mode = "first" <=> worker[w].mode = "first"
    BY <1>2, <1>9, AfterToolRecord
  <2>2. "WAITING_FOR_APPROVAL" \in ExecStatuses /\ "REQUIRE_APPROVAL" \in PolicyDecisions
    BY DEF ExecStatuses, PolicyDecisions
  <2>3. /\ \A j \in Keys : j # k => exec'[j] = exec[j]
        /\ exec'[k].status = "WAITING_FOR_APPROVAL" /\ exec'[k].run = exec[k].run
        /\ exec'[k].policy = "REQUIRE_APPROVAL"
    BY <1>6, <1>9, <2>2
  <2>4. /\ \A j \in Keys : j # k => approval'[j] = approval[j]
        /\ approval[k] # "none" => approval'[k] = approval[k]
        /\ approval[k] = "none" => approval'[k] = "PENDING"
    BY <1>2, <1>9 DEF create_or_reuse_approval_request
  <2>5. k \in UnsharedKeys => approval[k] = "none" /\ exec[k].run = run(w)
    BY <1>2, <1>9 DEF Judged
  <2>6. k \in UnsharedKeys => KeyOK(k)'
    BY <1>2, <1>3, <1>9, <2>3, <2>4, <2>5 DEF KeyOK, Authorized
  <2>0. Judged(k)'
    BY <1>2, <1>3, <1>9, <2>3, <2>4 DEF Judged
  <2>7. ASSUME worker[w].mode = "first" PROVE Wakeable(worker[w].run)'
    <3>1. k \in UnsharedKeys
      BY <1>1, <1>2, <2>7, RunsAssumption DEF InHand, RowOK, UnsharedKeys, run, key
    <3>2. exec'[k].run = worker'[w].run /\ approval'[k] \in Decided \cup {"PENDING"}
      BY <2>1, <2>3, <2>4, <2>5, <3>1
    <3> QED
      BY <3>2 DEF Wakeable
  <2> QED
    BY <1>1, <1>2, <1>3, <1>4, <1>9, <2>0, <2>1, <2>3, <2>4, <2>6, <2>7, OneRowWritten DEF ToolPCs
<1>10. CASE AfterTool(w, "fail") /\ UNCHANGED <<exec, approval>>
  <2>1. /\ worker'[w].pc = "fail"
        /\ worker'[w].mode = "first" <=> worker[w].mode = "first"
    BY <1>2, <1>10, AfterToolRecord
  <2> QED
    BY <1>2, <1>3, <1>10, <2>1, LeavesTool, NoRowWritten DEF ToolPCs, toolVars, Quiet, Moves
<1> QED
  BY <1>7, <1>8, <1>9, <1>10 DEF run_policy_gate

\* Finalizing an execution leaves its approval and its policy alone.
LEMMA FinalizeTool ==
    ASSUME IInv, ToolInv, RunStep, NEW w \in Workers, worker[w].pc \in ToolPCs,
           Quiet(w), UNCHANGED <<approval, users, invoked>>, NEW k \in Keys, k = key(w),
           worker[w].pc \notin {"tool_request", "claim"},
           NEW status \in {"SUCCEEDED", "FAILED", "TIMED_OUT"}, NEW code,
           exec' = Finalized(k, status, code),
           worker'[w].pc \notin ToolPCs \cup {"pause"},
           worker'[w].pc # "idle" => (worker'[w].mode = "first" <=> worker[w].mode = "first")
    PROVE  ToolInv'
<1>1. /\ TypeInv /\ ExclusiveOwner /\ Working(w)
      /\ exec[k] \in Executions /\ exec \in [Keys -> Executions]
      /\ InHand(worker[w]) /\ Judged(k)
      /\ k \in UnsharedKeys => KeyOK(k)
  BY ToolFacts
<1>2. exec[k].status # "none"
  BY <1>1 DEF InHand, key
<1>3. CASE exec[k].status = "RUNNING"
  <2>1. /\ \A j \in Keys : j # k => exec'[j] = exec[j]
        /\ exec'[k].status = status /\ exec'[k].run = exec[k].run
        /\ exec'[k].policy = exec[k].policy
    BY <1>1, <1>3 DEF Finalized, Executions
  <2>2. k \in UnsharedKeys => KeyOK(k)'
    BY <1>1, <1>3, <2>1 DEF KeyOK, Authorized
  <2>3. Judged(k)'
    BY <1>1, <1>3, <2>1 DEF Judged
  <2> QED
    BY <1>1, <1>2, <2>1, <2>2, <2>3, OneRowWritten
<1>4. CASE exec[k].status # "RUNNING"
  <2>1. UNCHANGED toolVars
    BY <1>4 DEF Finalized, toolVars
  <2> QED
    BY <1>1, <2>1, LeavesTool, NoRowWritten DEF Quiet, Moves
<1> QED
  BY <1>3, <1>4

LEMMA ReserveTool ==
    ASSUME IInv, ToolInv, RunStep, NEW w \in Workers,
           reserve_budget_slot(w) \/ refuse_resume(w),
           NEW k \in Keys, k = key(w)
    PROVE  ToolInv'
<1>1. worker[w].pc = "reserve" /\ worker[w].pc \in ToolPCs
  BY DEF reserve_budget_slot, refuse_resume, ToolPCs
<1>2. /\ TypeInv /\ ExclusiveOwner /\ Working(w) /\ InHand(worker[w])
  BY <1>1, ToolFacts
<1>3. Quiet(w) /\ UNCHANGED <<approval, users, invoked>> /\ UnsharedKeys' = UnsharedKeys
  BY <1>2, ReserveStep DEF reserve_budget_slot, refuse_resume, UnsharedKeys
<1>4. CASE Go(w, "invoke") /\ UNCHANGED exec
  <2>1. /\ worker'[w].pc = "invoke" /\ worker'[w].run = run(w)
        /\ worker'[w].mode = worker[w].mode /\ worker'[w].key = k
    BY <1>2, <1>4, GoRecord
  <2>2. InHand(worker'[w])
    BY <1>1, <1>2, <2>1 DEF InHand, Passed, run, key
  <2>3. HoldOK(worker'[w])
    BY <1>1, <2>1, <2>2 DEF ToolInv, HoldOK, run
  <2> QED
    BY <1>2, <1>3, <1>4, <2>3, NoRowWritten DEF toolVars, Quiet, Moves
<1>5. CASE /\ exec' = Finalized(k, "FAILED", "tool_error")
           /\ \E next \in {"fail", "budget_exceeded"} : AfterTool(w, next)
  <2>1. /\ worker'[w].pc \in {"fail", "budget_exceeded"}
        /\ worker'[w].mode = "first" <=> worker[w].mode = "first"
    BY <1>2, <1>5, AfterToolRecord
  <2> QED
    BY <1>1, <1>3, <1>5, <2>1, FinalizeTool DEF ToolPCs
<1>6. \/ Go(w, "invoke") /\ UNCHANGED exec
      \/ /\ exec' = Finalized(k, "FAILED", "tool_error")
         /\ \E next \in {"fail", "budget_exceeded"} : AfterTool(w, next)
  BY DEF reserve_budget_slot, refuse_resume
<1> QED
  BY <1>4, <1>5, <1>6

LEMMA InvokeTool ==
    ASSUME IInv, ToolInv, RunStep, NEW w \in Workers, run_with_retries(w),
           NEW k \in Keys, k = key(w)
    PROVE  ToolInv'
<1>1. worker[w].pc = "invoke" /\ worker[w].pc \in ToolPCs
  BY DEF run_with_retries, ToolPCs
<1>2. /\ TypeInv /\ ExclusiveOwner /\ Working(w)
      /\ exec[k] \in Executions /\ exec \in [Keys -> Executions]
      /\ invoked \in [Keys -> Nat] /\ InHand(worker[w]) /\ Judged(k)
      /\ k \in UnsharedKeys => KeyOK(k)
  BY <1>1, ToolFacts
<1>3. Quiet(w) /\ UNCHANGED <<approval, users>> /\ UnsharedKeys' = UnsharedKeys
  BY <1>2, InvokeStep DEF run_with_retries, UnsharedKeys
<1>4. worker \in [Workers -> WorkerRecords]
  BY <1>2 DEF TypeInv, WorkersInv
<1>5. exec[k].status # "none" /\ (k \in UnsharedKeys => Authorized(k))
  BY <1>1, <1>2 DEF InHand, Passed, key
<1>6. /\ worker'[w].pc \in {"invoke", "finalize"} /\ worker'[w].run = run(w)
      /\ worker'[w].mode = worker[w].mode /\ worker'[w].key = k
  <2>1. CASE Attempt(w)
    <3>1. CASE \E o \in Outcomes \ {"none"} :
                worker' = [worker EXCEPT ![w].tries = worker[w].tries + 1,
                                         ![w].outcome = o, ![w].pc = "finalize"]
      BY <1>4, <3>1 DEF run, key, WorkerRecords
    <3>2. CASE worker' = [worker EXCEPT ![w].tries = worker[w].tries + 1]
      BY <1>1, <1>4, <3>2 DEF run, key, WorkerRecords
    <3> QED
      BY <2>1, <3>1, <3>2 DEF Attempt
  <2>2. CASE RetriesExhausted(w)
    BY <1>4, <2>2 DEF RetriesExhausted, run, key, WorkerRecords
  <2> QED
    BY <2>1, <2>2 DEF run_with_retries
<1>7. CASE Attempt(w)
  <2>1. /\ \A j \in Keys : j # k => exec'[j] = exec[j]
        /\ exec'[k].status = exec[k].status /\ exec'[k].run = exec[k].run
        /\ exec'[k].policy = exec[k].policy
    BY <1>2, <1>7 DEF Attempt, Executions
  <2>2. \A j \in Keys : j # k => invoked'[j] = invoked[j]
    BY <1>2, <1>7 DEF Attempt
  <2>3. k \in UnsharedKeys => exec[k].status # "CANCELLED"
    BY <1>1, ToolFacts
  <2>4. k \in UnsharedKeys => KeyOK(k)' /\ Authorized(k)'
    BY <1>2, <1>3, <1>5, <2>1, <2>3 DEF KeyOK, Authorized
  <2>0. exec[k].policy \in {"ALLOW", "REQUIRE_APPROVAL"} /\ Judged(k)'
    BY <1>1, <1>2, <1>3, <2>1 DEF InHand, Judged, key
  <2>5. InHand(worker[w])'
    BY <1>1, <1>2, <1>3, <1>5, <1>6, <2>0, <2>1, <2>4 DEF InHand, Passed, Authorized, run, key
  <2> QED
    BY <1>1, <1>2, <1>3, <1>5, <1>6, <2>0, <2>1, <2>2, <2>4, <2>5, OneRowWritten
<1>8. CASE RetriesExhausted(w)
  <2>1. UNCHANGED toolVars
    BY <1>3, <1>8 DEF RetriesExhausted, toolVars
  <2>2. InHand(worker'[w])
    BY <1>1, <1>2, <1>6 DEF InHand, Passed, run, key
  <2>3. HoldOK(worker'[w])
    BY <1>1, <1>6, <2>2 DEF ToolInv, HoldOK, run
  <2> QED
    BY <1>2, <1>3, <2>1, <2>3, NoRowWritten DEF Quiet, Moves
<1> QED
  BY <1>7, <1>8 DEF run_with_retries

LEMMA OutcomeTool ==
    ASSUME IInv, ToolInv, RunStep, NEW w \in Workers, finalize_execution(w),
           NEW k \in Keys, k = key(w)
    PROVE  ToolInv'
<1>1. worker[w].pc = "finalize" /\ worker[w].pc \in ToolPCs
  BY DEF finalize_execution, ToolPCs
<1>2. TypeInv
  BY DEF IInv
<1>3. Quiet(w) /\ UNCHANGED <<approval, users, invoked>> /\ UnsharedKeys' = UnsharedKeys
  BY <1>2, FinalizeStep DEF finalize_execution, UnsharedKeys
<1>4. /\ worker'[w].pc \in {"idle", "fail", "continue", "check_budget"}
      /\ worker'[w].pc # "idle" => (worker'[w].mode = "first" <=> worker[w].mode = "first")
  <2>1. Finish(w) \/ \E next \in {"fail", "continue", "check_budget"} : AfterTool(w, next)
    BY DEF finalize_execution, NextTurn
  <2> QED
    BY <1>1, <1>2, <2>1, AfterToolRecord, FinishMoves, ToolWorker
<1>5. CASE exec' = exec
  <2>1. UNCHANGED toolVars /\ Working(w)
    BY <1>1, <1>2, <1>3, <1>5, ToolWorker DEF toolVars
  <2> QED
    BY <1>2, <1>3, <1>4, <2>1, LeavesTool, NoRowWritten DEF ToolPCs, Quiet, Moves
<1>6. CASE \E status \in {"SUCCEEDED", "FAILED", "TIMED_OUT"}, code \in ErrorCodes :
              exec' = Finalized(k, status, code)
  BY <1>1, <1>3, <1>4, <1>6, FinalizeTool DEF ToolPCs
<1> QED
  BY <1>5, <1>6 DEF finalize_execution, ErrorCodes

LEMMA ResumeTool ==
    ASSUME IInv, ToolInv, RunStep, NEW w \in Workers, claim_resume(w),
           NEW k \in Keys, k = key(w)
    PROVE  ToolInv'
<1>1. worker[w].pc = "resume_claim" /\ worker[w].pc \in ToolPCs
  BY DEF claim_resume, ToolPCs
<1>2. /\ TypeInv /\ ExclusiveOwner /\ Working(w)
      /\ exec[k] \in Executions /\ exec \in [Keys -> Executions]
      /\ InHand(worker[w]) /\ Judged(k)
      /\ k \in UnsharedKeys => KeyOK(k)
  BY <1>1, ToolFacts
<1>3. Quiet(w) /\ UNCHANGED <<approval, users, invoked>> /\ UnsharedKeys' = UnsharedKeys
  BY <1>2, ResumeStep DEF claim_resume, UnsharedKeys
<1>4. exec[k].status # "none" /\ (k \in UnsharedKeys => approval[k] = "APPROVED")
  BY <1>1, <1>2 DEF InHand, Passed, key
<1>5. CASE /\ exec[k].status = "WAITING_FOR_APPROVAL"
           /\ exec' = [exec EXCEPT ![k].status = "RUNNING"]
           /\ worker' = [worker EXCEPT ![w].pc = "reserve", ![w].tries = exec[k].attempts]
  <2>1. /\ worker'[w].pc = "reserve" /\ worker'[w].run = run(w)
        /\ worker'[w].mode = worker[w].mode /\ worker'[w].key = k
    <3>1. worker \in [Workers -> WorkerRecords]
      BY <1>2 DEF TypeInv, WorkersInv
    <3> QED
      BY <1>5, <3>1 DEF run, key, WorkerRecords
  <2>2. /\ \A j \in Keys : j # k => exec'[j] = exec[j]
        /\ exec'[k].status = "RUNNING" /\ exec'[k].run = exec[k].run
        /\ exec'[k].policy = exec[k].policy
    BY <1>2, <1>5 DEF Executions
  <2>3. k \in UnsharedKeys => KeyOK(k)' /\ Authorized(k)'
    BY <1>2, <1>3, <1>4, <2>2 DEF KeyOK, Authorized
  <2>0. exec[k].policy = "REQUIRE_APPROVAL" /\ Judged(k)'
    BY <1>2, <1>3, <1>5, <2>2 DEF Judged
  <2>4. InHand(worker[w])'
    BY <1>1, <1>2, <1>3, <2>0, <2>1, <2>2, <2>3 DEF InHand, Passed, Authorized, run, key
  <2> QED
    BY <1>1, <1>2, <1>3, <1>4, <2>0, <2>1, <2>2, <2>3, <2>4, OneRowWritten
<1>6. CASE /\ UNCHANGED exec
           /\ Finish(w) \/ \E next \in {"fail", "continue", "check_budget"} : AfterTool(w, next)
  <2>1. /\ worker'[w].pc \in {"idle", "fail", "continue", "check_budget"}
        /\ worker'[w].pc # "idle" => (worker'[w].mode = "first" <=> worker[w].mode = "first")
    BY <1>2, <1>6, AfterToolRecord, FinishMoves DEF TypeInv
  <2> QED
    BY <1>2, <1>3, <1>6, <2>1, LeavesTool, NoRowWritten DEF ToolPCs, toolVars, Quiet, Moves
<1>7. \/ /\ exec[k].status = "WAITING_FOR_APPROVAL"
         /\ exec' = [exec EXCEPT ![k].status = "RUNNING"]
         /\ worker' = [worker EXCEPT ![w].pc = "reserve", ![w].tries = exec[k].attempts]
      \/ /\ UNCHANGED exec
         /\ Finish(w) \/ \E next \in {"fail", "continue", "check_budget"} : AfterTool(w, next)
  BY DEF claim_resume, NextTurn
<1> QED
  BY <1>5, <1>6, <1>7

\* The steps that settle or take a run, and those of nobody's, write no row.
LEMMA SettleTool ==
    ASSUME IInv, ToolInv, RunStep, NEW w \in Workers,
           \/ pause_run_for_approval(w)
           \/ complete_run(w)
           \/ complete_run_as_handoff(w)
           \/ fail_run(w)
           \/ budget_exceeded_run(w)
           \/ WorkerCrash(w)
    PROVE  ToolInv'
<1> USE DEF pause_run_for_approval, complete_run, complete_run_as_handoff, fail_run,
            budget_exceeded_run, TerminateRun, WorkerCrash
<1>1. /\ TypeInv /\ WorkersInv /\ Working(w) /\ runStatus \in [Runs -> RunStatuses]
  BY DEF IInv, TypeInv, TypeOK, Working
<1>2. run(w) \in Runs /\ HoldOK(worker[w])
  BY <1>1 DEF WorkersInv, WorkerShape, Working, run, ToolInv
<1>3. UNCHANGED toolVars /\ Finish(w)
  OBVIOUS
<1>4. worker'[w].pc = "idle" /\ \A v \in Workers : v # w => worker'[v] = worker[v]
  BY <1>1, <1>3, FinishMoves DEF Moves
<1>5. HoldOK(worker'[w])
  BY <1>1, <1>4, LeavesTool DEF ToolPCs
<1>6. ASSUME NEW r \in Runs, runStatus'[r] = "WAITING_FOR_APPROVAL",
             runStatus[r] # "WAITING_FOR_APPROVAL"
      PROVE  Wakeable(r)
  <2>1. worker[w].pc = "pause" /\ r = run(w)
    BY <1>1, <1>2, <1>6 DEF rowVars, RunTerminal
  <2> QED
    BY <1>2, <2>1 DEF HoldOK, run
<1> QED
  BY <1>1, <1>3, <1>4, <1>5, <1>6, NoRowWritten

LEMMA ClaimRunTool ==
    ASSUME IInv, ToolInv, RunStep, NEW w \in Workers, NEW r \in Runs, claim_agent_run(w, r)
    PROVE  ToolInv'
<1>1. /\ TypeInv /\ runStatus \in [Runs -> RunStatuses]
      /\ worker \in [Workers -> WorkerRecords]
  BY DEF IInv, TypeInv, TypeOK
<1>2. UNCHANGED toolVars
  BY DEF claim_agent_run
<1>3. CASE UNCHANGED <<runStatus, worker>>
  BY <1>1, <1>2, <1>3, NoRowWritten
<1>4. CASE /\ runStatus' = [runStatus EXCEPT ![r] = "RUNNING"]
           /\ worker' = [worker EXCEPT ![w] = [IdleWorker EXCEPT !.pc = "begin", !.run = r]]
  <2>1. /\ worker'[w].pc = "begin" /\ worker'[w].mode = "first"
        /\ \A v \in Workers : v # w => worker'[v] = worker[v]
    BY <1>1, <1>4 DEF IdleWorker
  <2>2. HoldOK(worker'[w])
    BY <2>1 DEF HoldOK, ToolPCs
  <2>3. \A q \in Runs : runStatus'[q] = "WAITING_FOR_APPROVAL" =>
                            runStatus[q] = "WAITING_FOR_APPROVAL"
    BY <1>1, <1>4
  <2> QED
    BY <1>1, <1>2, <2>1, <2>2, <2>3, NoRowWritten
<1> QED
  BY <1>3, <1>4 DEF claim_agent_run

LEMMA ResumeRunTool ==
    ASSUME IInv, ToolInv, RunStep, NEW w \in Workers, NEW k \in Keys,
           claim_run_for_resume(w, k)
    PROVE  ToolInv'
<1> DEFINE r == exec[k].run
           approved == approval[k] = "APPROVED"
<1>1. /\ TypeInv /\ runStatus \in [Runs -> RunStatuses]
      /\ worker \in [Workers -> WorkerRecords] /\ RowOK(k)
  BY DEF IInv, TypeInv, TypeOK, ToolInv
<1>2. UNCHANGED toolVars
  BY DEF claim_run_for_resume
<1>3. CASE UNCHANGED <<runStatus, worker>>
  BY <1>1, <1>2, <1>3, NoRowWritten
<1>4. CASE /\ approval[k] \in Decided
           /\ runStatus' = [runStatus EXCEPT ![r] = "RUNNING"]
           /\ worker' = [worker EXCEPT ![w] =
                 [IdleWorker EXCEPT !.run = r, !.turn = modelCalls[r],
                    !.pc = IF approved THEN "resume_claim" ELSE "continue",
                    !.mode = IF approved THEN "resume" ELSE "continuation",
                    !.key = IF approved THEN k ELSE NoKey]]
  <2>1. /\ worker'[w].pc = IF approved THEN "resume_claim" ELSE "continue"
        /\ worker'[w].mode # "first" /\ worker'[w].run = r
        /\ approved => worker'[w].key = k
        /\ \A v \in Workers : v # w => worker'[v] = worker[v]
    BY <1>1, <1>4 DEF IdleWorker
  <2>2. exec[k].status # "none" /\ k[1] \in {r, Unknown} /\ r \in users[k]
    BY <1>1, <1>4 DEF RowOK, Decided
  <2>3. Woken(r)
    BY <1>4 DEF Woken
  <2>4. HoldOK(worker'[w])
    BY <2>1, <2>2, <2>3 DEF HoldOK, InHand, Passed, ToolPCs
  <2>5. \A q \in Runs : runStatus'[q] = "WAITING_FOR_APPROVAL" =>
                            runStatus[q] = "WAITING_FOR_APPROVAL"
    BY <1>1, <1>4
  <2> QED
    BY <1>1, <1>2, <2>1, <2>4, <2>5, NoRowWritten
<1> QED
  BY <1>3, <1>4 DEF claim_run_for_resume

\* The steps that write rows under the workers' hands: deciding, expiring,
\* cancelling, recovering.
LEMMA RowsWritten ==
    ASSUME TypeInv, ToolInv, UNCHANGED <<worker, users, invoked>>,
           \A j \in Keys : exec[j].status = "none" =>
              exec'[j] = exec[j] /\ approval'[j] = approval[j],
           \A j \in Keys : exec[j].status # "none" =>
              exec'[j].status # "none" /\ exec'[j].run = exec[j].run,
           \A j \in Keys : exec'[j].policy = exec[j].policy /\ Judged(j)',
           \A j \in Keys : approval[j] \in Decided => approval'[j] = approval[j],
           \A j \in UnsharedKeys : KeyOK(j)',
           \A w \in Workers : worker[w].pc \in ToolPCs /\ key(w) \in UnsharedKeys =>
              Passed(worker[w].pc, worker[w].key)',
           \A r \in Runs : runStatus'[r] = "WAITING_FOR_APPROVAL" =>
              runStatus[r] = "WAITING_FOR_APPROVAL",
           \A j \in Keys : approval[j] = "PENDING" =>
              \/ approval'[j] \in Decided \cup {"PENDING"}
              \/ Orphaned(exec[j].run) /\ runStatus'[exec[j].run] # "WAITING_FOR_APPROVAL"
    PROVE  ToolInv'
<1>0. UnsharedKeys' = UnsharedKeys
  BY DEF UnsharedKeys
<1>1. \A j \in Keys : RowOK(j)' /\ Judged(j)'
  BY DEF ToolInv, RowOK
<1>2. \A j \in Keys : approval[j] # "none" => exec'[j].run = exec[j].run
  BY DEF ToolInv, RowOK
<1>3. ASSUME NEW r PROVE Woken(r) => Woken(r)'
  BY <1>2 DEF Woken, Decided
<1>4. ASSUME NEW r, ~Orphaned(r) \/ runStatus'[r] = "WAITING_FOR_APPROVAL"
      PROVE  Wakeable(r) => Wakeable(r)'
  BY <1>2, <1>4 DEF Wakeable, Decided
<1>5. \A w \in Workers : HoldOK(worker[w])'
  <2> SUFFICES ASSUME NEW w \in Workers PROVE HoldOK(worker[w])'
    OBVIOUS
  <2>1. HoldOK(worker[w]) /\ worker'[w] = worker[w]
    BY DEF ToolInv
  <2>2. ASSUME worker[w].pc \in ToolPCs PROVE InHand(worker[w])'
    <3>1. InHand(worker[w]) /\ key(w) \in Keys
      BY <2>1, <2>2, ToolWorker DEF HoldOK
    <3> QED
      BY <1>0, <2>1, <2>2, <3>1 DEF InHand, key
  <2>3. worker[w].pc # "idle" => ~Orphaned(worker[w].run)
    BY DEF Orphaned, Owns, Working
  <2> QED
    BY <1>3, <1>4, <2>1, <2>2, <2>3 DEF HoldOK
<1>6. WaitingRunWakeable'
  <2> SUFFICES ASSUME NEW r \in Runs, runStatus'[r] = "WAITING_FOR_APPROVAL"
               PROVE  Wakeable(r)'
    BY DEF WaitingRunWakeable, Wakeable
  <2> QED
    BY <1>4 DEF ToolInv, WaitingRunWakeable, Wakeable
<1> QED
  BY <1>0, <1>1, <1>5, <1>6 DEF ToolInv

\* A key one run owns whose row is not cancelled needs nothing of the run.
LEMMA KeyKept ==
    ASSUME TypeInv, ToolInv, RunStep, NEW j \in UnsharedKeys,
           exec'[j] = exec[j], approval'[j] = approval[j], invoked'[j] = invoked[j]
    PROVE  KeyOK(j)'
<1>1. KeyOK(j) /\ j \in Keys
  BY DEF ToolInv, UnsharedKeys
<1>2. exec[j].status = "CANCELLED" =>
         /\ runStatus'[exec[j].run] \in RunTerminal
         /\ \A v \in Workers : ~(worker'[v].pc # "idle" /\ worker'[v].run = exec[j].run)
  BY <1>1, DeadRun DEF KeyOK, TypeInv, RowsInv
<1> QED
  BY <1>1, <1>2 DEF KeyOK, Authorized, Orphaned, Owns, Working

LEMMA DecideTool ==
    ASSUME IInv, ToolInv, RunStep, NEW k \in Keys,
           \/ expire_approval(k)
           \/ \E d \in {"APPROVED", "REJECTED"} : decide_approval(k, d)
    PROVE  ToolInv'
<1>1. /\ TypeInv /\ exec \in [Keys -> Executions] /\ exec[k] \in Executions
      /\ approval \in [Keys -> ApprovalStatuses] /\ RowOK(k)
  BY DEF IInv, TypeInv, TypeOK, ToolInv
<1>2. UNCHANGED <<worker, users, invoked, runStatus>> /\ approval[k] = "PENDING"
  BY DEF expire_approval, decide_approval, rowVars
<1>3. PICK d \in Decided :
         /\ approval' = [approval EXCEPT ![k] = d]
         /\ exec' = IF d = "APPROVED" THEN exec ELSE Terminated(k)
  BY DEF expire_approval, decide_approval, Decided
<1>4. /\ approval'[k] = d /\ exec'[k].run = exec[k].run /\ exec'[k].policy = exec[k].policy
      /\ exec'[k].status = IF d # "APPROVED" /\ exec[k].status = "WAITING_FOR_APPROVAL"
                           THEN "APPROVAL_TERMINATED" ELSE exec[k].status
      /\ \A j \in Keys : j # k => exec'[j] = exec[j] /\ approval'[j] = approval[j]
  BY <1>1, <1>3 DEF Terminated, Executions
<1>5. exec[k].status # "none" /\ "none" \notin Decided /\ "PENDING" \notin Decided
  BY <1>1, <1>2 DEF RowOK, Decided
<1>6. k \in UnsharedKeys => KeyOK(k)
  BY DEF ToolInv
<1>12. Judged(k)
  BY DEF ToolInv
<1>7. \A j \in UnsharedKeys : KeyOK(j)'
  <2> SUFFICES ASSUME NEW j \in UnsharedKeys PROVE KeyOK(j)'
    OBVIOUS
  <2>1. CASE j # k
    BY <1>1, <1>2, <1>4, <2>1, KeyKept DEF UnsharedKeys
  <2>2. CASE j = k
    BY <1>2, <1>4, <1>6, <2>2 DEF KeyOK, Authorized, Decided
  <2> QED
    BY <2>1, <2>2
<1>8. \A w \in Workers : worker[w].pc \in ToolPCs /\ key(w) \in UnsharedKeys =>
         Passed(worker[w].pc, worker[w].key)'
  <2> SUFFICES ASSUME NEW w \in Workers, worker[w].pc \in ToolPCs, key(w) \in UnsharedKeys
               PROVE  Passed(worker[w].pc, worker[w].key)'
    OBVIOUS
  <2>1. Passed(worker[w].pc, key(w)) /\ worker'[w] = worker[w] /\ key(w) \in Keys
    BY <1>2 DEF ToolInv, HoldOK, InHand, key, UnsharedKeys
  <2>2. CASE key(w) # k
    BY <1>4, <2>1, <2>2 DEF Passed, Authorized, key
  <2>3. CASE key(w) = k
    BY <1>2, <1>6, <1>12, <2>1, <2>3 DEF Passed, Authorized, KeyOK, Judged, key
  <2> QED
    BY <2>2, <2>3
<1>9. /\ \A j \in Keys : exec[j].status = "none" =>
            exec'[j] = exec[j] /\ approval'[j] = approval[j]
      /\ \A j \in Keys : exec[j].status # "none" =>
            exec'[j].status # "none" /\ exec'[j].run = exec[j].run
  BY <1>4, <1>5
<1>11. \A j \in Keys : exec'[j].policy = exec[j].policy /\ Judged(j)'
  <2> SUFFICES ASSUME NEW j \in Keys PROVE exec'[j].policy = exec[j].policy /\ Judged(j)'
    OBVIOUS
  <2>1. Judged(j)
    BY DEF ToolInv
  <2>2. CASE j # k
    BY <1>2, <1>4, <2>1, <2>2 DEF Judged
  <2>3. CASE j = k
    BY <1>2, <1>4, <1>5, <1>12, <2>3 DEF Judged, Decided
  <2> QED
    BY <2>2, <2>3
<1>10. /\ \A j \in Keys : approval[j] \in Decided => approval'[j] = approval[j]
       /\ \A j \in Keys : approval[j] = "PENDING" => approval'[j] \in Decided \cup {"PENDING"}
  BY <1>2, <1>4, <1>5
<1> QED
  BY <1>1, <1>2, <1>7, <1>8, <1>9, <1>10, <1>11, RowsWritten

LEMMA RecoverTool ==
    ASSUME IInv, ToolInv, RunStep, NEW r \in Runs, recover_stuck_run(r)
    PROVE  ToolInv'
<1>1. /\ TypeInv /\ exec \in [Keys -> Executions] /\ runStatus \in [Runs -> RunStatuses]
  BY DEF IInv, TypeInv, TypeOK
<1>2. /\ UNCHANGED <<worker, users, invoked, approval>>
      /\ runStatus' = [runStatus EXCEPT ![r] = "FAILED"]
  BY DEF recover_stuck_run
<1>3. ASSUME NEW j \in Keys
      PROVE  /\ exec'[j].run = exec[j].run /\ exec'[j].policy = exec[j].policy
             /\ \/ exec'[j] = exec[j]
                \/ exec[j].status \in {"PENDING", "RUNNING"} /\ exec'[j].status = "FAILED"
  <2>1. exec[j] \in Executions
    BY <1>1
  <2>2. \/ exec'[j] = exec[j]
        \/ /\ exec[j].status \in {"PENDING", "RUNNING"}
           /\ exec'[j] = [exec[j] EXCEPT !.status = "FAILED", !.error = "stuck_worker_recovered"]
    BY DEF recover_stuck_run
  <2> QED
    BY <2>1, <2>2 DEF Executions
<1>4. \A j \in UnsharedKeys : KeyOK(j)'
  <2> SUFFICES ASSUME NEW j \in UnsharedKeys PROVE KeyOK(j)'
    OBVIOUS
  <2>1. j \in Keys /\ KeyOK(j)
    BY DEF UnsharedKeys, ToolInv
  <2>2. CASE exec'[j] = exec[j]
    BY <1>1, <1>2, <2>2, KeyKept
  <2>3. CASE exec[j].status \in {"PENDING", "RUNNING"} /\ exec'[j].status = "FAILED"
    BY <1>2, <1>3, <2>1, <2>3 DEF KeyOK, Authorized
  <2> QED
    BY <1>3, <2>1, <2>2, <2>3
<1>5. \A w \in Workers : worker[w].pc \in ToolPCs /\ key(w) \in UnsharedKeys =>
         Passed(worker[w].pc, worker[w].key)'
  <2> SUFFICES ASSUME NEW w \in Workers, worker[w].pc \in ToolPCs, key(w) \in UnsharedKeys
               PROVE  Passed(worker[w].pc, worker[w].key)'
    OBVIOUS
  <2>1. Passed(worker[w].pc, key(w)) /\ worker'[w] = worker[w] /\ key(w) \in Keys
    BY <1>2 DEF ToolInv, HoldOK, InHand, key, UnsharedKeys
  <2> QED
    BY <1>2, <1>3, <2>1 DEF Passed, Authorized, key
<1>6. /\ \A j \in Keys : exec[j].status = "none" =>
            exec'[j] = exec[j] /\ approval'[j] = approval[j]
      /\ \A j \in Keys : exec[j].status # "none" =>
            exec'[j].status # "none" /\ exec'[j].run = exec[j].run
  BY <1>2, <1>3
<1>8. \A j \in Keys : exec'[j].policy = exec[j].policy /\ Judged(j)'
  BY <1>2, <1>3 DEF ToolInv, Judged
<1>7. \A q \in Runs : runStatus'[q] = "WAITING_FOR_APPROVAL" =>
                        runStatus[q] = "WAITING_FOR_APPROVAL"
  BY <1>1, <1>2
<1> QED
  BY <1>1, <1>2, <1>4, <1>5, <1>6, <1>7, <1>8, RowsWritten

LEMMA CancelTool ==
    ASSUME IInv, ToolInv, RunStep, NEW r \in Runs, cancel_agent_run(r)
    PROVE  ToolInv'
<1> DEFINE withdrawn == {k \in Keys : /\ runStatus[r] = "WAITING_FOR_APPROVAL"
                                      /\ exec[k].run = r
                                      /\ exec[k].status = "WAITING_FOR_APPROVAL"}
<1>1. /\ TypeInv /\ ExclusiveOwner /\ exec \in [Keys -> Executions]
      /\ runStatus \in [Runs -> RunStatuses]
  BY DEF IInv, TypeInv, TypeOK
<1>2. /\ UNCHANGED <<worker, users, invoked>>
      /\ runStatus' = [runStatus EXCEPT ![r] = "CANCELLED"]
  BY DEF cancel_agent_run
<1>3. ASSUME NEW j \in Keys
      PROVE  /\ j \notin withdrawn => exec'[j] = exec[j] /\ approval'[j] = approval[j]
             /\ j \in withdrawn =>
                  /\ exec'[j].run = exec[j].run /\ exec'[j].policy = exec[j].policy
                  /\ exec'[j].status = "CANCELLED"
                  /\ approval'[j] = IF approval[j] = "PENDING" THEN "CANCELLED" ELSE approval[j]
  <2>1. exec[j] \in Executions
    BY <1>1
  <2>2. /\ j \notin withdrawn => exec'[j] = exec[j] /\ approval'[j] = approval[j]
        /\ j \in withdrawn =>
             /\ exec'[j] = [exec[j] EXCEPT !.status = "CANCELLED"]
             /\ approval'[j] = IF approval[j] = "PENDING" THEN "CANCELLED" ELSE approval[j]
    BY DEF cancel_agent_run, cancel_approval_for_execution
  <2> QED
    BY <2>1, <2>2 DEF Executions
<1>4. \A j \in withdrawn : /\ exec[j].run = r /\ exec[j].status = "WAITING_FOR_APPROVAL"
                           /\ runStatus[r] = "WAITING_FOR_APPROVAL" /\ j \in Keys
  OBVIOUS
<1>5. (\E j \in withdrawn : TRUE) => \A v \in Workers : ~(worker[v].pc # "idle" /\ worker[v].run = r)
  BY <1>1, <1>4 DEF ExclusiveOwner, Orphaned, Owns, Working
<1> HIDE DEF withdrawn
<1>6. \A j \in UnsharedKeys : KeyOK(j)'
  <2> SUFFICES ASSUME NEW j \in UnsharedKeys PROVE KeyOK(j)'
    OBVIOUS
  <2>1. j \in Keys /\ KeyOK(j)
    BY DEF UnsharedKeys, ToolInv
  <2>2. CASE j \notin withdrawn
    BY <1>1, <1>2, <1>3, <2>1, <2>2, KeyKept
  <2>3. CASE j \in withdrawn
    <3>1. runStatus'[r] \in RunTerminal
      BY <1>1, <1>2 DEF RunTerminal
    <3>2. \A v \in Workers : ~(worker'[v].pc # "idle" /\ worker'[v].run = r)
      BY <1>2, <1>5, <2>3
    <3> QED
      BY <1>2, <1>3, <1>4, <2>1, <2>3, <3>1, <3>2
         DEF KeyOK, Authorized, Orphaned, Owns, Working
  <2> QED
    BY <2>2, <2>3
<1>7. \A w \in Workers : worker[w].pc \in ToolPCs /\ key(w) \in UnsharedKeys =>
         Passed(worker[w].pc, worker[w].key)'
  <2> SUFFICES ASSUME NEW w \in Workers, worker[w].pc \in ToolPCs, key(w) \in UnsharedKeys
               PROVE  Passed(worker[w].pc, worker[w].key)'
    OBVIOUS
  <2>1. Passed(worker[w].pc, key(w)) /\ worker'[w] = worker[w] /\ key(w) \in Keys
    BY <1>2 DEF ToolInv, HoldOK, InHand, key, UnsharedKeys
  <2>2. CASE worker[w].pc \in {"tool_request", "claim"}
    BY <2>1, <2>2 DEF Passed
  <2>3. ASSUME worker[w].pc \notin {"tool_request", "claim"} PROVE key(w) \notin withdrawn
    <3>1. SUFFICES ASSUME key(w) \in withdrawn PROVE FALSE
      OBVIOUS
    <3>2. exec[key(w)].run = run(w)
      BY <1>1, <2>3, OwnRow
    <3> QED
      BY <1>4, <1>5, <3>1, <3>2 DEF ToolPCs, run
  <2> QED
    BY <1>3, <2>1, <2>2, <2>3 DEF Passed, Authorized, key
<1>8. /\ \A j \in Keys : exec[j].status = "none" =>
            exec'[j] = exec[j] /\ approval'[j] = approval[j]
      /\ \A j \in Keys : exec[j].status # "none" =>
            exec'[j].status # "none" /\ exec'[j].run = exec[j].run
      /\ \A j \in Keys : approval[j] \in Decided => approval'[j] = approval[j]
  BY <1>3, <1>4 DEF Decided
<1>11. \A j \in Keys : exec'[j].policy = exec[j].policy /\ Judged(j)'
  BY <1>2, <1>3, <1>4 DEF ToolInv, Judged
<1>9. \A q \in Runs : runStatus'[q] = "WAITING_FOR_APPROVAL" =>
                        runStatus[q] = "WAITING_FOR_APPROVAL"
  BY <1>1, <1>2
<1>10. \A j \in Keys : approval[j] = "PENDING" =>
          \/ approval'[j] \in Decided \cup {"PENDING"}
          \/ Orphaned(exec[j].run) /\ runStatus'[exec[j].run] # "WAITING_FOR_APPROVAL"
  BY <1>1, <1>2, <1>3, <1>4, <1>5 DEF Orphaned, Owns, Working
<1> QED
  BY <1>1, <1>2, <1>6, <1>7, <1>8, <1>9, <1>10, <1>11, RowsWritten

\* Creating a run, the sweeps and resolving a handoff touch neither row nor worker.
LEMMA OtherTool ==
    ASSUME IInv, ToolInv, RunStep,
           Sweep \/ resolve_handoff \/ (\E r \in Runs : create_agent_run(r)) \/ UNCHANGED vars
    PROVE  ToolInv'
<1>1. TypeInv /\ runStatus \in [Runs -> RunStatuses]
  BY DEF IInv, TypeInv, TypeOK
<1>2. UNCHANGED <<exec, approval, users, invoked, worker>>
  BY DEF Sweep, redispatch_pending_run, redispatch_waiting_run, resolve_handoff,
         create_agent_run, toolVars, vars
<1>3. \A q \in Runs : runStatus'[q] = "WAITING_FOR_APPROVAL" =>
                        runStatus[q] = "WAITING_FOR_APPROVAL"
  BY <1>1 DEF Sweep, redispatch_pending_run, redispatch_waiting_run, resolve_handoff,
         create_agent_run, rowVars, vars
<1> QED
  BY <1>1, <1>2, <1>3, NoRowWritten DEF toolVars

LEMMA WorkerTool ==
    ASSUME IInv, ToolInv, RunStep, NEW w \in Workers, WorkerStep(w)
    PROVE  ToolInv'
<1>0. TypeInv
  BY DEF IInv
<1>1. CASE \/ execute_support_agent_run(w) \/ check_budget(w) \/ generate_response(w)
           \/ execute_handoff_request(w) \/ execute_tool_call(w)
           \/ already_policy_evaluated(w) \/ continue_run_after_resumed_tool(w)
  <2>1. Quiet(w) /\ HoldOK(worker'[w])
    BY <1>0, <1>1, GraphSteps, GraphHold
  <2>2. UNCHANGED toolVars
    BY <1>1 DEF execute_support_agent_run, check_budget, generate_response,
                execute_handoff_request, execute_tool_call, already_policy_evaluated,
                continue_run_after_resumed_tool
  <2> QED
    BY <1>0, <2>1, <2>2, NoRowWritten DEF Quiet, Moves
<1>2. CASE \/ claim_execution(w) \/ run_policy_gate(w) \/ transition_running(w)
           \/ reserve_budget_slot(w) \/ refuse_resume(w) \/ run_with_retries(w)
           \/ finalize_execution(w) \/ claim_resume(w)
  <2>1. worker[w].pc \in ToolPCs
    BY <1>2 DEF claim_execution, run_policy_gate, transition_running, reserve_budget_slot,
                refuse_resume, run_with_retries, finalize_execution, claim_resume, ToolPCs
  <2>2. key(w) \in Keys
    BY <1>0, <2>1, ToolWorker
  <2> QED
    BY <1>2, <2>2, ClaimTool, GateTool, StartTool, ReserveTool, InvokeTool, OutcomeTool,
       ResumeTool
<1>3. CASE \/ pause_run_for_approval(w) \/ complete_run(w)
           \/ complete_run_as_handoff(w) \/ fail_run(w) \/ budget_exceeded_run(w)
  BY <1>3, SettleTool
<1> QED
  BY <1>1, <1>2, <1>3 DEF WorkerStep

LEMMA NextTool == IInv /\ ToolInv /\ [Next]_vars => ToolInv'
<1> SUFFICES ASSUME IInv, ToolInv, [Next]_vars PROVE ToolInv'
  OBVIOUS
<1>0. RunStep
  BY NextSteps DEF IInv
<1>1. ASSUME NEW w \in Workers, WorkerStep(w) \/ Deliver(w) \/ WorkerCrash(w)
      PROVE  ToolInv'
  BY <1>0, <1>1, WorkerTool, ClaimRunTool, ResumeRunTool, SettleTool DEF Deliver
<1>2. ASSUME NEW r \in Runs, cancel_agent_run(r) \/ recover_stuck_run(r) PROVE ToolInv'
  BY <1>0, <1>2, CancelTool, RecoverTool
<1>3. ASSUME NEW k \in Keys,
             \/ expire_approval(k)
             \/ \E d \in {"APPROVED", "REJECTED"} : decide_approval(k, d)
      PROVE  ToolInv'
  BY <1>0, <1>3, DecideTool
<1>4. CASE Sweep \/ resolve_handoff \/ (\E r \in Runs : create_agent_run(r)) \/ UNCHANGED vars
  BY <1>0, <1>4, OtherTool
<1> QED
  BY <1>1, <1>2, <1>3, <1>4 DEF Next

LEMMA InitTool == Init => ToolInv
<1> SUFFICES ASSUME Init PROVE ToolInv
  OBVIOUS
<1>1. /\ \A k \in Keys : exec[k].status = "none" /\ exec[k].policy = "none"
      /\ \A k \in Keys : approval[k] = "none" /\ invoked[k] = 0 /\ users[k] = {}
      /\ \A w \in Workers : worker[w].pc = "idle"
      /\ \A r \in Runs : runStatus[r] = "none"
  BY DEF Init, NoExecution, IdleWorker
<1>2. \A k \in Keys : RowOK(k) /\ Judged(k)
  BY <1>1 DEF RowOK, Judged
<1>3. \A k \in UnsharedKeys : KeyOK(k)
  BY <1>1 DEF KeyOK, UnsharedKeys
<1>4. \A w \in Workers : HoldOK(worker[w])
  BY <1>1 DEF HoldOK, ToolPCs
<1> QED
  BY <1>1, <1>2, <1>3, <1>4 DEF ToolInv, WaitingRunWakeable

LEMMA ToolInvariant == Spec => [](IInv /\ ToolInv)
<1>1. Init => IInv /\ ToolInv
  BY InitInv, InitTool
<1>2. IInv /\ ToolInv /\ [Next]_vars => (IInv /\ ToolInv)'
  BY NextInv, NextTool
<1> QED
  BY <1>1, <1>2, PTL DEF Spec

\* DecisionMatchesExecution: the approval and the execution it gates tell the same
\* story after every interleaving of the gate, decide_approval, the expiry sweep,
\* cancel_agent_run, recovery and resume.  That an undecided or refused request has its
\* execution waiting or closed is proved of a row until a second run claims it, which
\* only a continuation's key (agent:unknown) allows; the rest of every row.
THEOREM DecisionMatches == Spec => []DecisionMatchesExecution
<1>1. ToolInv => DecisionMatchesExecution
  BY DEF ToolInv, DecisionMatchesExecution, KeyOK, Judged
<1> QED
  BY <1>1, ToolInvariant, PTL

\* HandlerAuthorized: execute_tool calls a handler only after the policy allowed the
\* action or a person approved it, for every row until a second run claims it.  Of a row
\* that runs share, what is proved is that a judged and never a denied action is called:
\* that the approval was given is not true there.
THEOREM OnlyAuthorized == Spec => []HandlerAuthorized
<1>1. ToolInv => HandlerAuthorized
  BY DEF ToolInv, HandlerAuthorized, KeyOK, Judged
<1> QED
  BY <1>1, ToolInvariant, PTL

\* WaitingRunWakeable: a run that waits for approval has an approval of its own that
\* will wake it, also when its continuation met a row of another run.
THEOREM WaitingWakeable == Spec => []WaitingRunWakeable
<1>1. ToolInv => WaitingRunWakeable
  BY DEF ToolInv
<1> QED
  BY <1>1, ToolInvariant, PTL

-------------------------------------------------------------------------------
(***************************************************************************)
(* The budget of tool calls.                                               *)
(***************************************************************************)

Called(r) == {k \in UnsharedKeys : exec[k].run = r /\ invoked[k] > 0}

\* Beside the bound itself: a worker about to call a handler for the first time
\* holds a slot that no earlier call has used.
SlotInv ==
    \A r \in Runs :
        /\ IsFiniteSet(Called(r))
        /\ Cardinality(Called(r)) <= toolCalls[r]
        /\ \A w \in Workers :
              /\ Owns(w, r) /\ worker[w].pc = "invoke"
              /\ worker[w].key \in UnsharedKeys \ Called(r)
              => Cardinality(Called(r)) < toolCalls[r]

\* A step that neither reserves a slot nor calls a handler.
NoSlotUsed ==
    /\ UNCHANGED <<toolCalls, invoked>>
    /\ \A k \in Keys : users[k] \subseteq users'[k]
    /\ \A k \in Keys : invoked[k] > 0 => exec'[k].run = exec[k].run
    /\ \A v \in Workers : worker'[v] = worker[v] \/ worker'[v].pc # "invoke"

LEMMA SlotKept ==
    ASSUME IInv, SlotInv, NoSlotUsed
    PROVE  SlotInv'
<1> SUFFICES ASSUME NEW r \in Runs
             PROVE  /\ IsFiniteSet(Called(r)')
                    /\ Cardinality(Called(r)') <= toolCalls'[r]
                    /\ \A w \in Workers :
                          /\ Owns(w, r)' /\ worker'[w].pc = "invoke"
                          /\ worker'[w].key \in UnsharedKeys' \ Called(r)'
                          => Cardinality(Called(r)') < toolCalls'[r]
  BY DEF SlotInv
<1>1. \A k \in UnsharedKeys' : k \in UnsharedKeys /\ (k \in Called(r)' <=> k \in Called(r))
  BY DEF Called, NoSlotUsed, UnsharedKeys
<1>2. Called(r)' \subseteq UnsharedKeys' /\ Called(r)' \subseteq Called(r)
  BY <1>1 DEF Called
<1>3. IsFiniteSet(Called(r)) /\ Cardinality(Called(r)) <= toolCalls[r] /\ toolCalls[r] \in Nat
  BY BoundsAssumption DEF SlotInv, IInv, TypeInv, TypeOK
<1>4. /\ IsFiniteSet(Called(r)') /\ Cardinality(Called(r)') <= Cardinality(Called(r))
      /\ Cardinality(Called(r)') \in Nat /\ Cardinality(Called(r)) \in Nat
  BY <1>2, <1>3, FS_Subset, FS_CardinalityType
<1>5. ASSUME NEW w \in Workers, Owns(w, r)', worker'[w].pc = "invoke",
             worker'[w].key \in UnsharedKeys' \ Called(r)'
      PROVE  Cardinality(Called(r)) < toolCalls[r]
  BY <1>1, <1>5 DEF SlotInv, NoSlotUsed, Owns, Working
<1> QED
  BY <1>3, <1>4, <1>5 DEF NoSlotUsed

\* The workers' records and the rows, for the steps of the tool boundary.
LEMMA CallNotMade ==
    ASSUME IInv, ToolInv, NEW w \in Workers,
           UNCHANGED <<toolCalls, invoked>>,
           \A k \in Keys : users[k] \subseteq users'[k],
           worker'[w].pc # "invoke",
           \A v \in Workers : v # w => worker'[v] = worker[v],
           \A k \in Keys : exec[k].status # "none" => exec'[k].run = exec[k].run
    PROVE  NoSlotUsed
<1>1. \A k \in Keys : invoked[k] > 0 => exec[k].status # "none"
  BY DEF ToolInv, RowOK
<1> QED
  BY <1>1 DEF NoSlotUsed

LEMMA FinalizedRun ==
    ASSUME TypeInv, NEW k \in Keys, NEW status, NEW code, exec' = Finalized(k, status, code)
    PROVE  \A j \in Keys : exec'[j].run = exec[j].run
BY DEF Finalized, TypeInv, TypeOK, Executions

\* The steps in the graph.
LEMMA GraphSlot ==
    ASSUME IInv, ToolInv, NEW w \in Workers,
           \/ execute_support_agent_run(w) \/ check_budget(w) \/ generate_response(w)
           \/ execute_handoff_request(w) \/ execute_tool_call(w)
           \/ already_policy_evaluated(w) \/ continue_run_after_resumed_tool(w)
    PROVE  NoSlotUsed
<1>1. TypeInv /\ Quiet(w)
  BY GraphSteps DEF IInv
<1>2. worker \in [Workers -> WorkerRecords] /\ worker[w] \in WorkerRecords
  BY <1>1 DEF TypeInv, WorkersInv
<1>3. UNCHANGED <<rowVars, toolVars>>
  BY DEF execute_support_agent_run, check_budget, generate_response,
         execute_handoff_request, execute_tool_call, already_policy_evaluated,
         continue_run_after_resumed_tool
<1>4. worker'[w].pc # "invoke"
  <2>1. ASSUME NEW next, next # "invoke", Go(w, next) PROVE worker'[w].pc # "invoke"
    BY <1>1, <2>1, GoRecord
  <2>2. ASSUME NEW next, next # "invoke", AfterTool(w, next) PROVE worker'[w].pc # "invoke"
    BY <1>1, <2>2, AfterToolRecord
  <2>3. ASSUME Finish(w) PROVE worker'[w].pc # "invoke"
    BY <1>2, <2>3 DEF Finish, IdleWorker
  <2>4. CASE generate_response(w)
    <3>1. ASSUME NEW retryable \in BOOLEAN, ProviderError(w, retryable)
          PROVE  worker'[w].pc # "invoke"
      <4>1. \E pc \in {"check_budget", "hand_over", "fail"} :
               worker' = [worker EXCEPT ![w] =
                  [[worker[w] EXCEPT !.turn = @ + 1, !.attempt = @ + 1] EXCEPT !.pc = pc]]
        BY <3>1, Zenon DEF ProviderError, fail_or_handoff
      <4> QED
        BY <1>2, <4>1 DEF WorkerRecords
    <3>2. ASSUME NEW next \in {"handoff_request", "complete", "fail"}, ProviderAnswer(w, next)
          PROVE  worker'[w].pc # "invoke"
      BY <1>2, <3>2 DEF ProviderAnswer, WorkerRecords
    <3>3. ASSUME NEW call \in Calls, ProviderToolCall(w, call)
          PROVE  worker'[w].pc # "invoke"
      <4> DEFINE k == IdempotencyKey(w, worker[w].turn + 1, call)
      <4>1. worker' = [worker EXCEPT ![w].turn = @ + 1, ![w].attempt = @ + 1,
                             ![w].pc = "tool_request", ![w].key = k]
        BY <3>3 DEF ProviderToolCall
      <4> HIDE DEF k
      <4> QED
        BY <1>2, <4>1 DEF WorkerRecords
    <3> QED
      BY <2>4, <3>1, <3>2, <3>3 DEF generate_response
  <2>5. CASE ~generate_response(w)
    BY <2>1, <2>2, <2>3, <2>5 DEF execute_support_agent_run, check_budget,
       execute_handoff_request, execute_tool_call, already_policy_evaluated,
       continue_run_after_resumed_tool
  <2> QED
    BY <2>4, <2>5
<1>5. /\ UNCHANGED <<toolCalls, users, invoked, exec>>
      /\ \A v \in Workers : v # w => worker'[v] = worker[v]
  BY <1>1, <1>3 DEF rowVars, toolVars, Quiet, Moves
<1> QED
  BY <1>4, <1>5, CallNotMade

\* The steps at the tool boundary that write the row.
LEMMA BoundarySlot ==
    ASSUME IInv, ToolInv, NEW w \in Workers,
           \/ claim_execution(w) \/ run_policy_gate(w) \/ transition_running(w)
           \/ finalize_execution(w) \/ claim_resume(w) \/ refuse_resume(w)
    PROVE  NoSlotUsed
<1>1. worker[w].pc \in ToolPCs
  BY DEF claim_execution, run_policy_gate, transition_running, refuse_resume,
         finalize_execution, claim_resume, ToolPCs
<1>2. /\ TypeInv /\ key(w) \in Keys /\ exec[key(w)] \in Executions
      /\ exec \in [Keys -> Executions]
  BY <1>1, ToolFacts
<1>3. worker \in [Workers -> WorkerRecords] /\ worker[w] \in WorkerRecords
  BY <1>2 DEF TypeInv, WorkersInv
<1>4. ASSUME NEW next, next # "invoke", Go(w, next)
      PROVE  worker'[w].pc # "invoke" /\ \A v \in Workers : v # w => worker'[v] = worker[v]
  BY <1>2, <1>3, <1>4, GoRecord DEF Go
<1>5. ASSUME NEW next, next # "invoke", AfterTool(w, next)
      PROVE  worker'[w].pc # "invoke" /\ \A v \in Workers : v # w => worker'[v] = worker[v]
  BY <1>2, <1>3, <1>5, AfterToolRecord DEF AfterTool
<1>6. ASSUME Finish(w)
      PROVE  worker'[w].pc # "invoke" /\ \A v \in Workers : v # w => worker'[v] = worker[v]
  BY <1>3, <1>6 DEF Finish, IdleWorker
<1>0. \A k \in Keys : users[k] \subseteq users'[k]
  <2>1. users \in [Keys -> SUBSET Runs]
    BY <1>2 DEF TypeInv, TypeOK
  <2> QED
    BY <1>2, <2>1 DEF claim_execution, run_policy_gate, transition_running, refuse_resume,
                      finalize_execution, claim_resume
<1>7. NextTurn(w) # "invoke"
  BY DEF NextTurn
<1>8. CASE claim_execution(w)
  <2>1. CASE ClaimNew(w)
    <3>1. \A k \in Keys : exec[k].status # "none" => exec'[k].run = exec[k].run
      BY <1>2, <2>1 DEF ClaimNew
    <3> QED
      BY <1>0, <1>4, <1>8, <2>1, <3>1, CallNotMade DEF claim_execution, ClaimNew, rowVars
  <2>2. CASE ClaimExisting(w)
    <3>1. \A k \in Keys : exec'[k].run = exec[k].run
      BY <1>2, <2>2 DEF ClaimExisting, Executions
    <3>2. worker'[w].pc # "invoke" /\ \A v \in Workers : v # w => worker'[v] = worker[v]
      <4>1. CASE \E t : worker' = [worker EXCEPT ![w].tries = t, ![w].pc = "check_policy"]
        BY <1>3, <4>1 DEF WorkerRecords
      <4>2. CASE \E next \in {"fail", "pause", "check_budget"} : AfterTool(w, next)
        BY <1>5, <4>2
      <4> QED
        BY <2>2, <4>1, <4>2 DEF ClaimExisting
    <3> QED
      BY <1>0, <1>8, <3>1, <3>2, CallNotMade DEF claim_execution, rowVars
  <2> QED
    BY <1>8, <2>1, <2>2 DEF claim_execution
<1>9. CASE run_policy_gate(w)
  <2>1. \A k \in Keys : exec'[k].run = exec[k].run
    BY <1>2, <1>9 DEF run_policy_gate, Executions
  <2>2. \/ Go(w, "start")
        \/ \E next \in {"check_budget", "fail", "pause"} : AfterTool(w, next)
    BY <1>9 DEF run_policy_gate
  <2> QED
    BY <1>0, <1>4, <1>5, <1>9, <2>1, <2>2, CallNotMade DEF run_policy_gate, rowVars
<1>10. CASE transition_running(w)
  <2>1. \A k \in Keys : exec'[k].run = exec[k].run
    BY <1>2, <1>10 DEF transition_running, Executions
  <2> QED
    BY <1>0, <1>4, <1>5, <1>10, <2>1, CallNotMade DEF transition_running, rowVars
<1>11. CASE finalize_execution(w)
  <2>1. \A k \in Keys : exec'[k].run = exec[k].run
    BY <1>2, <1>11, FinalizedRun DEF finalize_execution
  <2>2. Finish(w) \/ \E next : next # "invoke" /\ AfterTool(w, next)
    BY <1>7, <1>11 DEF finalize_execution
  <2> QED
    BY <1>0, <1>5, <1>6, <1>11, <2>1, <2>2, CallNotMade DEF finalize_execution, rowVars
<1>12. CASE claim_resume(w)
  <2>1. \A k \in Keys : exec'[k].run = exec[k].run
    BY <1>2, <1>12 DEF claim_resume, Executions
  <2>2. worker'[w].pc # "invoke" /\ \A v \in Workers : v # w => worker'[v] = worker[v]
    <3>1. CASE \E t : worker' = [worker EXCEPT ![w].pc = "reserve", ![w].tries = t]
      BY <1>3, <3>1 DEF WorkerRecords
    <3>2. CASE Finish(w) \/ \E next : next # "invoke" /\ AfterTool(w, next)
      BY <1>5, <1>6, <3>2
    <3> QED
      BY <1>7, <1>12, <3>1, <3>2 DEF claim_resume
  <2> QED
    BY <1>0, <1>12, <2>1, <2>2, CallNotMade DEF claim_resume, rowVars
<1>13. CASE refuse_resume(w)
  <2>1. \A k \in Keys : exec'[k].run = exec[k].run
    BY <1>2, <1>13, FinalizedRun DEF refuse_resume
  <2> QED
    BY <1>0, <1>5, <1>13, <2>1, CallNotMade DEF refuse_resume, rowVars
<1> QED
  BY <1>8, <1>9, <1>10, <1>11, <1>12, <1>13

\* _reserve_budget_slot: the slot is paid for before anybody may call.
LEMMA ReserveSlot ==
    ASSUME IInv, ToolInv, SlotInv, NEW w \in Workers, reserve_budget_slot(w)
    PROVE  SlotInv'
<1>1. worker[w].pc \in ToolPCs
  BY DEF reserve_budget_slot, ToolPCs
<1>2. /\ TypeInv /\ ExclusiveOwner /\ Working(w) /\ run(w) \in Runs /\ key(w) \in Keys
      /\ exec \in [Keys -> Executions]
  BY <1>1, ToolFacts
<1>3. worker \in [Workers -> WorkerRecords] /\ toolCalls \in [Runs -> Nat]
  BY <1>2, BoundsAssumption DEF TypeInv, TypeOK, WorkersInv
<1>4. CASE ~(toolCalls[run(w)] < MaxToolCalls)
  <2>1. /\ exec' = Finalized(key(w), "FAILED", "tool_error")
        /\ \E next \in {"fail", "budget_exceeded"} : AfterTool(w, next)
        /\ UNCHANGED <<toolCalls, users, invoked>>
    BY <1>4 DEF reserve_budget_slot
  <2>2. \A k \in Keys : exec'[k].run = exec[k].run
    BY <1>2, <2>1, FinalizedRun
  <2>3. worker'[w].pc # "invoke"
    BY <1>2, <2>1, AfterToolRecord
  <2>4. \A v \in Workers : v # w => worker'[v] = worker[v]
    BY <1>3, <2>1 DEF AfterTool
  <2>5. NoSlotUsed
    BY <2>1, <2>2, <2>3, <2>4, CallNotMade
  <2> QED
    BY <2>5, SlotKept
<1>5. CASE toolCalls[run(w)] < MaxToolCalls
  <2>1. /\ toolCalls' = [toolCalls EXCEPT ![run(w)] = @ + 1]
        /\ Go(w, "invoke") /\ UNCHANGED <<exec, users, invoked>>
    BY <1>5 DEF reserve_budget_slot
  <2>2. /\ worker'[w].run = run(w)
        /\ \A v \in Workers : v # w => worker'[v] = worker[v]
    BY <1>2, <1>3, <2>1, GoRecord DEF Go
  <2> SUFFICES ASSUME NEW r \in Runs
               PROVE  /\ IsFiniteSet(Called(r)')
                      /\ Cardinality(Called(r)') <= toolCalls'[r]
                      /\ \A v \in Workers :
                            /\ Owns(v, r)' /\ worker'[v].pc = "invoke"
                            /\ worker'[v].key \in UnsharedKeys' \ Called(r)'
                            => Cardinality(Called(r)') < toolCalls'[r]
    BY DEF SlotInv
  <2>3. Called(r)' = Called(r) /\ UnsharedKeys' = UnsharedKeys
    BY <2>1 DEF Called, UnsharedKeys
  <2>4. IsFiniteSet(Called(r)) /\ Cardinality(Called(r)) <= toolCalls[r]
    BY DEF SlotInv
  <2>5. Cardinality(Called(r)) \in Nat
    BY <2>4, FS_CardinalityType
  <2>6. CASE r = run(w)
    <3>1. toolCalls'[r] = toolCalls[r] + 1
      BY <1>2, <1>3, <2>1, <2>6
    <3> QED
      BY <1>3, <2>3, <2>4, <2>5, <3>1
  <2>7. CASE r # run(w)
    <3>1. toolCalls'[r] = toolCalls[r]
      BY <1>3, <2>1, <2>7
    <3>2. ASSUME NEW v \in Workers, Owns(v, r)' PROVE v # w
      BY <2>2, <2>7, <3>2 DEF Owns, run
    <3> QED
      BY <2>2, <2>3, <2>4, <3>1, <3>2 DEF SlotInv, Owns, Working
  <2> QED
    BY <2>6, <2>7
<1> QED
  BY <1>4, <1>5

\* A handler is called: the slot its worker holds is used now.
LEMMA InvokeSlot ==
    ASSUME IInv, ToolInv, SlotInv, NEW w \in Workers, run_with_retries(w)
    PROVE  SlotInv'
<1> DEFINE k == key(w)
<1>1. worker[w].pc = "invoke" /\ worker[w].pc \in ToolPCs
  BY DEF run_with_retries, ToolPCs
<1>2. /\ TypeInv /\ ExclusiveOwner /\ Working(w) /\ run(w) \in Runs /\ k \in Keys
      /\ exec[k] \in Executions /\ exec \in [Keys -> Executions] /\ invoked \in [Keys -> Nat]
      /\ InHand(worker[w])
      /\ k \in UnsharedKeys => exec[k].run = run(w)
  BY <1>1, ToolFacts
<1>3. worker \in [Workers -> WorkerRecords] /\ toolCalls \in [Runs -> Nat]
  BY <1>2, BoundsAssumption DEF TypeInv, TypeOK, WorkersInv
<1>4. UNCHANGED <<toolCalls, users>> /\ UnsharedKeys' = UnsharedKeys
  BY DEF run_with_retries, rowVars, UnsharedKeys
<1>5. CASE RetriesExhausted(w)
  <2>1. worker'[w].pc # "invoke" /\ \A v \in Workers : v # w => worker'[v] = worker[v]
    BY <1>3, <1>5 DEF RetriesExhausted, WorkerRecords
  <2>2. NoSlotUsed
    BY <1>4, <1>5, <2>1, CallNotMade DEF RetriesExhausted
  <2> QED
    BY <2>2, SlotKept
<1>6. CASE Attempt(w)
  <2>1. /\ \A j \in Keys : exec'[j].run = exec[j].run
        /\ \A j \in Keys : j # k => invoked'[j] = invoked[j]
        /\ invoked'[k] > 0
    <3>1. /\ exec' = [exec EXCEPT ![k].attempts = worker[w].tries + 1]
          /\ invoked' = [invoked EXCEPT ![k] = @ + 1]
      BY <1>6 DEF Attempt
    <3>2. \A j \in Keys : exec'[j].run = exec[j].run
      BY <1>2, <3>1 DEF Executions
    <3>3. invoked[k] \in Nat /\ invoked'[k] = invoked[k] + 1
      BY <1>2, <3>1
    <3> QED
      BY <1>2, <3>1, <3>2, <3>3
  <2>2. /\ worker'[w].run = run(w) /\ worker'[w].key = k
        /\ \A v \in Workers : v # w => worker'[v] = worker[v]
    <3>1. CASE \E o \in Outcomes \ {"none"} :
                worker' = [worker EXCEPT ![w].tries = worker[w].tries + 1,
                                         ![w].outcome = o, ![w].pc = "finalize"]
      BY <1>3, <3>1 DEF run, key, WorkerRecords
    <3>2. CASE worker' = [worker EXCEPT ![w].tries = worker[w].tries + 1]
      BY <1>3, <3>2 DEF run, key, WorkerRecords
    <3> QED
      BY <1>6, <3>1, <3>2 DEF Attempt
  <2>3. k \in UnsharedKeys => exec[k].run = run(w)
    BY <1>2
  <2> SUFFICES ASSUME NEW r \in Runs
               PROVE  /\ IsFiniteSet(Called(r)')
                      /\ Cardinality(Called(r)') <= toolCalls'[r]
                      /\ \A v \in Workers :
                            /\ Owns(v, r)' /\ worker'[v].pc = "invoke"
                            /\ worker'[v].key \in UnsharedKeys' \ Called(r)'
                            => Cardinality(Called(r)') < toolCalls'[r]
    BY DEF SlotInv
  <2>4. IsFiniteSet(Called(r)) /\ Cardinality(Called(r)) <= toolCalls[r]
    BY DEF SlotInv
  <2>5. CASE r = run(w) /\ k \in UnsharedKeys
    <3>1. Called(r)' = Called(r) \cup {k}
      BY <1>2, <1>4, <2>1, <2>3, <2>5 DEF Called, UnsharedKeys
    <3>2. /\ IsFiniteSet(Called(r) \cup {k})
          /\ Cardinality(Called(r) \cup {k}) =
                IF k \in Called(r) THEN Cardinality(Called(r)) ELSE Cardinality(Called(r)) + 1
          /\ Cardinality(Called(r)) \in Nat
      BY <2>4, FS_AddElement, FS_CardinalityType
    <3>3. k \notin Called(r) => Cardinality(Called(r)) < toolCalls[r]
      BY <1>1, <1>2, <2>5 DEF SlotInv, Owns, run, key
    <3>4. Cardinality(Called(r)') <= toolCalls'[r]
      BY <1>3, <1>4, <2>4, <3>1, <3>2, <3>3
    <3>5. ASSUME NEW v \in Workers, Owns(v, r)' PROVE worker'[v].key \in Called(r)'
      <4>1. v = w
        BY <1>2, <2>2, <2>5, <3>5 DEF ExclusiveOwner, Owns, Working, run
      <4> QED
        BY <2>2, <3>1, <4>1
    <3> QED
      BY <3>1, <3>2, <3>4, <3>5
  <2>6. CASE ~(r = run(w) /\ k \in UnsharedKeys)
    <3>1. Called(r)' = Called(r)
      BY <1>2, <1>4, <2>1, <2>3, <2>6 DEF Called, UnsharedKeys
    <3>2. ASSUME NEW v \in Workers, Owns(v, r)', worker'[v].key \in UnsharedKeys
          PROVE  v # w
      BY <2>2, <2>6, <3>2 DEF Owns, run
    <3> QED
      BY <1>4, <2>2, <2>4, <3>1, <3>2 DEF SlotInv, Owns, Working
  <2> QED
    BY <2>5, <2>6
<1> QED
  BY <1>5, <1>6 DEF run_with_retries

\* Claims, the ends of a run, crashes and what people and sweeps do.
LEMMA OutsideSlot ==
    ASSUME IInv, ToolInv,
           \/ \E w \in Workers :
                \/ pause_run_for_approval(w) \/ complete_run(w)
                \/ complete_run_as_handoff(w) \/ fail_run(w) \/ budget_exceeded_run(w)
                \/ Deliver(w) \/ WorkerCrash(w)
           \/ \E r \in Runs : create_agent_run(r) \/ cancel_agent_run(r) \/ recover_stuck_run(r)
           \/ \E k \in Keys : expire_approval(k)
           \/ \E k \in Keys, d \in {"APPROVED", "REJECTED"} : decide_approval(k, d)
           \/ Sweep \/ resolve_handoff \/ UNCHANGED vars
    PROVE  NoSlotUsed
<1>1. TypeInv /\ worker \in [Workers -> WorkerRecords] /\ exec \in [Keys -> Executions]
  BY DEF IInv, TypeInv, TypeOK
<1>2. ASSUME NEW w \in Workers, Finish(w)
      PROVE  \A v \in Workers : worker'[v] = worker[v] \/ worker'[v].pc # "invoke"
  BY <1>1, <1>2 DEF Finish, IdleWorker
<1>3. ASSUME NEW w \in Workers,
             \/ pause_run_for_approval(w) \/ complete_run(w)
             \/ complete_run_as_handoff(w) \/ fail_run(w) \/ budget_exceeded_run(w)
             \/ WorkerCrash(w)
      PROVE  NoSlotUsed
  <2>1. Finish(w) /\ UNCHANGED <<toolCalls, users, invoked, exec>>
    BY <1>3 DEF pause_run_for_approval, complete_run, complete_run_as_handoff, fail_run,
                budget_exceeded_run, TerminateRun, WorkerCrash, rowVars, toolVars
  <2> QED
    BY <1>2, <2>1 DEF NoSlotUsed
<1>4. ASSUME NEW w \in Workers, Deliver(w) PROVE NoSlotUsed
  <2>1. UNCHANGED <<toolCalls, users, invoked, exec>>
    BY <1>4 DEF Deliver, claim_agent_run, claim_run_for_resume, toolVars
  <2>2. \/ UNCHANGED worker
        \/ \E rec : worker' = [worker EXCEPT ![w] = rec] /\ rec.pc # "invoke"
    <3>1. CASE \E r \in Runs : claim_agent_run(w, r)
      <4>1. PICK r \in Runs : claim_agent_run(w, r)
        BY <3>1
      <4> DEFINE rec == [IdleWorker EXCEPT !.pc = "begin", !.run = r]
      <4>2. rec.pc = "begin"
        BY DEF IdleWorker
      <4>3. UNCHANGED worker \/ worker' = [worker EXCEPT ![w] = rec]
        BY <4>1 DEF claim_agent_run
      <4> HIDE DEF rec
      <4> QED
        BY <4>2, <4>3
    <3>2. ASSUME NEW k \in Keys, claim_run_for_resume(w, k)
          PROVE  \/ UNCHANGED worker
                 \/ \E rec : worker' = [worker EXCEPT ![w] = rec] /\ rec.pc # "invoke"
      <4> DEFINE r == exec[k].run
                 pc == IF approval[k] = "APPROVED" THEN "resume_claim" ELSE "continue"
                 mode == IF approval[k] = "APPROVED" THEN "resume" ELSE "continuation"
                 held == IF approval[k] = "APPROVED" THEN k ELSE NoKey
                 rec == [IdleWorker EXCEPT !.run = r, !.turn = modelCalls[r],
                            !.pc = pc, !.mode = mode, !.key = held]
      <4>1. rec.pc = pc
        BY DEF IdleWorker
      <4>2. pc # "invoke"
        OBVIOUS
      <4>3. UNCHANGED worker \/ worker' = [worker EXCEPT ![w] = rec]
        BY <3>2 DEF claim_run_for_resume
      <4> HIDE DEF rec, pc
      <4> QED
        BY <4>1, <4>2, <4>3
    <3> QED
      BY <1>4, <3>1, <3>2 DEF Deliver
  <2> QED
    BY <1>1, <2>1, <2>2 DEF NoSlotUsed
<1>5. CASE Sweep \/ resolve_handoff \/ (\E r \in Runs : create_agent_run(r)) \/ UNCHANGED vars
  BY <1>5 DEF NoSlotUsed, Sweep, redispatch_pending_run, redispatch_waiting_run,
              resolve_handoff, create_agent_run, rowVars, toolVars, vars
<1>6. ASSUME NEW r \in Runs, cancel_agent_run(r) \/ recover_stuck_run(r) PROVE NoSlotUsed
  <2>1. UNCHANGED <<toolCalls, users, invoked, worker>>
    BY <1>6 DEF cancel_agent_run, recover_stuck_run
  <2>2. \A k \in Keys : exec'[k].run = exec[k].run
    BY <1>1, <1>6 DEF cancel_agent_run, recover_stuck_run, Executions
  <2> QED
    BY <2>1, <2>2 DEF NoSlotUsed
<1>7. ASSUME NEW k \in Keys, NEW d, decide_approval(k, d) \/ expire_approval(k)
      PROVE  NoSlotUsed
  <2>1. UNCHANGED <<toolCalls, users, invoked, worker>>
    BY <1>7 DEF decide_approval, expire_approval, rowVars
  <2>2. exec' = exec \/ exec' = Terminated(k)
    BY <1>7 DEF decide_approval, expire_approval
  <2>3. \A j \in Keys : exec'[j].run = exec[j].run
    BY <1>1, <2>2 DEF Terminated, Executions
  <2> QED
    BY <2>1, <2>3 DEF NoSlotUsed
<1> QED
  BY <1>3, <1>4, <1>5, <1>6, <1>7

LEMMA NextSlot == IInv /\ ToolInv /\ SlotInv /\ [Next]_vars => SlotInv'
<1> SUFFICES ASSUME IInv, ToolInv, SlotInv, [Next]_vars PROVE SlotInv'
  OBVIOUS
<1>1. ASSUME NEW w \in Workers, WorkerStep(w) PROVE SlotInv'
  BY <1>1, GraphSlot, BoundarySlot, OutsideSlot, ReserveSlot, InvokeSlot, SlotKept
     DEF WorkerStep
<1>2. CASE \/ \E w \in Workers : Deliver(w) \/ WorkerCrash(w)
           \/ \E r \in Runs : create_agent_run(r) \/ cancel_agent_run(r) \/ recover_stuck_run(r)
           \/ \E k \in Keys : expire_approval(k)
           \/ \E k \in Keys, d \in {"APPROVED", "REJECTED"} : decide_approval(k, d)
           \/ Sweep \/ resolve_handoff \/ UNCHANGED vars
  BY <1>2, OutsideSlot, SlotKept
<1> QED
  BY <1>1, <1>2 DEF Next

LEMMA InitSlot == Init => SlotInv
<1> SUFFICES ASSUME Init, NEW r \in Runs
             PROVE  /\ IsFiniteSet(Called(r)) /\ Cardinality(Called(r)) <= toolCalls[r]
                    /\ \A w \in Workers : worker[w].pc # "invoke"
  BY DEF SlotInv
<1>1. Called(r) = {}
  BY DEF Called, Init, UnsharedKeys
<1>2. toolCalls[r] = 0 /\ \A w \in Workers : worker[w].pc # "invoke"
  BY DEF Init, IdleWorker
<1> QED
  BY <1>1, <1>2, FS_EmptySet

\* SlotBeforeHandler: a run pays for a slot of its budget before it calls a handler
\* (_reserve_budget_slot), also across crashes, recovery, retries and resumes.  Rows two
\* runs have claimed are not counted.
THEOREM SlotsArePaidFor == Spec => []SlotBeforeHandler
<1>1. Init => SlotInv
  BY InitSlot
<1>2. SlotInv /\ (IInv /\ ToolInv) /\ [Next]_vars => SlotInv'
  BY NextSlot
<1>3. SlotInv => SlotBeforeHandler
  BY DEF SlotInv, SlotBeforeHandler, Called
<1> QED
  BY <1>1, <1>2, <1>3, ToolInvariant, PTL DEF Spec
===============================================================================
