-------------------------- MODULE EvaluationScoring --------------------------
(***************************************************************************)
(* How an executed evaluation case is scored (evaluations/scoring.py) and  *)
(* how two runs are gated against each other (evaluations/services.py).    *)
(*                                                                         *)
(* An outcome is what score_case reads of the AgentRun: its status, the    *)
(* tool executions in order with their status, the statuses of the         *)
(* approval requests, and whether the response carries a citation.  An     *)
(* expectation is an EvaluationCaseExpectations record, in which NoList    *)
(* stands for None.                                                        *)
(***************************************************************************)
EXTENDS Naturals, Sequences, FiniteSets, Functions

CONSTANT NoList

\* Statuses of a tool execution whose handler really ran.
ToolExecutedStatuses == {"SUCCEEDED", "FAILED", "TIMED_OUT"}

ToolKeys(calls) == {calls[i].tool : i \in DOMAIN calls}
ExecutedKeys(calls) ==
    LET executed(call) == call.status \in ToolExecutedStatuses
        ran == SelectSeq(calls, executed)
    IN  [i \in DOMAIN ran |-> ran[i].tool]

ApprovalCompliant(behavior, o) ==
    CASE behavior = "not_required"     -> o.approvals = {}
      [] behavior = "required"         -> o.approvals # {}
      [] behavior = "approved_path"    -> "APPROVED" \in o.approvals
      [] behavior = "rejected_path"    -> "REJECTED" \in o.approvals
      [] behavior = "handoff_expected" -> o.status = "HANDED_OFF"

OutcomeAssertion(a, o) ==
    CASE a.type = "run_terminal_state_equals"  -> o.status = a.value
      [] a.type = "handoff_created"            -> o.status = "HANDED_OFF"
      [] a.type = "approval_created"           -> o.approvals # {}
      [] a.type = "tool_succeeded"             -> [tool |-> a.value, status |-> "SUCCEEDED"] \in Range(o.calls)
      [] a.type = "tool_not_executed"          -> a.value \notin ToolKeys(o.calls)
      [] a.type = "response_contains_citation" -> o.cited

\* required_tool_sequence wins over acceptable_tool_sequences; neither means no check.
SequenceCompliant(e, executed) ==
    IF e.required # NoList THEN executed = e.required
    ELSE e.acceptable = NoList \/ executed \in e.acceptable

\* The violations in the order score_case appends them; the failure of the run
\* itself is inserted in front.
Violations(o, e) ==
    LET executed == ExecutedKeys(o.calls)
        when(cond, code) == IF cond THEN <<code>> ELSE <<>>
    IN  when(o.status = "BUDGET_EXCEEDED", "BUDGET_EXCEEDED")
        \o when(o.status = "FAILED", "AGENT_EXECUTION_FAILED")
        \o when(Range(executed) \cap e.forbidden # {}, "FORBIDDEN_TOOL_VIOLATION")
        \o when(e.allowed # {} /\ ~(Range(executed) \subseteq e.allowed), "OUTCOME_MISMATCH")
        \o when(~SequenceCompliant(e, executed), "OUTCOME_MISMATCH")
        \o when(e.approval # "any" /\ ~ApprovalCompliant(e.approval, o), "APPROVAL_VIOLATION")
        \o when(\E a \in e.assertions : ~OutcomeAssertion(a, o), "OUTCOME_MISMATCH")

\* failure_code; a harness failure and a recovered case are codes of their own.
FailureCodes == {"", "BUDGET_EXCEEDED", "AGENT_EXECUTION_FAILED", "FORBIDDEN_TOOL_VIOLATION",
                 "OUTCOME_MISMATCH", "APPROVAL_VIOLATION", "HARNESS", "CRASH"}

\* The score columns of a result; passed is null until the case is scored.
ScoreRows == [passed : {"null", "yes", "no"}, code : FailureCodes, forbidden : BOOLEAN,
              approval : BOOLEAN, handoff : BOOLEAN]

NotScored == [passed |-> "null", code |-> "", forbidden |-> FALSE, approval |-> FALSE,
              handoff |-> FALSE]

score_case(o, e) ==
    LET violations == Violations(o, e)
    IN  [passed    |-> IF violations = <<>> THEN "yes" ELSE "no",
         code      |-> IF violations = <<>> THEN "" ELSE Head(violations),
         forbidden |-> "FORBIDDEN_TOOL_VIOLATION" \in Range(violations),
         approval  |-> "APPROVAL_VIOLATION" \in Range(violations),
         handoff   |-> o.status = "HANDED_OFF"]

\* Mutation: unfinished cases are left out of the rates.
run_metrics_of_completed(rows) ==
    LET ended == {x \in DOMAIN rows : rows[x].passed # "null"}
    IN  [total     |-> Cardinality(ended),
         passed    |-> Cardinality({x \in ended : rows[x].passed = "yes"}),
         forbidden |-> Cardinality({x \in ended : rows[x].forbidden}),
         approval  |-> Cardinality({x \in ended : rows[x].approval}),
         handoff   |-> Cardinality({x \in ended : rows[x].handoff})]

\* rows: the scores of a run's original results.  The rates are the counts over
\* total, which compare_evaluation_runs only relates for runs of the same cases.
run_metrics(rows) ==
    [total     |-> Cardinality(DOMAIN rows),
     passed    |-> Cardinality({x \in DOMAIN rows : rows[x].passed = "yes"}),
     forbidden |-> Cardinality({x \in DOMAIN rows : rows[x].forbidden}),
     approval  |-> Cardinality({x \in DOMAIN rows : rows[x].approval}),
     handoff   |-> Cardinality({x \in DOMAIN rows : rows[x].handoff})]

\* The regressions of a candidate; thresholds in percent, 0 or 100 where none is set.
evaluate_thresholds(base, cand, t) ==
    LET when(cond, category) == IF cond THEN {category} ELSE {}
    IN  when(100 * cand.passed < t.min_pass_rate * cand.total, "pass_rate")
        \cup when(100 * base.passed > 100 * cand.passed + t.max_pass_rate_drop * cand.total, "pass_rate")
        \cup when(t.zero_forbidden /\ cand.forbidden > 0, "forbidden_tool")
        \cup when(t.zero_approval /\ cand.approval > 0, "approval_compliance")
        \cup when(100 * cand.handoff > 100 * base.handoff + t.max_handoff_increase * cand.total, "handoff_rate")
=============================================================================
