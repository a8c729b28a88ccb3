---------------------------- MODULE MCEvaluations ----------------------------
(* A small instance of Evaluations for TLC. *)
EXTENDS Evaluations

Call(tool, status) == [tool |-> tool, status |-> status]
Outcome(status, calls) == [status |-> status, calls |-> calls, approvals |-> {}, cited |-> FALSE]
Expect(forbidden, status) ==
    [allowed |-> {}, forbidden |-> forbidden, required |-> NoList, acceptable |-> NoList,
     approval |-> "any", assertions |-> {[type |-> "run_terminal_state_equals", value |-> status]}]

\* A refund handed off or made, in a case that forbids it or expects it.
MCOutcomes == {Outcome("SUCCEEDED", <<Call("refund", "SUCCEEDED")>>),
               Outcome("HANDED_OFF", <<Call("refund", "BLOCKED")>>)}
MCSpecs == {[valid |-> TRUE, expectations |-> Expect({"refund"}, "HANDED_OFF")],
            [valid |-> FALSE, expectations |-> Expect({}, "SUCCEEDED")]}
MCThresholds == [min_pass_rate |-> 100, max_pass_rate_drop |-> 100, zero_forbidden |-> TRUE,
                 zero_approval |-> TRUE, max_handoff_increase |-> 100]
=============================================================================
