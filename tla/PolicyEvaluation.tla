--------------------------- MODULE PolicyEvaluation ---------------------------
(***************************************************************************)
(* The decision of the policy gate as a function (backend/policies): the   *)
(* risk of a tool call, the trusted predicates, the rules of the active    *)
(* version, the system default, and whether the row that records the       *)
(* decision can be written.                                                *)
(*                                                                         *)
(* A call is its tool, the tool's base risk and side effect, and the       *)
(* arguments a rule or a default looks at: amount_minor and the minutes of *)
(* a booking (NoAmount when absent) and the currency. A rule is a record   *)
(* of the fields the evaluator reads; its name is kept as its length. The  *)
(* rules of a version are a sequence in the order of their priorities.     *)
(***************************************************************************)
EXTENDS Integers, Sequences

CONSTANTS
    RiskBumpAmount,   \* POLICIES_RISK_BUMP_FINANCIAL_AMOUNT_MINOR
    AutoAllowMax,     \* POLICIES_DEFAULT_REFUND_AUTO_ALLOW_MAX_MINOR
    ApprovalMax,      \* POLICIES_DEFAULT_REFUND_APPROVAL_MAX_MINOR
    NoVersion,        \* no active policy version
    JudgedRules,      \* rules the judgements are about
    Judgements,       \* a call, the rules of a version, one more rule and a larger amount
    NoJudgement

NoAmount == -1
PolicyEffect == {"deny", "require_approval", "allow"}

\* Calls of payment.refund: the tool is seeded as critical (any risk from medium on is allowed
\* for here), and its schema requires an amount and a currency.
RefundRisks == {"medium", "high", "critical"}
Refunds == [tool : {"payment.refund"}, base : RefundRisks, effect : {"financial"}, amount : Nat,
            currency : STRING, minutes : {NoAmount}]

ASSUME PolicyAssumption == {RiskBumpAmount, AutoAllowMax, ApprovalMax} \subseteq Nat

ASSUME JudgementAssumption ==
    /\ \A r \in JudgedRules : r.effect \in PolicyEffect
    /\ NoVersion \notin Seq(JudgedRules) /\ NoJudgement \notin Judgements
    /\ \A s \in Judgements :
          /\ s.rules \in Seq(JudgedRules) /\ s.extra \in JudgedRules
          /\ s.call.tool = "payment.refund" =>
                s.call \in Refunds /\ s.larger \in Nat /\ s.larger >= s.call.amount

RiskLevels == <<"read_only", "low", "medium", "high", "critical">>
RISK_ORDER(level) == CHOOSE i \in 1..5 : RiskLevels[i] = level

\* Mutation: the tier above the highest wraps round.
bump_cyclic(level) == RiskLevels[(RISK_ORDER(level) % 5) + 1]
bump(level) == IF RISK_ORDER(level) = 5 THEN level ELSE RiskLevels[RISK_ORDER(level) + 1]

\* The effective risk: a large financial call is one tier above the tool's own risk.
assess_risk(a) ==
    IF a.effect = "financial" /\ a.amount # NoAmount /\ a.amount >= RiskBumpAmount
    THEN bump(a.base) ELSE a.base

-----------------------------------------------------------------------------
(* The system default. *)

Default(decision, code) == [decision |-> decision, code |-> code]

refund_default(a) ==
    IF a.amount = NoAmount \/ a.currency # "USD"
    THEN Default("require_approval", "system_default_refund_unconfigured_currency")
    ELSE IF a.amount <= AutoAllowMax
    THEN Default("allow", "system_default_refund_below_auto_threshold")
    ELSE IF a.amount <= ApprovalMax
    THEN Default("require_approval", "system_default_refund_requires_approval")
    ELSE Default("deny", "system_default_refund_exceeds_maximum")

\* The default of the other calls that write, by side effect.
DefaultOfEffect(a) ==
    CASE a.effect = "financial" ->
            Default("require_approval", "system_default_financial_requires_approval")
      [] a.effect = "external_write" ->
            Default("require_approval", "system_default_external_write_requires_approval")
      [] a.effect = "destructive" ->
            Default("require_approval", "system_default_destructive_requires_approval")
      [] a.effect = "internal_write" -> Default("allow", "system_default_internal_write_allow")
      [] a.effect = "none" /\ assess_risk(a) \in {"high", "critical"} ->
            Default("require_approval", "system_default_high_risk_requires_approval")
      [] a.effect = "none" /\ assess_risk(a) \notin {"high", "critical"} ->
            Default("allow", "system_default_low_risk_allow")

evaluate_system_default(a) ==
    IF a.effect = "read" \/ a.base = "read_only"
    THEN Default("allow", "system_default_read_only_allow")
    ELSE IF a.tool = "payment.refund" THEN refund_default(a) ELSE DefaultOfEffect(a)

NoRole == ""   \* required_role of a decision or a rule that names none

required_role_for_risk(level) ==
    CASE level = "medium" -> "SUPPORT_MANAGER"
      [] level = "high" -> "ADMIN"
      [] OTHER -> "OWNER"

-----------------------------------------------------------------------------
(* Predicates of a rule's condition: "yes", "no", or "raises" for one that is not
   registered or whose parameters are unusable. *)

Holds(condition) == IF condition THEN "yes" ELSE "no"

risk_level_at_least(a, threshold) ==
    IF \E i \in 1..5 : RiskLevels[i] = threshold
    THEN Holds(RISK_ORDER(assess_risk(a)) >= RISK_ORDER(threshold)) ELSE "raises"

AmountPredicates == {"amount_minor_gt", "amount_minor_gte", "amount_minor_lt", "amount_minor_lte"}

amount_minor(name, amount, bound) ==
    Holds(CASE name = "amount_minor_gt" -> amount > bound
            [] name = "amount_minor_gte" -> amount >= bound
            [] name = "amount_minor_lt" -> amount < bound
            [] name = "amount_minor_lte" -> amount <= bound)

ArgumentPredicates == {"argument_equals", "argument_in_allowed_values"}

\* The argument a predicate names in its own parameters.
Argument(a, field) == IF field = "currency" THEN a.currency ELSE a.amount

known_predicate_names ==
    AmountPredicates \cup ArgumentPredicates
        \cup {"tool_is", "risk_level_at_least", "side_effect_type_is", "currency_is",
              "booking_duration_minutes_gt"}

\* The call has no argument the predicate is about: false, whatever the parameters are.
ArgumentMissing(p, a) ==
    \/ p.predicate \in AmountPredicates /\ a.amount = NoAmount
    \/ p.predicate = "currency_is" /\ a.currency = "none"
    \/ p.predicate = "booking_duration_minutes_gt" /\ a.minutes = NoAmount

\* A rule is stored with whatever parameters it is given: one without a value stands for a
\* missing parameter and for one that is not a number where it has to be.
Malformed(p) ==
    \/ "value" \notin DOMAIN p
    \/ p.predicate \in ArgumentPredicates /\ "field" \notin DOMAIN p

evaluate_predicate(p, a) ==
    IF p.predicate \notin known_predicate_names THEN "raises"
    ELSE IF ArgumentMissing(p, a) THEN "no"
    ELSE IF Malformed(p) THEN "raises"
    ELSE CASE p.predicate = "tool_is" -> Holds(a.tool = p.value)
           [] p.predicate = "risk_level_at_least" -> risk_level_at_least(a, p.value)
           [] p.predicate = "side_effect_type_is" -> Holds(a.effect = p.value)
           [] p.predicate \in AmountPredicates -> amount_minor(p.predicate, a.amount, p.value)
           [] p.predicate = "currency_is" -> Holds(a.currency = p.value)
           [] p.predicate = "argument_equals" -> Holds(Argument(a, p.field) = p.value)
           [] p.predicate = "argument_in_allowed_values" -> Holds(Argument(a, p.field) \in p.value)
           [] p.predicate = "booking_duration_minutes_gt" -> Holds(a.minutes > p.value)

\* The rule's own fields let it apply to the call.
InScope(r, a) ==
    /\ r.enabled
    /\ r.tool \in {"", a.tool}
    /\ r.risk_levels = {} \/ assess_risk(a) \in r.risk_levels
    /\ r.side_effect_types = {} \/ a.effect \in r.side_effect_types

rule_applies(r, a) ==
    InScope(r, a) /\ \A i \in DOMAIN r.all : evaluate_predicate(r.all[i], a) = "yes"

\* The predicates are evaluated in order up to the first that does not hold.
RuleRaises(r, a) ==
    /\ InScope(r, a)
    /\ \E i \in DOMAIN r.all :
          /\ evaluate_predicate(r.all[i], a) = "raises"
          /\ \A j \in 1..(i - 1) : evaluate_predicate(r.all[j], a) = "yes"

-----------------------------------------------------------------------------
(* The evaluator. *)

POLICY_EFFECT_PRECEDENCE == <<"deny", "require_approval", "allow">>
Strictness(decision) == CHOOSE i \in 1..3 : POLICY_EFFECT_PRECEDENCE[4 - i] = decision

\* The positions of the rules that apply, and the first of some positions.
Matched(rules, a) == {i \in DOMAIN rules : rule_applies(rules[i], a)}
First(positions) == CHOOSE i \in positions : \A j \in positions : i <= j

\* Mutation: the first matching rule decides.
winning_effect_first(rules, matched) == rules[First(matched)].effect
winning_effect(rules, matched) ==
    LET present == {rules[i].effect : i \in matched}
        first == CHOOSE i \in 1..3 : /\ POLICY_EFFECT_PRECEDENCE[i] \in present
                                     /\ \A j \in 1..(i - 1) :
                                          POLICY_EFFECT_PRECEDENCE[j] \notin present
    IN  POLICY_EFFECT_PRECEDENCE[first]

\* The role that may approve: the first one a winning rule names, or the default of the risk.
finalize(decision, rules, winning, a) ==
    LET naming == {i \in winning : rules[i].required_role # NoRole}
    IN  IF decision # "require_approval" THEN NoRole
        ELSE IF naming # {} THEN rules[First(naming)].required_role
        ELSE required_role_for_risk(assess_risk(a))

\* code_length is the length of decision_code; a failed evaluation is recorded as a denial.
Decision(by, decision, role, code_length) ==
    [by |-> by, decision |-> decision, role |-> role, code_length |-> code_length]

evaluate_policy(a, version) ==
    LET default == evaluate_system_default(a)
        default_role == finalize(default.decision, <<>>, {}, a)
        matched == Matched(version, a)
        effect == winning_effect(version, matched)
        winning == {i \in matched : version[i].effect = effect}
    IN  IF version = NoVersion
        THEN Decision("default", default.decision, default_role, Len(default.code))
        ELSE IF \E i \in DOMAIN version : RuleRaises(version[i], a)
        THEN Decision("failure", "deny", NoRole, Len("policy_evaluation_failed"))
        ELSE IF matched = {}
        THEN Decision("fallback", default.decision, default_role,
                      Len("no_matching_rule_fallback:") + Len(default.code))
        ELSE Decision("rules", effect, finalize(effect, version, winning, a),
                      Len("rule_matched:") + version[First(winning)].name)

\* PolicyEvaluation.decision_code is a column of 64 characters: a longer one fails the insert
\* and the gate's transaction with it.
MAX_DECISION_CODE == 64
persist_policy_evaluation(d) == d.code_length <= MAX_DECISION_CODE

-----------------------------------------------------------------------------
(* Properties of the decision, for what one evaluation is asked: the call and the rules are
   read once and do not change while it runs. *)

VARIABLE judgement

JudgementInit == judgement \in Judgements \cup {NoJudgement}
JudgementSpec == JudgementInit /\ [][UNCHANGED judgement]_judgement

\* A rule added to a version anywhere in its order never weakens what the version's rules
\* decide: deny stays deny, an approval stays required or becomes a denial. A rule that
\* cannot be evaluated denies (policies/evaluator.py evaluate_policy,
\* POLICY_EFFECT_PRECEDENCE).
StricterWithMoreRules(s) ==
    LET before == evaluate_policy(s.call, s.rules)
    IN  before.by # "fallback" =>
          \A i \in 0..Len(s.rules) :
             LET longer == SubSeq(s.rules, 1, i) \o <<s.extra>>
                              \o SubSeq(s.rules, i + 1, Len(s.rules))
             IN  Strictness(evaluate_policy(s.call, longer).decision)
                     >= Strictness(before.decision)

\* StricterWithMoreRules of what is judged (policies/evaluator.py evaluate_policy).
StricterRuleWins == judgement # NoJudgement => StricterWithMoreRules(judgement)

RoleRank(role) == CHOOSE i \in 0..3 : <<NoRole, "SUPPORT_MANAGER", "ADMIN", "OWNER">>[i + 1] = role

\* Without a policy, a larger refund is never judged more leniently than a smaller one of the
\* same currency: not its decision, not its risk, not the role that must approve it. Tools
\* that move money have at least medium risk; below it the role falls back to OWNER
\* (policies/risk.py, policies/defaults.py).
StricterWithAmount(s) ==
    LET more == [s.call EXCEPT !.amount = s.larger]
        small == evaluate_policy(s.call, NoVersion)
        large == evaluate_policy(more, NoVersion)
    IN  /\ Strictness(large.decision) >= Strictness(small.decision)
        /\ RISK_ORDER(assess_risk(more)) >= RISK_ORDER(assess_risk(s.call))
        /\ large.decision = "require_approval" => RoleRank(large.role) >= RoleRank(small.role)

\* StricterWithAmount when a refund is judged (policies/risk.py, policies/defaults.py).
LargerRefundIsStricter ==
    judgement # NoJudgement /\ judgement.call.tool = "payment.refund" =>
        StricterWithAmount(judgement)
=============================================================================
