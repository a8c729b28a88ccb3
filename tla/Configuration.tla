----------------------------- MODULE Configuration -----------------------------
(***************************************************************************)
(* What governs the agents of one workspace: agent versions, the tools     *)
(* bound to them, and policies with their versions and rules (backend/     *)
(* agents, tools, policies), configured by requests while runs start and   *)
(* the policy gate evaluates calls.                                        *)
(*                                                                         *)
(* A request loads its row, then acts on that copy in a later transaction  *)
(* (ConfigurationRequest). Only publishing and (de)activating lock the row *)
(* and read it again. The gate reads the active policy, its active version *)
(* and that version's rules with three statements of one READ COMMITTED    *)
(* transaction, so other transactions commit in between. Names, prompts,   *)
(* budgets, audit rows and the two unique constraints on names are left    *)
(* out; a write against another constraint fails and changes nothing.      *)
(***************************************************************************)
EXTENDS PolicyEvaluation, FiniteSets

CONSTANTS
    AgentVersions,   \* rows an agent definition's versions can take
    BoundTools,      \* tools of the registry
    Policies,
    PolicyVersions,
    Priorities,      \* priorities a rule can be given
    RulePalette,     \* rules an administrator may write
    GateCalls,       \* tool calls the gate may be asked about
    Editors,         \* configuration requests in flight
    Gates,           \* evaluations in flight
    NoRule, NoPolicy, NoTarget

ASSUME ConfigurationAssumption == IsFiniteSet(PolicyVersions) /\ NoPolicy \notin Policies

VARIABLES
    definition,      \* AgentDefinition.status
    agentVersion,    \* AgentVersion.status
    toolDefinition,  \* ToolDefinition.status of a tool of the registry
    binding,         \* ToolBinding of a version and a tool
    started,         \* versions that runs were created with
    policy,          \* Policy.status
    policyVersion,   \* PolicyVersion: its policy, its number, its status
    rule,            \* PolicyRule of a version at a priority
    edit,            \* requests: the operation, its row, and the copy they decided on
    gate             \* evaluations of the policy gate

agentConfigVars == <<definition, agentVersion, toolDefinition, binding, started>>
policyVars == <<policy, policyVersion, rule, gate>>
configurationVars == <<agentConfigVars, policyVars, edit>>

NoPolicyVersion == [policy |-> NoPolicy, number |-> 0, status |-> "none"]
NoEdit == [op |-> "none", on |-> NoTarget, copy |-> "none"]
NoGate == [pc |-> "idle", policy |-> NoPolicy, version |-> NoVersion, by |-> "none",
           decision |-> "none"]

ConfigurationInit ==
    /\ definition = "none" /\ started = {}
    /\ agentVersion = [v \in AgentVersions |-> "none"]
    /\ toolDefinition = [t \in BoundTools |-> "none"]
    /\ binding = [v \in AgentVersions |-> [t \in BoundTools |-> "none"]]
    /\ policy = [p \in Policies |-> "none"]
    /\ policyVersion = [v \in PolicyVersions |-> NoPolicyVersion]
    /\ rule = [v \in PolicyVersions |-> [n \in Priorities |-> NoRule]]
    /\ edit = [q \in Editors |-> NoEdit]
    /\ gate = [g \in Gates |-> NoGate]

\* What a request's first query returns: the status its later checks look at.
ConfigurationRequest(q, op, row, status) ==
    /\ edit[q] = NoEdit
    /\ status # "none"
    /\ edit' = [edit EXCEPT ![q] = [op |-> op, on |-> row, copy |-> status]]
    /\ UNCHANGED <<agentConfigVars, policyVars>>

AgentDefinitionRequest(q) == ConfigurationRequest(q, "update_agent", NoTarget, definition)
ToolBindingRequest(q, v) == ConfigurationRequest(q, "bind", v, agentVersion[v])
AgentRunRequest(q, v) == ConfigurationRequest(q, "run", v, agentVersion[v])
PolicyRequest(q, p) == ConfigurationRequest(q, "update_policy", p, policy[p])
PolicyRuleRequest(q, v) == ConfigurationRequest(q, "add_rule", v, policyVersion[v].status)

Acts(q, op) == edit[q].op = op /\ edit' = [edit EXCEPT ![q] = NoEdit]

\* A refused request, or one whose process dies, ends without a change.
AbortEdit(q) ==
    /\ edit[q] # NoEdit
    /\ edit' = [edit EXCEPT ![q] = NoEdit]
    /\ UNCHANGED <<agentConfigVars, policyVars>>

-----------------------------------------------------------------------------
(* Agent definitions, versions and tool bindings. *)

create_agent_definition ==
    /\ definition = "none"
    /\ definition' = "active"
    /\ UNCHANGED <<agentVersion, toolDefinition, binding, started, policyVars, edit>>

\* The whole row is saved: a request that changes the name writes back the status it loaded.
update_agent_definition(q) ==
    /\ Acts(q, "update_agent")
    /\ definition' \in {edit[q].copy, "active", "inactive", "archived"}
    /\ UNCHANGED <<agentVersion, toolDefinition, binding, started, policyVars>>

create_agent_version(v) ==
    /\ definition # "none" /\ agentVersion[v] = "none"
    /\ agentVersion' = [agentVersion EXCEPT ![v] = "draft"]
    /\ UNCHANGED <<definition, toolDefinition, binding, started, policyVars, edit>>

publish_agent_version(v) ==
    /\ agentVersion[v] = "draft"
    /\ agentVersion' = [agentVersion EXCEPT ![v] = "published"]
    /\ UNCHANGED <<definition, toolDefinition, binding, started, policyVars, edit>>

\* A deployment mirrors the registry into the catalogue.
sync_tool_definitions(enabled) ==
    /\ toolDefinition' = [t \in BoundTools |-> IF t \in enabled THEN "active" ELSE "disabled"]
    /\ UNCHANGED <<definition, agentVersion, binding, started, policyVars, edit>>

create_tool_binding(q, t) ==
    LET v == edit[q].on
    IN  /\ Acts(q, "bind") /\ edit[q].copy = "draft"
        /\ toolDefinition[t] = "active"
        /\ binding[v][t] = "none"
        /\ binding' = [binding EXCEPT ![v][t] = "on"]
        /\ UNCHANGED <<definition, agentVersion, toolDefinition, started, policyVars>>

set_tool_binding_enabled(q, t, s) ==
    LET v == edit[q].on
    IN  /\ Acts(q, "bind") /\ edit[q].copy = "draft"
        /\ binding[v][t] # "none"
        /\ binding' = [binding EXCEPT ![v][t] = s]
        /\ UNCHANGED <<definition, agentVersion, toolDefinition, started, policyVars>>

create_agent_run(q) ==
    /\ Acts(q, "run") /\ edit[q].copy = "published"
    /\ started' = started \cup {edit[q].on}
    /\ UNCHANGED <<definition, agentVersion, toolDefinition, binding, policyVars>>

-----------------------------------------------------------------------------
(* Policies, their versions and rules. *)

\* Constraint policy_one_active_per_workspace.
OneActivePolicy(status) == Cardinality({p \in Policies : status[p] = "active"}) <= 1

create_policy(p) ==
    /\ policy[p] = "none"
    /\ policy' = [policy EXCEPT ![p] = "draft"]
    /\ UNCHANGED <<agentConfigVars, policyVersion, rule, edit, gate>>

\* The whole row is saved, its loaded status with it.
update_policy(q) ==
    /\ Acts(q, "update_policy")
    /\ policy' = [policy EXCEPT ![edit[q].on] = edit[q].copy]
    /\ OneActivePolicy(policy')
    /\ UNCHANGED <<agentConfigVars, policyVersion, rule, gate>>

VersionsOf(p) == {v \in PolicyVersions : policyVersion[v].policy = p}

\* The last version is locked; a number taken meanwhile fails the insert.
create_policy_version(p, v) ==
    /\ policy[p] # "none" /\ policyVersion[v] = NoPolicyVersion
    /\ policyVersion' = [policyVersion EXCEPT ![v] =
           [policy |-> p, number |-> Cardinality(VersionsOf(p)) + 1, status |-> "draft"]]
    /\ UNCHANGED <<agentConfigVars, policy, rule, edit, gate>>

\* The status checked is the copy's: a rule can reach a version published meanwhile.
add_policy_rule(q, n, r) ==
    LET v == edit[q].on
    IN  /\ Acts(q, "add_rule") /\ edit[q].copy = "draft"
        /\ rule[v][n] = NoRule
        /\ rule' = [rule EXCEPT ![v][n] = r]
        /\ UNCHANGED <<agentConfigVars, policy, policyVersion, gate>>

publish_policy_version(v) ==
    /\ policyVersion[v].status = "draft"
    /\ policyVersion' = [w \in PolicyVersions |->
           IF w = v THEN [policyVersion[w] EXCEPT !.status = "active"]
           ELSE IF policyVersion[w].policy = policyVersion[v].policy
                   /\ policyVersion[w].status = "active"
           THEN [policyVersion[w] EXCEPT !.status = "superseded"]
           ELSE policyVersion[w]]
    /\ UNCHANGED <<agentConfigVars, policy, rule, edit, gate>>

activate_policy(p) ==
    /\ policy[p] # "none"
    /\ policy' = [o \in Policies |->
           IF o = p THEN "active" ELSE IF policy[o] = "active" THEN "inactive" ELSE policy[o]]
    /\ UNCHANGED <<agentConfigVars, policyVersion, rule, edit, gate>>

deactivate_policy(p) ==
    /\ policy[p] # "none"
    /\ policy' = [policy EXCEPT ![p] = "inactive"]
    /\ UNCHANGED <<agentConfigVars, policyVersion, rule, edit, gate>>

-----------------------------------------------------------------------------
(* The gate's evaluation of one call. *)

resolve_active_policy(g) ==
    /\ gate[g].pc = "idle"
    /\ \/ \E p \in Policies :
            /\ policy[p] = "active"
            /\ gate' = [gate EXCEPT ![g].pc = "policy", ![g].policy = p]
       \/ /\ \A p \in Policies : policy[p] # "active"
          /\ gate' = [gate EXCEPT ![g].pc = "rules"]
    /\ UNCHANGED <<agentConfigVars, policy, policyVersion, rule, edit>>

\* Mutation: the newest version governs, published or not.
resolve_active_version_newest(g) ==
    /\ gate[g].pc = "policy"
    /\ \E v \in VersionsOf(gate[g].policy) :
          /\ policyVersion[v].number = Cardinality(VersionsOf(gate[g].policy))
          /\ gate' = [gate EXCEPT ![g].pc = "rules", ![g].version = v]
    /\ UNCHANGED <<agentConfigVars, policy, policyVersion, rule, edit>>

resolve_active_version(g) ==
    LET active == {v \in VersionsOf(gate[g].policy) : policyVersion[v].status = "active"}
    IN  /\ gate[g].pc = "policy"
        /\ \/ \E v \in active : gate' = [gate EXCEPT ![g].pc = "rules", ![g].version = v]
           \/ active = {} /\ gate' = [gate EXCEPT ![g].pc = "rules"]
        /\ UNCHANGED <<agentConfigVars, policy, policyVersion, rule, edit>>

\* The version's rules in the order of their priorities.
RulesOf(v) ==
    LET present == {n \in Priorities : rule[v][n] # NoRule}
        nth(i) == CHOOSE n \in present : Cardinality({m \in present : m <= n}) = i
    IN  [i \in 1..Cardinality(present) |-> rule[v][nth(i)]]

\* One transaction: the evaluation is recorded with its decision, or everything rolls back.
run_policy_gate(g, a) ==
    LET v == gate[g].version
        d == evaluate_policy(a, IF v = NoVersion THEN NoVersion ELSE RulesOf(v))
        by == IF d.by = "failure" THEN NoVersion ELSE v
    IN  /\ gate[g].pc = "rules"
        /\ \/ /\ persist_policy_evaluation(d)
              /\ gate' = [gate EXCEPT ![g].pc = "recorded", ![g].version = by, ![g].by = d.by,
                                      ![g].decision = d.decision]
           \/ /\ ~persist_policy_evaluation(d)
              /\ gate' = [gate EXCEPT ![g].pc = "rolled back", ![g].version = NoVersion,
                                      ![g].by = d.by]
        /\ UNCHANGED <<agentConfigVars, policy, policyVersion, rule, edit>>

-----------------------------------------------------------------------------
AgentConfigurationNext ==
    \/ create_agent_definition
    \/ \E v \in AgentVersions : create_agent_version(v) \/ publish_agent_version(v)
    \/ \E enabled \in SUBSET BoundTools : sync_tool_definitions(enabled)
    \/ \E q \in Editors :
         \/ AgentDefinitionRequest(q)
         \/ \E v \in AgentVersions : ToolBindingRequest(q, v) \/ AgentRunRequest(q, v)
         \/ update_agent_definition(q) \/ create_agent_run(q) \/ AbortEdit(q)
         \/ \E t \in BoundTools :
              \/ create_tool_binding(q, t)
              \/ \E s \in {"on", "off"} : set_tool_binding_enabled(q, t, s)

PolicyNext ==
    \/ \E p \in Policies :
         \/ create_policy(p) \/ activate_policy(p) \/ deactivate_policy(p)
         \/ \E v \in PolicyVersions : create_policy_version(p, v)
    \/ \E v \in PolicyVersions : publish_policy_version(v)
    \/ \E q \in Editors :
         \/ \E p \in Policies : PolicyRequest(q, p)
         \/ \E v \in PolicyVersions : PolicyRuleRequest(q, v)
         \/ update_policy(q) \/ AbortEdit(q)
         \/ \E n \in Priorities, r \in RulePalette : add_policy_rule(q, n, r)
    \/ \E g \in Gates :
         \/ resolve_active_policy(g) \/ resolve_active_version(g)
         \/ \E a \in GateCalls : run_policy_gate(g, a)

ConfigurationSpec ==
    ConfigurationInit /\ [][AgentConfigurationNext \/ PolicyNext]_configurationVars

-----------------------------------------------------------------------------
(* Properties. *)

\* A run is created only with a published agent version, and an evaluation the gate recorded
\* with a policy version was made with a version that is or was published, whatever is
\* published, superseded, deactivated or edited between the reads of the request or the gate
\* and its write (agents/services.py create_agent_run, policies/evaluator.py).
OnlyPublishedGoverns ==
    /\ \A v \in started : agentVersion[v] = "published"
    /\ \A g \in Gates : gate[g].version # NoVersion =>
          /\ policyVersion[gate[g].version].status \in {"active", "superseded"}
          /\ policyVersion[gate[g].version].policy = gate[g].policy
=============================================================================
