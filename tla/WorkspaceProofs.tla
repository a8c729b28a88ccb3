--------------------------- MODULE WorkspaceProofs ---------------------------
(***************************************************************************)
(* Who is in a workspace and what it has configured: Membership has one    *)
(* owner at most, Configuration starts runs with, and gates them by,       *)
(* published versions only, and PolicyEvaluation gets no more lenient with *)
(* a further rule or a larger refund.                                      *)
(***************************************************************************)
EXTENDS Membership, Configuration, FiniteSetTheorems, SequenceTheorems, TLAPS

(***************************************************************************)
(* Membership, for any number of users and overlapping requests: at most   *)
(* one membership row has the role of owner.  SoleOwner is not inductive   *)
(* by itself: what a request has decided must not be a role of owner, and  *)
(* a transfer must be between two users.                                   *)
(***************************************************************************)

\* A decided request names a user, grants no ownership, and transfers to another user.
DecidedInv ==
    \A p \in Calls : call[p].pc = "decided" =>
        /\ call[p].target \in Users
        /\ call[p].op \in {"add", "change"} => call[p].role \in ASSIGNABLE_ROLES
        /\ call[p].op = "transfer" => call[p].actor \in Users /\ call[p].actor # call[p].target

\* A permitted transfer is the request of a user.
AllowedInv ==
    \A p \in Calls : call[p].pc = "allowed" /\ call[p].op = "transfer" => call[p].actor \in Users

MInv == MembershipTypeOK /\ SoleOwner /\ DecidedInv /\ AllowedInv

\* The records a request goes through.
CallRecords ==
    [pc : {"idle", "allowed", "decided"}, op : Operations \cup {"none"},
     actor : Users \cup {NoUser}, role : Roles \cup {"none"},
     target : Users \cup {NoUser}, create : BOOLEAN]

\* No role a request may ask for is that of the owner.
LEMMA OwnerIsNotAssignable == "OWNER" \notin ASSIGNABLE_ROLES /\ ASSIGNABLE_ROLES \subseteq Roles
BY MembershipAssumption DEF ASSIGNABLE_ROLES, Roles

\* A row that does not exist is a record like the others.
LEMMA NoRowIsARecord ==
    /\ NoRow \in [role : {"none"}, active : {FALSE}]
    /\ \A row \in [role : {"none"}, active : {FALSE}] : row = NoRow
<1>1. NoRow \in [role : {"none"}, active : {FALSE}]
  BY DEF NoRow
<1>2. ASSUME NEW row \in [role : {"none"}, active : {FALSE}] PROVE row = NoRow
  <2>1. row = [role |-> row.role, active |-> row.active]
    OBVIOUS
  <2>2. row.role = "none" /\ row.active = FALSE
    OBVIOUS
  <2> QED
    BY <2>1, <2>2, Zenon DEF NoRow
<1> QED
  BY <1>1, <1>2

\* The end of a request leaves the others as they are.
LEMMA EndedCalls ==
    ASSUME MInv, NEW p \in Calls, EndCall(p)
    PROVE  call' \in [Calls -> CallRecords] /\ DecidedInv' /\ AllowedInv'
<1>1. NoCall \in CallRecords /\ NoCall.pc = "idle"
  BY DEF NoCall, CallRecords
<1>2. call \in [Calls -> CallRecords] /\ call' = [call EXCEPT ![p] = NoCall]
  BY DEF MInv, MembershipTypeOK, CallRecords, EndCall
<1> HIDE DEF NoCall
<1>3. call' \in [Calls -> CallRecords]
  BY <1>1, <1>2
<1>4. \A q \in Calls : call'[q] = call[q] \/ call'[q].pc = "idle"
  BY <1>1, <1>2
<1> QED
  BY <1>3, <1>4 DEF MInv, DecidedInv, AllowedInv

\* Giving a user a role that is not the owner's makes no owner.
LEMMA RowUpdate ==
    ASSUME MInv, NEW u \in Users, NEW row \in Rows, row.role # "OWNER",
           member' = [member EXCEPT ![u] = row]
    PROVE  member' \in [Users -> Rows] /\ SoleOwner'
BY DEF MInv, MembershipTypeOK, SoleOwner

\* The step of a request that writes nothing.
LEMMA CheckStep ==
    ASSUME MInv, NEW p \in Calls, NEW u \in Users, NEW op \in Operations, check_permissions(p, u, op)
    PROVE  MInv'
<1> DEFINE rec == [NoCall EXCEPT !.pc = "allowed", !.op = op, !.role = member[u].role,
                                 !.actor = IF op = "transfer" THEN u ELSE NoUser]
<1>1. member[u].role \in Roles \cup {"none"}
  BY DEF MInv, MembershipTypeOK, Rows, NoRow
<1>2. /\ rec \in CallRecords /\ rec.pc = "allowed"
      /\ rec.op = op /\ (op = "transfer" => rec.actor = u)
  BY <1>1 DEF NoCall, CallRecords
<1>3. call \in [Calls -> CallRecords] /\ call' = [call EXCEPT ![p] = rec] /\ UNCHANGED member
  BY DEF MInv, MembershipTypeOK, CallRecords, check_permissions
<1> HIDE DEF rec
<1>4. call' \in [Calls -> CallRecords] /\ \A q \in Calls : call'[q] = IF q = p THEN rec ELSE call[q]
  BY <1>2, <1>3
<1>5. DecidedInv' /\ AllowedInv'
  BY <1>2, <1>4 DEF MInv, DecidedInv, AllowedInv
<1> QED
  BY <1>3, <1>4, <1>5 DEF MInv, MembershipTypeOK, CallRecords, SoleOwner

\* A request decides on the row it has read.
LEMMA DecideStep ==
    ASSUME MInv, NEW p \in Calls, NEW u \in Users, NEW role \in ASSIGNABLE_ROLES,
           get_workspace_member_or_404(p, u, role)
    PROVE  MInv'
<1> DEFINE c == call[p]
           rec == [pc |-> "decided", op |-> c.op, actor |-> c.actor, target |-> u,
                   role |-> IF c.op \in {"add", "change"} THEN role ELSE "none",
                   create |-> c.op = "add" /\ member[u] = NoRow]
<1>1. call \in [Calls -> CallRecords] /\ c \in CallRecords
  BY DEF MInv, MembershipTypeOK, CallRecords
<1>2. /\ rec \in CallRecords /\ rec.pc = "decided" /\ rec.target = u /\ rec.op = c.op
      /\ rec.actor = c.actor /\ (c.op \in {"add", "change"} => rec.role = role)
  BY <1>1, OwnerIsNotAssignable DEF CallRecords
<1>3. /\ call' = [call EXCEPT ![p] = rec] /\ UNCHANGED member /\ c.pc = "allowed"
      /\ c.op = "transfer" => u # c.actor
  BY DEF get_workspace_member_or_404
<1>4. c.op = "transfer" => c.actor \in Users
  BY <1>3 DEF MInv, AllowedInv
<1> HIDE DEF rec, c
<1>5. call' \in [Calls -> CallRecords] /\ \A q \in Calls : call'[q] = IF q = p THEN rec ELSE call[q]
  BY <1>1, <1>2, <1>3
<1>6. DecidedInv' /\ AllowedInv'
  BY <1>2, <1>3, <1>4, <1>5 DEF MInv, DecidedInv, AllowedInv
<1> QED
  BY <1>3, <1>5, <1>6 DEF MInv, MembershipTypeOK, CallRecords, SoleOwner

\* Adding, changing and removing write a row that is not the owner's, or deactivate one.
LEMMA WriteStep ==
    ASSUME MInv, NEW p \in Calls,
           add_workspace_member(p) \/ change_workspace_member_role(p) \/ remove_workspace_member(p)
    PROVE  MInv'
<1> DEFINE u == call[p].target
<1>1. /\ call[p].pc = "decided" /\ EndCall(p) /\ u \in Users /\ member[u] \in Rows
  BY DEF MInv, MembershipTypeOK, DecidedInv, Decided, add_workspace_member,
         change_workspace_member_role, remove_workspace_member
<1>2. call' \in [Calls -> CallRecords] /\ DecidedInv' /\ AllowedInv'
  BY <1>1, EndedCalls
<1>3. CASE add_workspace_member(p) \/ change_workspace_member_role(p)
  <2>1. call[p].role \in ASSIGNABLE_ROLES
    BY <1>1, <1>3 DEF MInv, DecidedInv, Decided, add_workspace_member, change_workspace_member_role
  <2>2. \E row \in Rows : row.role # "OWNER" /\ member' = [member EXCEPT ![u] = row]
    <3>1. CASE add_workspace_member(p)
      <4>1. [role |-> call[p].role, active |-> TRUE] \in Rows
        BY <2>1, OwnerIsNotAssignable DEF Rows
      <4> QED
        BY <2>1, <3>1, <4>1, OwnerIsNotAssignable DEF add_workspace_member
    <3>2. CASE change_workspace_member_role(p)
      <4> DEFINE row == [member[u] EXCEPT !.role = call[p].role]
      <4>1. row = [role |-> call[p].role, active |-> member[u].active] /\ member[u].active \in BOOLEAN
        <5>1. CASE member[u] \in [role : {"none"}, active : {FALSE}]
          <6>1. member[u] \in [role : {"none"}, active : BOOLEAN]
            BY <5>1
          <6> QED
            BY <6>1
        <5>2. CASE member[u] \in [role : Roles, active : BOOLEAN]
          BY <5>2
        <5> QED
          BY <1>1, <5>1, <5>2, NoRowIsARecord DEF Rows
      <4>2. member' = [member EXCEPT ![u] = row]
        BY <3>2 DEF change_workspace_member_role
      <4>3. row \in Rows /\ row.role = call[p].role
        BY <2>1, <4>1, OwnerIsNotAssignable DEF Rows
      <4> QED
        BY <2>1, <4>2, <4>3, OwnerIsNotAssignable
    <3> QED
      BY <1>3, <3>1, <3>2
  <2>3. member' \in [Users -> Rows] /\ SoleOwner'
    BY <1>1, <2>2, RowUpdate
  <2> QED
    BY <1>2, <2>3 DEF MInv, MembershipTypeOK, CallRecords
<1>4. CASE remove_workspace_member(p)
  <2> DEFINE row == [member[u] EXCEPT !.active = FALSE]
  <2>1. row \in Rows /\ row.role = member[u].role
    <3>1. CASE member[u] \in [role : {"none"}, active : {FALSE}]
      <4>1. row \in [role : {"none"}, active : {FALSE}] /\ row.role = member[u].role
        BY <3>1
      <4> QED
        BY <4>1, NoRowIsARecord DEF Rows
    <3>2. CASE member[u] \in [role : Roles, active : BOOLEAN]
      BY <3>2 DEF Rows
    <3> QED
      BY <1>1, <3>1, <3>2, NoRowIsARecord DEF Rows
  <2>2. member' = [member EXCEPT ![u] = row]
    BY <1>4 DEF remove_workspace_member
  <2> HIDE DEF row
  <2>3. member' \in [Users -> Rows] /\ \A v \in Users : member'[v].role = member[v].role
    BY <1>1, <2>1, <2>2 DEF MInv, MembershipTypeOK
  <2>4. SoleOwner'
    BY <2>3 DEF MInv, SoleOwner
  <2> QED
    BY <1>2, <2>3, <2>4 DEF MInv, MembershipTypeOK, CallRecords
<1> QED
  BY <1>3, <1>4

\* The owner read under the lock is the only one, and is demoted.
LEMMA TransferStep ==
    ASSUME MInv, NEW p \in Calls, transfer_workspace_ownership(p)
    PROVE  MInv'
<1> DEFINE from == call[p].actor
           to == call[p].target
           old == [member[from] EXCEPT !.role = "ADMIN"]
           new == [member[to] EXCEPT !.role = "OWNER"]
<1>1. from \in Users /\ to \in Users /\ from # to
  BY DEF MInv, DecidedInv, Decided, transfer_workspace_ownership
<1>2. /\ member[from].role = "OWNER" /\ member[to].active
      /\ member' = [member EXCEPT ![from].role = "ADMIN", ![to].role = "OWNER"]
      /\ EndCall(p)
  BY DEF transfer_workspace_ownership
<1>3. member[from] \in Rows /\ member[to] \in Rows /\ member \in [Users -> Rows]
  BY <1>1 DEF MInv, MembershipTypeOK
<1>4. old \in Rows /\ old.role = "ADMIN"
  BY <1>2, <1>3 DEF Rows, NoRow, Roles, ASSIGNABLE_ROLES
<1>5. new \in Rows /\ new.role = "OWNER"
  BY <1>2, <1>3 DEF Rows, NoRow, Roles
<1>6. \A v \in Users : member'[v] = IF v = from THEN old ELSE IF v = to THEN new ELSE member[v]
  BY <1>1, <1>2, <1>3
<1>7. member' \in [Users -> Rows]
  BY <1>1, <1>2, <1>3, <1>4, <1>5
<1> HIDE DEF old, new
<1>8. SoleOwner'
  BY <1>1, <1>2, <1>4, <1>6 DEF MInv, SoleOwner
<1>9. call' \in [Calls -> CallRecords] /\ DecidedInv' /\ AllowedInv'
  BY <1>2, EndedCalls
<1> QED
  BY <1>7, <1>8, <1>9 DEF MInv, MembershipTypeOK, CallRecords

\* The invariant holds at first and is kept by every step.
LEMMA MembershipInductive ==
    /\ MembershipInit => MInv
    /\ MInv /\ [MembershipNext]_membershipVars => MInv'
<1>1. MembershipInit => MInv
  BY DEF MembershipInit, MInv, MembershipTypeOK, SoleOwner, DecidedInv, AllowedInv, NoCall, NoRow, Rows
<1>2. ASSUME MInv, MembershipNext PROVE MInv'
  <2>1. ASSUME NEW u \in Users, create_workspace(u) PROVE MInv'
    <3>1. /\ UNCHANGED call
          /\ member' = [member EXCEPT ![u] = [role |-> "OWNER", active |-> TRUE]]
          /\ \A v \in Users : member[v].role # "OWNER"
      BY <2>1 DEF create_workspace, NoRow
    <3>2. [role |-> "OWNER", active |-> TRUE] \in Rows
      BY DEF Rows, Roles
    <3>3. member' \in [Users -> Rows] /\ SoleOwner'
      BY <1>2, <3>1, <3>2 DEF MInv, MembershipTypeOK, SoleOwner
    <3> QED
      BY <1>2, <3>1, <3>3 DEF MInv, MembershipTypeOK, DecidedInv, AllowedInv
  <2>2. ASSUME NEW p \in Calls, AbortCall(p) PROVE MInv'
    BY <1>2, <2>2, EndedCalls DEF AbortCall, MInv, MembershipTypeOK, CallRecords, SoleOwner
  <2> QED
    BY <1>2, <2>1, <2>2, CheckStep, DecideStep, WriteStep, TransferStep DEF MembershipNext
<1>3. ASSUME MInv, UNCHANGED membershipVars PROVE MInv'
  BY <1>3 DEF membershipVars, MInv, MembershipTypeOK, SoleOwner, DecidedInv, AllowedInv
<1> QED
  BY <1>1, <1>2, <1>3

\* However many requests overlap, transfer_workspace_ownership never leaves a workspace
\* with two memberships of role owner, deactivated ones included.
THEOREM OwnershipIsSole == MembershipSpec => [](MembershipTypeOK /\ SoleOwner)
<1>1. MInv => MembershipTypeOK /\ SoleOwner
  BY DEF MInv
<1> QED
  BY <1>1, MembershipInductive, PTL DEF MembershipSpec

-------------------------------------------------------------------------------
(***************************************************************************)
(* Configuration, for any number of versions, policies, requests and       *)
(* evaluations in flight: what runs start with, and what the gate records, *)
(* has been published.                                                     *)
(*                                                                         *)
(* A request that loaded a published agent version, and an evaluation      *)
(* that read an active policy version, hold something that can no longer   *)
(* become unpublished: a version's status only goes forward. The invariant *)
(* says so of the copies in flight.                                        *)
(***************************************************************************)

PolicyVersionRows ==
    [policy : Policies \cup {NoPolicy}, number : Nat,
     status : {"none", "draft", "active", "superseded"}]

EditRows(B) == [op : {"none", "update_agent", "bind", "run", "update_policy", "add_rule"}, on : B, copy : B]

GateRows(B) ==
    [pc : {"idle", "policy", "rules", "recorded", "rolled back"}, policy : Policies \cup {NoPolicy},
     version : PolicyVersions \cup {NoVersion}, by : B, decision : B]

\* Types; of targets, copies and decisions only that they are values.
ConfigurationTypeOK ==
    /\ agentVersion \in [AgentVersions -> {"none", "draft", "published"}]
    /\ started \subseteq AgentVersions
    /\ policyVersion \in [PolicyVersions -> PolicyVersionRows]
    /\ \E B : edit \in [Editors -> EditRows(B)]
    /\ \E B : gate \in [Gates -> GateRows(B)]

\* A run starts from a version that is published, also when only the copy says so.
RunsInv ==
    /\ \A v \in started : agentVersion[v] = "published"
    /\ \A q \in Editors : edit[q].op = "run" =>
          /\ edit[q].on \in AgentVersions
          /\ edit[q].copy = "published" => agentVersion[edit[q].on] = "published"

\* The version an evaluation holds.
GatesInv ==
    /\ \A g \in Gates : gate[g].version # NoVersion =>
          /\ gate[g].version \in PolicyVersions
          /\ policyVersion[gate[g].version].status \in {"active", "superseded"}
          /\ policyVersion[gate[g].version].policy = gate[g].policy
    /\ \A g \in Gates : gate[g].pc \in {"idle", "policy"} => gate[g].version = NoVersion

CInv == ConfigurationTypeOK /\ RunsInv /\ GatesInv

-----------------------------------------------------------------------------
\* The properties are parts of the invariant.
LEMMA CInvImplies == CInv => OnlyPublishedGoverns
BY DEF CInv, RunsInv, GatesInv, OnlyPublishedGoverns

\* An empty workspace.
LEMMA ConfigurationInitial == ConfigurationInit => CInv
<1> SUFFICES ASSUME ConfigurationInit PROVE CInv
  OBVIOUS
<1>1. NoPolicyVersion \in PolicyVersionRows
  BY DEF NoPolicyVersion, PolicyVersionRows
<1>2. NoEdit \in EditRows({"none", NoTarget}) /\ NoEdit.op # "run"
  BY DEF NoEdit, EditRows
<1>3. NoGate \in GateRows({"none"}) /\ NoGate.version = NoVersion
  BY DEF NoGate, GateRows
<1> HIDE DEF NoPolicyVersion, PolicyVersionRows, NoEdit, NoGate
<1>4. policyVersion \in [PolicyVersions -> PolicyVersionRows]
  BY <1>1 DEF ConfigurationInit
<1>5. edit \in [Editors -> EditRows({"none", NoTarget})]
  BY <1>2 DEF ConfigurationInit
<1>6. gate \in [Gates -> GateRows({"none"})]
  BY <1>3 DEF ConfigurationInit
<1>7. agentVersion \in [AgentVersions -> {"none", "draft", "published"}] /\ started = {}
  BY DEF ConfigurationInit
<1>8. ConfigurationTypeOK
  BY <1>4, <1>5, <1>6, <1>7 DEF ConfigurationTypeOK
<1>9. RunsInv /\ GatesInv
  BY <1>2, <1>3, <1>7 DEF RunsInv, GatesInv, ConfigurationInit
<1> QED
  BY <1>8, <1>9 DEF CInv

-----------------------------------------------------------------------------
\* A request ends: its copy is gone.
LEMMA EditEnds ==
    ASSUME CInv, NEW q \in Editors, edit' = [edit EXCEPT ![q] = NoEdit]
    PROVE  /\ \E B : edit' \in [Editors -> EditRows(B)]
           /\ \A o \in Editors : edit'[o].op # "run" \/ edit'[o] = edit[o]
<1>1. PICK B : edit \in [Editors -> EditRows(B)]
  BY DEF CInv, ConfigurationTypeOK
<1> DEFINE C == B \cup {"none", NoTarget}
<1>2. NoEdit \in EditRows(C) /\ NoEdit.op # "run" /\ EditRows(B) \subseteq EditRows(C)
  BY DEF NoEdit, EditRows
<1> HIDE DEF C, NoEdit, EditRows
<1>3. edit' \in [Editors -> EditRows(C)]
  BY <1>1, <1>2
<1>4. \A o \in Editors : edit'[o].op # "run" \/ edit'[o] = edit[o]
  BY <1>1, <1>2
<1> QED
  BY <1>3, <1>4

\* A step that leaves agent versions and what was started alone and only ends a request.
LEMMA EditOnly ==
    ASSUME CInv, NEW q \in Editors, edit' = [edit EXCEPT ![q] = NoEdit],
           UNCHANGED <<agentVersion, started, policyVersion, gate>>
    PROVE  CInv'
<1>1. /\ \E B : edit' \in [Editors -> EditRows(B)]
      /\ \A o \in Editors : edit'[o].op # "run" \/ edit'[o] = edit[o]
  BY EditEnds
<1>2. ConfigurationTypeOK'
  BY <1>1 DEF CInv, ConfigurationTypeOK
<1>3. RunsInv' /\ GatesInv'
  BY <1>1 DEF CInv, RunsInv, GatesInv
<1> QED
  BY <1>2, <1>3 DEF CInv

\* A step that changes none of the variables the invariant speaks of.
LEMMA NothingOfInterest ==
    ASSUME CInv, UNCHANGED <<agentVersion, started, policyVersion, edit, gate>>
    PROVE  CInv'
BY DEF CInv, ConfigurationTypeOK, RunsInv, GatesInv

\* A request loads its row.
LEMMA RequestStep ==
    ASSUME CInv, NEW q \in Editors,
           \/ AgentDefinitionRequest(q)
           \/ \E v \in AgentVersions : ToolBindingRequest(q, v) \/ AgentRunRequest(q, v)
           \/ \E p \in Policies : PolicyRequest(q, p)
           \/ \E v \in PolicyVersions : PolicyRuleRequest(q, v)
    PROVE  CInv'
<1>1. PICK op, row, status :
         /\ ConfigurationRequest(q, op, row, status)
         /\ op \in {"update_agent", "bind", "run", "update_policy", "add_rule"}
         /\ op = "run" => row \in AgentVersions /\ status = agentVersion[row]
  BY DEF AgentDefinitionRequest, ToolBindingRequest, AgentRunRequest, PolicyRequest, PolicyRuleRequest
<1> DEFINE new == [op |-> op, on |-> row, copy |-> status]
<1>2. /\ edit' = [edit EXCEPT ![q] = new]
      /\ UNCHANGED <<agentVersion, started, policyVersion, gate>>
  BY <1>1 DEF ConfigurationRequest, agentConfigVars, policyVars
<1>3. PICK B : edit \in [Editors -> EditRows(B)]
  BY DEF CInv, ConfigurationTypeOK
<1> DEFINE C == B \cup {row, status}
<1>4. new \in EditRows(C) /\ EditRows(B) \subseteq EditRows(C)
  BY <1>1 DEF EditRows
<1>5. new.op = op /\ new.on = row /\ new.copy = status
  OBVIOUS
<1> HIDE DEF C, new, EditRows
<1>6. edit' \in [Editors -> EditRows(C)]
  BY <1>2, <1>3, <1>4
<1>7. \A o \in Editors : edit'[o] = IF o = q THEN new ELSE edit[o]
  BY <1>2, <1>3
<1>8. ConfigurationTypeOK'
  BY <1>2, <1>6 DEF CInv, ConfigurationTypeOK
<1>9. RunsInv' /\ GatesInv'
  BY <1>1, <1>2, <1>5, <1>7 DEF CInv, RunsInv, GatesInv
<1> QED
  BY <1>8, <1>9 DEF CInv

\* Agent versions: a draft is created, or published; a published one stays.
LEMMA AgentVersionStep ==
    ASSUME CInv, NEW v \in AgentVersions, create_agent_version(v) \/ publish_agent_version(v)
    PROVE  CInv'
<1>1. UNCHANGED <<started, policyVersion, edit, gate>>
  BY DEF create_agent_version, publish_agent_version, policyVars
<1>2. PICK s \in {"draft", "published"} : agentVersion' = [agentVersion EXCEPT ![v] = s]
  BY DEF create_agent_version, publish_agent_version
<1>3. agentVersion[v] # "published"
  BY DEF create_agent_version, publish_agent_version
<1>4. /\ agentVersion' \in [AgentVersions -> {"none", "draft", "published"}]
      /\ \A w \in AgentVersions : agentVersion[w] = "published" => agentVersion'[w] = "published"
  BY <1>2, <1>3 DEF CInv, ConfigurationTypeOK
<1>5. ConfigurationTypeOK'
  BY <1>1, <1>4 DEF CInv, ConfigurationTypeOK
<1>6. RunsInv' /\ GatesInv'
  BY <1>1, <1>4 DEF CInv, ConfigurationTypeOK, RunsInv, GatesInv
<1> QED
  BY <1>5, <1>6 DEF CInv

\* A run is created with the version its request loaded.
LEMMA RunStep ==
    ASSUME CInv, NEW q \in Editors, create_agent_run(q)
    PROVE  CInv'
<1>1. /\ edit[q].op = "run" /\ edit[q].copy = "published"
      /\ edit' = [edit EXCEPT ![q] = NoEdit]
      /\ started' = started \cup {edit[q].on}
      /\ UNCHANGED <<agentVersion, policyVersion, gate>>
  BY DEF create_agent_run, Acts, policyVars
<1>2. edit[q].on \in AgentVersions /\ agentVersion[edit[q].on] = "published"
  BY <1>1 DEF CInv, RunsInv
<1>3. /\ \E B : edit' \in [Editors -> EditRows(B)]
      /\ \A o \in Editors : edit'[o].op # "run" \/ edit'[o] = edit[o]
  BY <1>1, EditEnds
<1>4. ConfigurationTypeOK'
  BY <1>1, <1>2, <1>3 DEF CInv, ConfigurationTypeOK
<1>5. RunsInv' /\ GatesInv'
  BY <1>1, <1>2, <1>3 DEF CInv, RunsInv, GatesInv
<1> QED
  BY <1>4, <1>5 DEF CInv

-----------------------------------------------------------------------------
\* Policy versions are created from nothing and only go forward.
LEMMA PolicyVersionStep ==
    ASSUME CInv, NEW v \in PolicyVersions,
           publish_policy_version(v) \/ \E p \in Policies : create_policy_version(p, v)
    PROVE  CInv'
<1>1. UNCHANGED <<agentVersion, started, edit, gate>>
  BY DEF publish_policy_version, create_policy_version, agentConfigVars
<1> DEFINE Forward ==
              \A w \in PolicyVersions : policyVersion[w].status \in {"active", "superseded"} =>
                 /\ policyVersion'[w].status \in {"active", "superseded"}
                 /\ policyVersion'[w].policy = policyVersion[w].policy
<1>2. policyVersion' \in [PolicyVersions -> PolicyVersionRows] /\ Forward
  <2>1. ASSUME NEW p \in Policies, create_policy_version(p, v)
        PROVE  policyVersion' \in [PolicyVersions -> PolicyVersionRows] /\ Forward
    <3> DEFINE n == Cardinality(VersionsOf(p)) + 1
               new == [policy |-> p, number |-> n, status |-> "draft"]
    <3>1. VersionsOf(p) \subseteq PolicyVersions
      BY DEF VersionsOf
    <3>2. IsFiniteSet(VersionsOf(p))
      BY <3>1, ConfigurationAssumption, FS_Subset
    <3>3. Cardinality(VersionsOf(p)) \in Nat
      BY <3>2, FS_CardinalityType
    <3>4. n \in Nat
      BY <3>3
    <3> HIDE DEF n
    <3>5. new \in PolicyVersionRows
      BY <3>4 DEF PolicyVersionRows
    <3>6. policyVersion' = [policyVersion EXCEPT ![v] = new]
      BY <2>1 DEF create_policy_version, n
    <3>7. policyVersion[v].status = "none"
      BY <2>1 DEF create_policy_version, NoPolicyVersion
    <3> HIDE DEF new
    <3> QED
      BY <3>5, <3>6, <3>7 DEF CInv, ConfigurationTypeOK
  <2>2. CASE publish_policy_version(v)
    <3>1. ASSUME NEW w \in PolicyVersions
          PROVE  /\ policyVersion'[w] \in PolicyVersionRows
                 /\ policyVersion[w].status \in {"active", "superseded"} =>
                       policyVersion'[w].status \in {"active", "superseded"}
                 /\ policyVersion'[w].policy = policyVersion[w].policy
      <4>1. policyVersion[w] \in PolicyVersionRows
        BY DEF CInv, ConfigurationTypeOK
      <4>2. CASE policyVersion'[w] = policyVersion[w]
        BY <4>1, <4>2
      <4>3. ASSUME NEW s \in {"active", "superseded"}, policyVersion'[w] = [policyVersion[w] EXCEPT !.status = s]
            PROVE  /\ policyVersion'[w] \in PolicyVersionRows
                   /\ policyVersion'[w].status = s
                   /\ policyVersion'[w].policy = policyVersion[w].policy
        BY <4>1, <4>3 DEF PolicyVersionRows
      <4> QED
        BY <2>2, <4>2, <4>3 DEF publish_policy_version
    <3>2. Forward
      BY <3>1
    <3>3. policyVersion' \in [PolicyVersions -> PolicyVersionRows]
      BY <2>2, <3>1 DEF publish_policy_version
    <3> QED
      BY <3>2, <3>3
  <2> QED
    BY <2>1, <2>2
<1>3. ConfigurationTypeOK'
  BY <1>1, <1>2 DEF CInv, ConfigurationTypeOK
<1>4. RunsInv' /\ GatesInv'
  BY <1>1, <1>2 DEF CInv, RunsInv, GatesInv
<1> QED
  BY <1>3, <1>4 DEF CInv

\* The three steps of an evaluation: what it holds was active when it was read.
LEMMA GateStep ==
    ASSUME CInv, NEW g \in Gates,
           \/ resolve_active_policy(g) \/ resolve_active_version(g)
           \/ \E a \in GateCalls : run_policy_gate(g, a)
    PROVE  CInv'
<1>1. UNCHANGED <<agentVersion, started, policyVersion, edit>>
  BY DEF resolve_active_policy, resolve_active_version, run_policy_gate, agentConfigVars
<1>2. PICK B : gate \in [Gates -> GateRows(B)]
  BY DEF CInv, ConfigurationTypeOK
<1>3. ASSUME NEW C, NEW new \in GateRows(C), GateRows(B) \subseteq GateRows(C),
             gate' = [gate EXCEPT ![g] = new],
             new.pc \in {"idle", "policy"} => new.version = NoVersion,
             new.version # NoVersion =>
                /\ new.version \in PolicyVersions
                /\ policyVersion[new.version].status \in {"active", "superseded"}
                /\ policyVersion[new.version].policy = new.policy
      PROVE  CInv'
  <2> HIDE DEF GateRows
  <2>1. gate' \in [Gates -> GateRows(C)] /\ \A h \in Gates : gate'[h] = IF h = g THEN new ELSE gate[h]
    BY <1>2, <1>3
  <2>2. ConfigurationTypeOK'
    BY <1>1, <2>1 DEF CInv, ConfigurationTypeOK
  <2>3. RunsInv'
    BY <1>1 DEF CInv, RunsInv
  <2>4. GatesInv'
    BY <1>1, <1>3, <2>1 DEF CInv, GatesInv
  <2> QED
    BY <2>2, <2>3, <2>4 DEF CInv
<1>4. gate[g] \in GateRows(B)
  BY <1>2
<1>5. CASE resolve_active_policy(g)
  <2>1. gate[g].version = NoVersion
    BY <1>5 DEF resolve_active_policy, CInv, GatesInv
  <2>2. PICK new : /\ gate' = [gate EXCEPT ![g] = new] /\ new \in GateRows(B)
                   /\ new.version = gate[g].version
    <3>1. CASE \E p \in Policies : gate' = [gate EXCEPT ![g].pc = "policy", ![g].policy = p]
      <4>1. PICK p \in Policies : gate' = [gate EXCEPT ![g].pc = "policy", ![g].policy = p]
        BY <3>1
      <4> DEFINE new == [gate[g] EXCEPT !.pc = "policy", !.policy = p]
      <4>2. new \in GateRows(B) /\ new.version = gate[g].version
        BY <1>4 DEF GateRows
      <4>3. gate' = [gate EXCEPT ![g] = new]
        BY <1>2, <4>1
      <4> HIDE DEF new
      <4> QED
        BY <4>2, <4>3
    <3>2. CASE gate' = [gate EXCEPT ![g].pc = "rules"]
      <4> DEFINE new == [gate[g] EXCEPT !.pc = "rules"]
      <4>1. new \in GateRows(B) /\ new.version = gate[g].version
        BY <1>4 DEF GateRows
      <4>2. gate' = [gate EXCEPT ![g] = new]
        BY <3>2
      <4> HIDE DEF new
      <4> QED
        BY <4>1, <4>2
    <3> QED
      BY <1>5, <3>1, <3>2 DEF resolve_active_policy
  <2> QED
    BY <1>3, <2>1, <2>2
<1>6. CASE resolve_active_version(g)
  <2>1. gate[g].version = NoVersion
    BY <1>6 DEF resolve_active_version, CInv, GatesInv
  <2>2. ASSUME NEW v \in VersionsOf(gate[g].policy), policyVersion[v].status = "active",
               gate' = [gate EXCEPT ![g].pc = "rules", ![g].version = v]
        PROVE  CInv'
    <3> DEFINE new == [gate[g] EXCEPT !.pc = "rules", !.version = v]
    <3>1. v \in PolicyVersions /\ policyVersion[v].policy = gate[g].policy
      BY <2>2 DEF VersionsOf
    <3>2. /\ new \in GateRows(B) /\ new.pc = "rules" /\ new.version = v
          /\ new.policy = gate[g].policy
      BY <1>4, <3>1 DEF GateRows
    <3>3. gate' = [gate EXCEPT ![g] = new]
      BY <1>2, <2>2
    <3> HIDE DEF new
    <3> QED
      BY <1>3, <2>2, <3>1, <3>2, <3>3
  <2>3. CASE gate' = [gate EXCEPT ![g].pc = "rules"]
    <3> DEFINE new == [gate[g] EXCEPT !.pc = "rules"]
    <3>1. new \in GateRows(B) /\ new.version = NoVersion
      BY <1>4, <2>1 DEF GateRows
    <3>2. gate' = [gate EXCEPT ![g] = new]
      BY <2>3
    <3> HIDE DEF new
    <3> QED
      BY <1>3, <3>1, <3>2
  <2> QED
    BY <1>6, <2>2, <2>3 DEF resolve_active_version
<1>7. ASSUME NEW a \in GateCalls, run_policy_gate(g, a) PROVE CInv'
  <2> DEFINE ver == gate[g].version
             d == evaluate_policy(a, IF ver = NoVersion THEN NoVersion ELSE RulesOf(ver))
             by == IF d.by = "failure" THEN NoVersion ELSE ver
  <2>1. PICK pc \in {"recorded", "rolled back"}, v \in {gate[g].version, NoVersion},
             x \in {d.by}, y \in {d.decision, gate[g].decision} :
           gate' = [gate EXCEPT ![g].pc = pc, ![g].version = v, ![g].by = x, ![g].decision = y]
    <3>1. \/ gate' = [gate EXCEPT ![g].pc = "recorded", ![g].version = by, ![g].by = d.by,
                                  ![g].decision = d.decision]
          \/ gate' = [gate EXCEPT ![g].pc = "rolled back", ![g].version = NoVersion, ![g].by = d.by]
      BY <1>7 DEF run_policy_gate
    <3>2. by \in {gate[g].version, NoVersion}
      OBVIOUS
    <3> HIDE DEF d, by
    <3>3. CASE gate' = [gate EXCEPT ![g].pc = "recorded", ![g].version = by, ![g].by = d.by,
                                    ![g].decision = d.decision]
      BY <3>2, <3>3
    <3>4. CASE gate' = [gate EXCEPT ![g].pc = "rolled back", ![g].version = NoVersion, ![g].by = d.by]
      <4>1. gate' = [gate EXCEPT ![g].pc = "rolled back", ![g].version = NoVersion, ![g].by = d.by,
                                 ![g].decision = gate[g].decision]
        BY <1>2, <1>4, <3>4 DEF GateRows
      <4> QED
        BY <4>1
    <3> QED
      BY <3>1, <3>3, <3>4
  <2> DEFINE C == B \cup {x, y}
             new == [gate[g] EXCEPT !.pc = pc, !.version = v, !.by = x, !.decision = y]
  <2>2. /\ new \in GateRows(C) /\ new.pc = pc /\ new.version = v /\ new.policy = gate[g].policy
        /\ GateRows(B) \subseteq GateRows(C)
    BY <1>4 DEF GateRows
  <2>3. gate' = [gate EXCEPT ![g] = new]
    BY <1>2, <2>1
  <2> HIDE DEF new, C, d, by, ver
  <2>4. v # NoVersion => /\ v \in PolicyVersions
                         /\ policyVersion[v].status \in {"active", "superseded"}
                         /\ policyVersion[v].policy = gate[g].policy
    <3>1. CASE v = gate[g].version
      BY <3>1 DEF CInv, GatesInv
    <3> QED
      BY <2>1, <3>1
  <2> QED
    BY <1>3, <2>2, <2>3, <2>4
<1> QED
  BY <1>5, <1>6, <1>7

-----------------------------------------------------------------------------
\* Every step keeps the invariant.
LEMMA ConfigurationInductive ==
    CInv /\ [AgentConfigurationNext \/ PolicyNext]_configurationVars => CInv'
<1> SUFFICES ASSUME CInv, [AgentConfigurationNext \/ PolicyNext]_configurationVars PROVE CInv'
  OBVIOUS
<1>1. CASE UNCHANGED configurationVars
  BY <1>1, NothingOfInterest DEF configurationVars, agentConfigVars, policyVars
<1>2. ASSUME NEW q \in Editors,
             \/ update_agent_definition(q) \/ update_policy(q) \/ AbortEdit(q)
             \/ \E t \in BoundTools : create_tool_binding(q, t)
                                      \/ \E s \in {"on", "off"} : set_tool_binding_enabled(q, t, s)
             \/ \E n \in Priorities, r \in RulePalette : add_policy_rule(q, n, r)
      PROVE  CInv'
  <2>1. edit' = [edit EXCEPT ![q] = NoEdit] /\ UNCHANGED <<agentVersion, started, policyVersion, gate>>
    BY <1>2 DEF update_agent_definition, update_policy, AbortEdit, create_tool_binding,
                set_tool_binding_enabled, add_policy_rule, Acts, agentConfigVars, policyVars
  <2> QED
    BY <2>1, EditOnly
<1>3. ASSUME \/ create_agent_definition
             \/ \E enabled \in SUBSET BoundTools : sync_tool_definitions(enabled)
             \/ \E p \in Policies : create_policy(p) \/ activate_policy(p) \/ deactivate_policy(p)
      PROVE  CInv'
  <2>1. UNCHANGED <<agentVersion, started, policyVersion, edit, gate>>
    BY <1>3 DEF create_agent_definition, sync_tool_definitions, create_policy, activate_policy,
                deactivate_policy, agentConfigVars, policyVars
  <2> QED
    BY <2>1, NothingOfInterest
<1>4. CASE AgentConfigurationNext
  BY <1>2, <1>3, <1>4, RequestStep, AgentVersionStep, RunStep DEF AgentConfigurationNext
<1>5. CASE PolicyNext
  BY <1>2, <1>3, <1>5, RequestStep, PolicyVersionStep, GateStep DEF PolicyNext
<1> QED
  BY <1>1, <1>4, <1>5

\* Whatever is published, superseded, deactivated or edited between the reads and the write
\* of a request or of the policy gate, a run starts only with a published agent version and
\* the gate records a version of a policy only if it was published for that policy.
THEOREM PublishedVersionsGovern == ConfigurationSpec => []OnlyPublishedGoverns
BY ConfigurationInitial, ConfigurationInductive, CInvImplies, PTL DEF ConfigurationSpec

------------------------------------------------------------------------------
(***************************************************************************)
(* PolicyEvaluation: what a further rule, and a larger amount, do to the   *)
(* decision, for any rules, calls and thresholds.                          *)
(***************************************************************************)


LEMMA EffectPrecedence ==
    /\ POLICY_EFFECT_PRECEDENCE[1] = "deny"
    /\ POLICY_EFFECT_PRECEDENCE[2] = "require_approval"
    /\ POLICY_EFFECT_PRECEDENCE[3] = "allow"
BY DEF POLICY_EFFECT_PRECEDENCE

LEMMA StrictnessOf ==
    /\ Strictness("allow") = 1
    /\ Strictness("require_approval") = 2
    /\ Strictness("deny") = 3
<1> DEFINE P(i) == POLICY_EFFECT_PRECEDENCE[4 - i]
<1>1. P(1) = "allow" /\ P(2) = "require_approval" /\ P(3) = "deny"
  BY EffectPrecedence
<1>2. \A i \in 1..3 : i = 1 \/ i = 2 \/ i = 3
  OBVIOUS
<1> QED
  BY <1>1, <1>2 DEF Strictness

\* The winning effect is the effect of a matched rule, and none of them is stricter.
LEMMA WinningEffect ==
    ASSUME NEW rules, NEW matched, \A i \in matched : rules[i].effect \in PolicyEffect,
           matched # {}
    PROVE  /\ \E i \in matched : rules[i].effect = winning_effect(rules, matched)
           /\ \A i \in matched :
                 Strictness(winning_effect(rules, matched)) >= Strictness(rules[i].effect)
<1> DEFINE present == {rules[i].effect : i \in matched}
           Wins(i) == /\ POLICY_EFFECT_PRECEDENCE[i] \in present
                      /\ \A j \in 1..(i - 1) : POLICY_EFFECT_PRECEDENCE[j] \notin present
           first == CHOOSE i \in 1..3 : Wins(i)
<1>1. present \subseteq PolicyEffect /\ present # {}
  OBVIOUS
<1>2. \E i \in 1..3 : Wins(i)
  <2>1. CASE "deny" \in present
    <3>1. Wins(1)
      BY <2>1, EffectPrecedence
    <3> QED
      BY <3>1
  <2>2. CASE "deny" \notin present /\ "require_approval" \in present
    <3>1. \A j \in 1..(2 - 1) : j = 1
      OBVIOUS
    <3>2. Wins(2)
      BY <2>2, <3>1, EffectPrecedence
    <3> QED
      BY <3>2
  <2>3. CASE "deny" \notin present /\ "require_approval" \notin present
    <3>1. \A j \in 1..(3 - 1) : j = 1 \/ j = 2
      OBVIOUS
    <3>2. "allow" \in present
      BY <1>1, <2>3 DEF PolicyEffect
    <3>3. Wins(3)
      BY <2>3, <3>1, <3>2, EffectPrecedence
    <3> QED
      BY <3>3
  <2> QED
    BY <2>1, <2>2, <2>3
<1>3. first \in 1..3 /\ Wins(first)
  BY <1>2
<1>4. winning_effect(rules, matched) = POLICY_EFFECT_PRECEDENCE[first]
  BY DEF winning_effect
<1>5. POLICY_EFFECT_PRECEDENCE[first] \in present
  BY <1>3
<1>6. ASSUME NEW e \in present
      PROVE  Strictness(POLICY_EFFECT_PRECEDENCE[first]) >= Strictness(e)
  <2>1. CASE first = 1
    BY <1>1, <2>1, EffectPrecedence, StrictnessOf DEF PolicyEffect
  <2>2. CASE first = 2
    <3>1. e # "deny"
      BY <1>3, <2>2, EffectPrecedence
    <3> QED
      BY <1>1, <2>2, <3>1, EffectPrecedence, StrictnessOf DEF PolicyEffect
  <2>3. CASE first = 3
    <3>1. e # "deny" /\ e # "require_approval"
      BY <1>3, <2>3, EffectPrecedence
    <3> QED
      BY <1>1, <2>3, <3>1, EffectPrecedence, StrictnessOf DEF PolicyEffect
  <2> QED
    BY <1>3, <2>1, <2>2, <2>3
<1> HIDE DEF first
<1> QED
  BY <1>4, <1>5, <1>6

\* What a version decides.
LEMMA VersionDecides ==
    ASSUME NEW a, NEW rules, rules # NoVersion
    PROVE  LET d == evaluate_policy(a, rules)
               raises == \E i \in DOMAIN rules : RuleRaises(rules[i], a)
           IN  /\ raises => d.decision = "deny"
               /\ ~raises /\ Matched(rules, a) = {} => d.by = "fallback"
               /\ ~raises /\ Matched(rules, a) # {} =>
                     d.decision = winning_effect(rules, Matched(rules, a))
BY DEF evaluate_policy, Decision

\* The rules with one more after the first k.
Longer(rules, extra, k) == SubSeq(rules, 1, k) \o <<extra>> \o SubSeq(rules, k + 1, Len(rules))

\* Every element of two sequences is one of their concatenation.
LEMMA Concatenated ==
    ASSUME NEW S, NEW p \in Seq(S), NEW q \in Seq(S)
    PROVE  /\ p \o q \in Seq(S)
           /\ \A i \in DOMAIN p : \E j \in DOMAIN (p \o q) : (p \o q)[j] = p[i]
           /\ \A i \in DOMAIN q : \E j \in DOMAIN (p \o q) : (p \o q)[j] = q[i]
<1>1. /\ Len(p) \in Nat /\ Len(q) \in Nat /\ p \o q \in Seq(S)
      /\ DOMAIN p = 1..Len(p) /\ DOMAIN q = 1..Len(q)
      /\ DOMAIN (p \o q) = 1..(Len(p) + Len(q))
  BY ConcatProperties
<1>2. ASSUME NEW i \in DOMAIN p PROVE \E j \in DOMAIN (p \o q) : (p \o q)[j] = p[i]
  <2>1. i \in 1..(Len(p) + Len(q)) /\ i <= Len(p)
    BY <1>1
  <2> QED
    BY <1>1, <2>1, ConcatProperties
<1>3. ASSUME NEW i \in DOMAIN q PROVE \E j \in DOMAIN (p \o q) : (p \o q)[j] = q[i]
  <2>1. /\ Len(p) + i \in 1..(Len(p) + Len(q)) /\ ~(Len(p) + i <= Len(p))
        /\ Len(p) + i - Len(p) = i
    BY <1>1
  <2> QED
    BY <1>1, <2>1, ConcatProperties
<1> QED
  BY <1>1, <1>2, <1>3

\* Every rule of a version is a rule of the longer one.
LEMMA RulesKept ==
    ASSUME NEW S, NEW rules \in Seq(S), NEW extra \in S, NEW k \in 0..Len(rules)
    PROVE  /\ Longer(rules, extra, k) \in Seq(S)
           /\ \A i \in DOMAIN rules :
                 \E j \in DOMAIN Longer(rules, extra, k) : Longer(rules, extra, k)[j] = rules[i]
<1>1. PICK head : head = SubSeq(rules, 1, k)
  OBVIOUS
<1>2. PICK tail : tail = SubSeq(rules, k + 1, Len(rules))
  OBVIOUS
<1>3. PICK front : front = head \o <<extra>>
  OBVIOUS
<1>4. PICK longer : longer = front \o tail
  OBVIOUS
<1>5. Longer(rules, extra, k) = longer
  BY <1>1, <1>2, <1>3, <1>4 DEF Longer
<1>6. Len(rules) \in Nat /\ k \in Nat /\ k <= Len(rules) /\ DOMAIN rules = 1..Len(rules)
  OBVIOUS
<1>7. head \in Seq(S) /\ DOMAIN head = 1..k /\ \A i \in 1..k : head[i] = rules[i]
  BY <1>1, <1>6
<1>8. /\ tail \in Seq(S) /\ DOMAIN tail = 1..(Len(rules) - k)
      /\ \A i \in 1..(Len(rules) - k) : tail[i] = rules[k + i]
  BY <1>2, <1>6
<1>9. <<extra>> \in Seq(S)
  OBVIOUS
<1>10. front \in Seq(S) /\ \A i \in DOMAIN head : \E j \in DOMAIN front : front[j] = head[i]
  BY <1>3, <1>7, <1>9, Concatenated
<1>11. /\ longer \in Seq(S)
       /\ \A i \in DOMAIN front : \E j \in DOMAIN longer : longer[j] = front[i]
       /\ \A i \in DOMAIN tail : \E j \in DOMAIN longer : longer[j] = tail[i]
  <2>1. tail \in Seq(S) /\ front \in Seq(S)
    BY <1>8, <1>10
  <2>2. longer \in Seq(S)
    BY <1>4, <2>1, Concatenated
  <2>3. ASSUME NEW i \in DOMAIN front PROVE \E j \in DOMAIN longer : longer[j] = front[i]
    <3>1. \E j \in DOMAIN (front \o tail) : (front \o tail)[j] = front[i]
      BY <2>1, Concatenated
    <3> QED
      BY <1>4, <3>1, Zenon
  <2>4. ASSUME NEW i \in DOMAIN tail PROVE \E j \in DOMAIN longer : longer[j] = tail[i]
    <3>1. \E j \in DOMAIN (front \o tail) : (front \o tail)[j] = tail[i]
      BY <2>1, Concatenated
    <3> QED
      BY <1>4, <3>1, Zenon
  <2> QED
    BY <2>2, <2>3, <2>4
<1>12. ASSUME NEW i \in DOMAIN rules PROVE \E j \in DOMAIN longer : longer[j] = rules[i]
  <2>1. CASE i <= k
    <3>1. i \in DOMAIN head /\ head[i] = rules[i]
      BY <1>6, <1>7, <2>1
    <3> QED
      BY <1>10, <1>11, <3>1
  <2>2. CASE i > k
    <3>1. i - k \in 1..(Len(rules) - k) /\ k + (i - k) = i
      BY <1>6, <2>2
    <3>2. i - k \in DOMAIN tail /\ tail[i - k] = rules[i]
      BY <1>8, <3>1
    <3> QED
      BY <1>11, <3>2
  <2> QED
    BY <1>6, <2>1, <2>2
<1> QED
  BY <1>5, <1>11, <1>12

\* A version that has every rule of another decides no less strictly, unless the other had
\* to fall back on the default.
LEMMA MoreRules ==
    ASSUME NEW S, \A r \in S : r.effect \in PolicyEffect, NEW a,
           NEW rules \in Seq(S), rules # NoVersion, NEW longer \in Seq(S), longer # NoVersion,
           \A i \in DOMAIN rules : \E j \in DOMAIN longer : longer[j] = rules[i],
           NEW before, before = evaluate_policy(a, rules), before.by # "fallback",
           NEW after, after = evaluate_policy(a, longer)
    PROVE  Strictness(after.decision) >= Strictness(before.decision)
<1>1. PICK m : m = Matched(rules, a)
  OBVIOUS
<1>2. PICK n : n = Matched(longer, a)
  OBVIOUS
<1>3. /\ \A i \in m : rules[i].effect \in PolicyEffect
      /\ \A i \in n : longer[i].effect \in PolicyEffect
  BY <1>1, <1>2 DEF Matched
<1>4. CASE \E i \in DOMAIN longer : RuleRaises(longer[i], a)
  <2>1. after.decision = "deny"
    BY <1>4, VersionDecides
  <2>2. before.decision \in PolicyEffect
    <3>1. CASE \E i \in DOMAIN rules : RuleRaises(rules[i], a)
      <4>1. before.decision = "deny"
        BY <3>1, VersionDecides
      <4> QED
        BY <4>1 DEF PolicyEffect
    <3>2. CASE ~\E i \in DOMAIN rules : RuleRaises(rules[i], a)
      <4>1. m # {} /\ before.decision = winning_effect(rules, m)
        BY <1>1, <3>2, VersionDecides
      <4>2. \E i \in m : rules[i].effect = winning_effect(rules, m)
        BY <1>3, <4>1, WinningEffect
      <4> QED
        BY <1>3, <4>1, <4>2, Zenon
    <3> QED
      BY <3>1, <3>2
  <2>3. \A e \in PolicyEffect : Strictness("deny") >= Strictness(e)
    BY StrictnessOf DEF PolicyEffect
  <2> QED
    BY <2>1, <2>2, <2>3, Zenon
<1>5. CASE ~\E i \in DOMAIN longer : RuleRaises(longer[i], a)
  <2>1. ~\E i \in DOMAIN rules : RuleRaises(rules[i], a)
    BY <1>5
  <2>2. m # {} /\ before.decision = winning_effect(rules, m)
    BY <1>1, <2>1, VersionDecides
  <2>3. PICK i \in m : rules[i].effect = winning_effect(rules, m)
    BY <1>3, <2>2, WinningEffect
  <2>4. PICK j \in DOMAIN longer : longer[j] = rules[i]
    BY <1>1 DEF Matched
  <2>5. j \in n
    BY <1>1, <1>2, <2>4 DEF Matched
  <2>6. after.decision = winning_effect(longer, n)
    BY <1>2, <1>5, <2>5, VersionDecides
  <2>7. Strictness(winning_effect(longer, n)) >= Strictness(longer[j].effect)
    BY <1>3, <2>5, WinningEffect
  <2> QED
    BY <2>2, <2>3, <2>4, <2>6, <2>7, Zenon
<1> QED
  BY <1>4, <1>5

\* StricterWithMoreRules for every call, every list of rules with effects of PolicyEffect
\* and every further rule: evaluate_policy and POLICY_EFFECT_PRECEDENCE never let a rule
\* weaken what the others decide.
THEOREM MoreRulesAreStricter ==
    ASSUME NEW S, \A r \in S : r.effect \in PolicyEffect, NoVersion \notin Seq(S),
           NEW s, s.rules \in Seq(S), s.extra \in S
    PROVE  StricterWithMoreRules(s)
<1>1. ASSUME evaluate_policy(s.call, s.rules).by # "fallback", NEW k \in 0..Len(s.rules)
      PROVE  Strictness(evaluate_policy(s.call, Longer(s.rules, s.extra, k)).decision)
                 >= Strictness(evaluate_policy(s.call, s.rules).decision)
  <2>1. PICK rules \in Seq(S) : rules = s.rules
    OBVIOUS
  <2>2. PICK extra \in S : extra = s.extra
    OBVIOUS
  <2>3. k \in 0..Len(rules)
    BY <2>1
  <2>4. PICK longer : longer = Longer(rules, extra, k)
    OBVIOUS
  <2>5. /\ longer \in Seq(S)
        /\ \A i \in DOMAIN rules : \E j \in DOMAIN longer : longer[j] = rules[i]
    BY <2>3, <2>4, RulesKept
  <2>6. rules # NoVersion /\ longer # NoVersion
    BY <2>5
  <2>7. PICK before : before = evaluate_policy(s.call, rules)
    OBVIOUS
  <2>8. PICK after : after = evaluate_policy(s.call, longer)
    OBVIOUS
  <2>9. before.by # "fallback"
    BY <1>1, <2>1, <2>7
  <2>10. Strictness(after.decision) >= Strictness(before.decision)
    BY <2>5, <2>6, <2>7, <2>8, <2>9, MoreRules
  <2> QED
    BY <2>1, <2>2, <2>4, <2>7, <2>8, <2>10, Zenon
<1> QED
  BY <1>1 DEF StricterWithMoreRules, Longer

LEMMA RiskOrder ==
    /\ RISK_ORDER("medium") = 3 /\ RISK_ORDER("high") = 4 /\ RISK_ORDER("critical") = 5
    /\ RiskLevels[4] = "high" /\ RiskLevels[5] = "critical"
<1>1. /\ RiskLevels[1] = "read_only" /\ RiskLevels[2] = "low" /\ RiskLevels[3] = "medium"
      /\ RiskLevels[4] = "high" /\ RiskLevels[5] = "critical"
  BY DEF RiskLevels
<1>2. \A i \in 1..5 : i = 1 \/ i = 2 \/ i = 3 \/ i = 4 \/ i = 5
  OBVIOUS
<1> QED
  BY <1>1, <1>2 DEF RISK_ORDER

LEMMA Bump ==
    bump("medium") = "high" /\ bump("high") = "critical" /\ bump("critical") = "critical"
BY RiskOrder DEF bump

LEMMA Ranks ==
    /\ RoleRank(NoRole) = 0 /\ RoleRank("SUPPORT_MANAGER") = 1
    /\ RoleRank("ADMIN") = 2 /\ RoleRank("OWNER") = 3
<1> DEFINE Roles4 == <<NoRole, "SUPPORT_MANAGER", "ADMIN", "OWNER">>
<1>1. /\ Roles4[1] = NoRole /\ Roles4[2] = "SUPPORT_MANAGER"
      /\ Roles4[3] = "ADMIN" /\ Roles4[4] = "OWNER"
  OBVIOUS
<1> HIDE DEF Roles4
<1>0. NoRole \notin {"SUPPORT_MANAGER", "ADMIN", "OWNER"}
  BY Zenon DEF NoRole
<1>2. ASSUME NEW i \in 0..3
      PROVE  /\ Roles4[i + 1] = NoRole <=> i = 0
             /\ Roles4[i + 1] = "SUPPORT_MANAGER" <=> i = 1
             /\ Roles4[i + 1] = "ADMIN" <=> i = 2
             /\ Roles4[i + 1] = "OWNER" <=> i = 3
  <2>1. i = 0 \/ i = 1 \/ i = 2 \/ i = 3
    OBVIOUS
  <2> QED
    BY <1>0, <1>1, <2>1
<1>3. /\ RoleRank(NoRole) = CHOOSE i \in 0..3 : Roles4[i + 1] = NoRole
      /\ RoleRank("SUPPORT_MANAGER") = CHOOSE i \in 0..3 : Roles4[i + 1] = "SUPPORT_MANAGER"
      /\ RoleRank("ADMIN") = CHOOSE i \in 0..3 : Roles4[i + 1] = "ADMIN"
      /\ RoleRank("OWNER") = CHOOSE i \in 0..3 : Roles4[i + 1] = "OWNER"
  BY DEF RoleRank, Roles4
<1>4. 0 \in 0..3 /\ 1 \in 0..3 /\ 2 \in 0..3 /\ 3 \in 0..3
  OBVIOUS
<1> HIDE DEF Roles4
<1>5. RoleRank(NoRole) = 0
  BY <1>2, <1>3, <1>4
<1>6. RoleRank("SUPPORT_MANAGER") = 1
  BY <1>2, <1>3, <1>4
<1>7. RoleRank("ADMIN") = 2
  BY <1>2, <1>3, <1>4
<1>8. RoleRank("OWNER") = 3
  BY <1>2, <1>3, <1>4
<1> QED
  BY <1>5, <1>6, <1>7, <1>8

LEMMA RequiredRoles ==
    /\ required_role_for_risk("medium") = "SUPPORT_MANAGER"
    /\ required_role_for_risk("high") = "ADMIN"
    /\ required_role_for_risk("critical") = "OWNER"
BY DEF required_role_for_risk

\* What is decided of a refund when there is no policy.
LEMMA RefundDecided ==
    ASSUME NEW a \in Refunds
    PROVE  LET d == evaluate_policy(a, NoVersion)
           IN  /\ d.decision = refund_default(a).decision
               /\ d.role = IF d.decision = "require_approval"
                           THEN required_role_for_risk(assess_risk(a)) ELSE NoRole
<1>1. evaluate_system_default(a) = refund_default(a)
  BY DEF evaluate_system_default, Refunds, RefundRisks
<1>2. \A decision : finalize(decision, <<>>, {}, a) =
         IF decision = "require_approval" THEN required_role_for_risk(assess_risk(a)) ELSE NoRole
  BY DEF finalize
<1> QED
  BY <1>1, <1>2, Zenon DEF evaluate_policy, Decision

\* StricterWithAmount for every refund that a tool of medium risk or above makes, every
\* larger amount and every setting of the thresholds: without a policy, neither the decision
\* nor the risk nor the approving role gets more lenient (policies/risk.py, defaults.py).
THEOREM LargerRefundsAreStricter ==
    ASSUME NEW s, s.call \in Refunds, s.larger \in Nat, s.larger >= s.call.amount
    PROVE  StricterWithAmount(s)
<1> DEFINE less == s.call
           more == [s.call EXCEPT !.amount = s.larger]
<1>1. /\ less \in Refunds /\ more \in Refunds
      /\ more.amount = s.larger /\ more.base = less.base /\ more.currency = less.currency
      /\ less.amount \in Nat /\ more.amount \in Nat /\ more.amount >= less.amount
  BY DEF Refunds
<1> HIDE DEF less, more
<1>2. ASSUME NEW x \in Refunds
      PROVE  assess_risk(x) = IF x.amount >= RiskBumpAmount THEN bump(x.base) ELSE x.base
  BY DEF assess_risk, Refunds, NoAmount
<1>3. less.base \in RefundRisks
  BY <1>1 DEF Refunds
<1>4. \A r \in RefundRisks : /\ RISK_ORDER(bump(r)) >= RISK_ORDER(r)
                             /\ bump(r) \in RefundRisks
  BY Bump, RiskOrder DEF RefundRisks
<1>5. /\ assess_risk(less) \in RefundRisks /\ assess_risk(more) \in RefundRisks
      /\ RISK_ORDER(assess_risk(more)) >= RISK_ORDER(assess_risk(less))
  <2>1. \A r \in RefundRisks : RISK_ORDER(r) \in Nat
    BY RiskOrder DEF RefundRisks
  <2> QED
    BY <1>1, <1>2, <1>3, <1>4, <2>1, PolicyAssumption
<1>6. Strictness(refund_default(more).decision) >= Strictness(refund_default(less).decision)
  <2> DEFINE D(x) == IF x.currency # "USD" THEN "require_approval"
                     ELSE IF x.amount <= AutoAllowMax THEN "allow"
                     ELSE IF x.amount <= ApprovalMax THEN "require_approval" ELSE "deny"
  <2>1. \A x \in Refunds : refund_default(x).decision = D(x)
    <3> SUFFICES ASSUME NEW x \in Refunds PROVE refund_default(x).decision = D(x)
      OBVIOUS
    <3>1. x.amount # NoAmount
      BY DEF Refunds, NoAmount
    <3> QED
      BY <3>1 DEF refund_default, Default
  <2>2. Strictness(D(more)) >= Strictness(D(less))
    BY <1>1, PolicyAssumption, StrictnessOf
  <2> HIDE DEF D
  <2> QED
    BY <1>1, <2>1, <2>2, Zenon
<1>7. \A p, q \in RefundRisks : RISK_ORDER(p) >= RISK_ORDER(q) =>
         RoleRank(required_role_for_risk(p)) >= RoleRank(required_role_for_risk(q))
  <2>1. \A r \in RefundRisks : /\ RISK_ORDER(r) \in Nat
                               /\ RoleRank(required_role_for_risk(r)) = RISK_ORDER(r) - 2
    BY RiskOrder, RequiredRoles, Ranks DEF RefundRisks
  <2> QED
    BY <2>1
<1>8. \A r \in RefundRisks : RoleRank(required_role_for_risk(r)) >= RoleRank(NoRole)
  BY RequiredRoles, Ranks DEF RefundRisks
<1> DEFINE small == evaluate_policy(less, NoVersion)
           large == evaluate_policy(more, NoVersion)
<1>9. /\ small.decision = refund_default(less).decision
      /\ large.decision = refund_default(more).decision
      /\ small.role = IF small.decision = "require_approval"
                      THEN required_role_for_risk(assess_risk(less)) ELSE NoRole
      /\ large.role = IF large.decision = "require_approval"
                      THEN required_role_for_risk(assess_risk(more)) ELSE NoRole
  BY <1>1, RefundDecided
<1> HIDE DEF small, large
<1>10. large.decision = "require_approval" => RoleRank(large.role) >= RoleRank(small.role)
  BY <1>5, <1>7, <1>8, <1>9
<1>11. Strictness(large.decision) >= Strictness(small.decision)
  BY <1>6, <1>9
<1> QED
  BY <1>5, <1>10, <1>11 DEF StricterWithAmount, less, more, small, large

\* Whatever call, rules of a version and further rule an evaluation is asked about, the
\* further rule weakens nothing: StricterRuleWins of the workspace run, for every judgement
\* (policies/evaluator.py evaluate_policy).
THEOREM StricterRuleAlwaysWins == JudgementSpec => []StricterRuleWins
<1> DEFINE Inv == judgement \in Judgements \cup {NoJudgement}
<1>1. JudgementInit => Inv
  BY DEF JudgementInit
<1>2. Inv /\ [UNCHANGED judgement]_judgement => Inv'
  OBVIOUS
<1>3. Inv => StricterRuleWins
  <2> SUFFICES ASSUME judgement \in Judgements PROVE StricterWithMoreRules(judgement)
    BY DEF StricterRuleWins
  <2>1. judgement.rules \in Seq(JudgedRules) /\ judgement.extra \in JudgedRules
    BY JudgementAssumption
  <2>2. (\A r \in JudgedRules : r.effect \in PolicyEffect) /\ NoVersion \notin Seq(JudgedRules)
    BY JudgementAssumption
  <2> QED
    BY <2>1, <2>2, MoreRulesAreStricter
<1> QED
  BY <1>1, <1>2, <1>3, PTL DEF JudgementSpec

\* Whatever refund an evaluation is asked about, a larger one is judged no more leniently:
\* LargerRefundIsStricter of the workspace run, for every judgement and every setting of the
\* thresholds (policies/risk.py assess_risk, policies/defaults.py).
THEOREM LargerRefundIsNeverEasier == JudgementSpec => []LargerRefundIsStricter
<1> DEFINE Inv == judgement \in Judgements \cup {NoJudgement}
<1>1. JudgementInit => Inv
  BY DEF JudgementInit
<1>2. Inv /\ [UNCHANGED judgement]_judgement => Inv'
  OBVIOUS
<1>3. Inv => LargerRefundIsStricter
  <2> SUFFICES ASSUME judgement \in Judgements, judgement.call.tool = "payment.refund"
               PROVE  StricterWithAmount(judgement)
    BY DEF LargerRefundIsStricter
  <2>1. /\ judgement.call \in Refunds /\ judgement.larger \in Nat
        /\ judgement.larger >= judgement.call.amount
    BY JudgementAssumption
  <2> QED
    BY <2>1, LargerRefundsAreStricter
<1> QED
  BY <1>1, <1>2, <1>3, PTL DEF JudgementSpec
==============================================================================
