------------------------------ MODULE Membership ------------------------------
(***************************************************************************)
(* Members and ownership of one workspace (backend/workspaces).            *)
(*                                                                         *)
(* A request reads the caller's membership, then the target's, and acts on *)
(* those copies in a later transaction. Only the transfer of ownership     *)
(* locks the rows and reads them again; the other operations write their   *)
(* fields without looking. A request refused by a check, or whose process  *)
(* dies, ends without a change (AbortCall).                                    *)
(*                                                                         *)
(* The three roles below admin are equal here: StaffRoles stands for them. *)
(***************************************************************************)
CONSTANTS
    Users,
    Calls,        \* requests that can be in flight together
    NoUser,
    StaffRoles    \* the roles below admin

ASSUME MembershipAssumption ==
    /\ NoUser \notin Users
    /\ StaffRoles \cap {"none", "OWNER", "ADMIN"} = {}

VARIABLES
    member,   \* WorkspaceMembership of a user: its role ("none": no row) and is_active
    call      \* requests in flight: what they have read, then what they have decided

membershipVars == <<member, call>>

ASSIGNABLE_ROLES == {"ADMIN"} \cup StaffRoles
Roles == {"OWNER"} \cup ASSIGNABLE_ROLES
MEMBER_MANAGEMENT_ROLES == {"OWNER", "ADMIN"}
NoRow == [role |-> "none", active |-> FALSE]
Rows == {NoRow} \cup [role : Roles, active : BOOLEAN]
NoCall == [pc |-> "idle", op |-> "none", actor |-> NoUser, role |-> "none", target |-> NoUser,
           create |-> FALSE]
Operations == {"add", "change", "remove", "transfer"}

MembershipInit ==
    /\ member = [u \in Users |-> NoRow]
    /\ call = [p \in Calls |-> NoCall]

\* Constraint uniq_active_owner_per_ws of the table: a write against it fails.
UniqActiveOwner(rows) ==
    \A u, v \in Users :
        rows[u] = [role |-> "OWNER", active |-> TRUE] /\ rows[v] = rows[u] => u = v

can_manage_target_role(actor, target) ==
    \/ actor = "OWNER" /\ target # "OWNER"
    \/ actor = "ADMIN" /\ target \notin {"OWNER", "ADMIN"}

-----------------------------------------------------------------------------
create_workspace(u) ==
    /\ \A v \in Users : member[v] = NoRow
    /\ member' = [member EXCEPT ![u] = [role |-> "OWNER", active |-> TRUE]]
    /\ UNCHANGED call

\* The permission classes of the views: transfer is the owner's, the rest owner's or admin's.
Permitted(op, role) ==
    IF op = "transfer" THEN role = "OWNER" ELSE role \in MEMBER_MANAGEMENT_ROLES

\* WorkspaceScopedMixin reads the caller's active membership on every request.
check_permissions(p, u, op) ==
    /\ call[p].pc = "idle"
    /\ member[u].active
    /\ Permitted(op, member[u].role)
    /\ call' = [call EXCEPT ![p] = [NoCall EXCEPT !.pc = "allowed", !.op = op, !.role = member[u].role,
                                       !.actor = IF op = "transfer" THEN u ELSE NoUser]]
    /\ UNCHANGED member

\* The checks of the services, on the copies: the caller's role, the target's row, and
\* the role asked for (add and change).
MayAdd(actor, row, role) == can_manage_target_role(actor, role) /\ ~row.active
MayChange(actor, row, role) ==
    /\ row.role # "OWNER"
    /\ can_manage_target_role(actor, role) /\ can_manage_target_role(actor, row.role)
MayRemove(actor, row) == row.role # "OWNER" /\ can_manage_target_role(actor, row.role)

\* The target's row is read, active or not (add reads the row of the account, if any), and
\* the service decides. What it decided is written later.
get_workspace_member_or_404(p, u, role) ==
    LET c == call[p] row == member[u] IN
    /\ c.pc = "allowed"
    /\ c.op # "add" => row # NoRow
    /\ CASE c.op = "add" -> MayAdd(c.role, row, role)
         [] c.op = "change" -> MayChange(c.role, row, role)
         [] c.op = "remove" -> MayRemove(c.role, row)
         [] c.op = "transfer" -> row.active /\ u # c.actor
    /\ call' = [call EXCEPT ![p] = [pc |-> "decided", op |-> c.op, actor |-> c.actor, target |-> u,
                                    role |-> IF c.op \in {"add", "change"} THEN role ELSE "none",
                                    create |-> c.op = "add" /\ row = NoRow]]
    /\ UNCHANGED member

Decided(p, op) == call[p].pc = "decided" /\ call[p].op = op
EndCall(p) == call' = [call EXCEPT ![p] = NoCall]

\* A new row, or the inactive one again with a new role. Creating fails when the
\* account has got a row in the meantime.
add_workspace_member(p) ==
    /\ Decided(p, "add")
    /\ call[p].create => member[call[p].target] = NoRow
    /\ member' = [member EXCEPT ![call[p].target] = [role |-> call[p].role, active |-> TRUE]]
    /\ EndCall(p)

\* Only the role is written.
change_workspace_member_role(p) ==
    /\ Decided(p, "change")
    /\ member' = [member EXCEPT ![call[p].target].role = call[p].role]
    /\ EndCall(p)

\* Only is_active is written.
remove_workspace_member(p) ==
    /\ Decided(p, "remove")
    /\ member' = [member EXCEPT ![call[p].target].active = FALSE]
    /\ EndCall(p)

\* Mutation: the owner's role is not read again, for the table's constraint would refuse a
\* second owner.
transfer_workspace_ownership_unchecked(p) ==
    LET from == call[p].actor to == call[p].target IN
    /\ Decided(p, "transfer")
    /\ member[to].active
    /\ member' = [member EXCEPT ![from].role = "ADMIN", ![to].role = "OWNER"]
    /\ UniqActiveOwner(member')
    /\ EndCall(p)

\* Locks both rows and decides on what they hold now: demotes, then promotes.
transfer_workspace_ownership(p) ==
    LET from == call[p].actor to == call[p].target IN
    /\ Decided(p, "transfer")
    /\ member[from].role = "OWNER" /\ member[to].active
    /\ member' = [member EXCEPT ![from].role = "ADMIN", ![to].role = "OWNER"]
    /\ UniqActiveOwner(member')
    /\ EndCall(p)

\* The request is refused by a check, or its process dies.
AbortCall(p) == call[p].pc # "idle" /\ EndCall(p) /\ UNCHANGED member

MembershipNext ==
    \/ \E u \in Users : create_workspace(u)
    \/ \E p \in Calls :
          \/ \E u \in Users :
                \/ \E op \in Operations : check_permissions(p, u, op)
                \/ \E role \in ASSIGNABLE_ROLES : get_workspace_member_or_404(p, u, role)
          \/ add_workspace_member(p) \/ change_workspace_member_role(p)
          \/ remove_workspace_member(p) \/ transfer_workspace_ownership(p) \/ AbortCall(p)

MembershipSpec == MembershipInit /\ [][MembershipNext]_membershipVars

-----------------------------------------------------------------------------
MembershipTypeOK ==
    /\ member \in [Users -> Rows]
    /\ call \in [Calls -> [pc : {"idle", "allowed", "decided"}, op : Operations \cup {"none"},
                           actor : Users \cup {NoUser}, role : Roles \cup {"none"},
                           target : Users \cup {NoUser}, create : BOOLEAN]]

\* At most one membership has the role of owner, counting deactivated ones, whatever
\* requests overlap: transfer_workspace_ownership reads the owner's row again under the
\* lock and demotes it, so no second owner is ever left to the table's constraint, which
\* does not see inactive rows.
SoleOwner == \A u, v \in Users : member[u].role = "OWNER" /\ member[v].role = "OWNER" => u = v

\* What backend/workspaces/models.py promises: a workspace that exists has an active
\* owner after every operation. Not so: change_workspace_member_role and
\* remove_workspace_member write what they decided on a copy made before a transfer.
NeverZeroOwners ==
    (\E u \in Users : member[u] # NoRow) =>
        \E u \in Users : member[u] = [role |-> "OWNER", active |-> TRUE]
=============================================================================
