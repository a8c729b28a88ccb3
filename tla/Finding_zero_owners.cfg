SPECIFICATION MembershipSpec
CONSTANTS
    Users = {u1, u2}
    Calls = {r1, r2}
    NoUser = NoUser
    StaffRoles = {"SUPPORT_AGENT"}
INVARIANT NeverZeroOwners
