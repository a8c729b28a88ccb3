SPECIFICATION MCSpec
CONSTANTS
    Parts = {"calls"}
    Customers = {k1, k2}
    Conversations = {v1}
    Tickets = {t1}
    Handoffs = {h1, h2}
    ExternalIds = {x1}
    boss = boss
    ann = ann
    bob = bob
    Members = {boss, ann, bob}
    RoleOf <- Staff
    Requests = {p1, p2}
    NoId = NoId
    Nobody = Nobody
    Nothing = Nothing
    Users = {u1, u2, u3}
    Calls = {r1, r2, r3}
    r1 = r1
    r2 = r2
    r3 = r3
    NoUser = NoUser
    StaffRoles = {"SUPPORT_AGENT"}
    RiskBumpAmount = 3
    AutoAllowMax = 2
    ApprovalMax = 4
    NoVersion = NoVersion
    AgentVersions = {a1, a2}
    BoundTools = {b1}
    Policies = {y1, y2}
    PolicyVersions = {z1, z2}
    Priorities = {1}
    RulePalette <- Written
    GateCalls <- Asked
    Editors = {q1}
    Gates = {g1}
    NoRule = NoRule
    NoPolicy = NoPolicy
    NoTarget = NoTarget
    Callers = {c1, c2}
    c1 = c1
    c2 = c2
    Admins = {d1}
    CalledTools = {"calendar.create_booking", "ticket.create"}
    MaxVersion = 2
    JudgedRules <- Sampled
    Judgements <- Samples
    NoJudgement = NoJudgement
INVARIANT OutageIsSafeToRetry
CHECK_DEADLOCK FALSE
