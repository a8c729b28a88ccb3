CONSTANTS
    Deliveries = {d1, d2}
    Webhooks = {}
    Workers = {w1, w2}
    NoDelivery = NoDelivery
    MaxAttempts = 2
    RedriveAllowance = 1
    MaxRedrives = 0
    MaxFaults = 1
    Sources = {s1, s2}
    NoSource = NoSource
    Producers = {p1, p2}
SYMMETRY Symmetry
SPECIFICATION SnapshotSpec
INVARIANTS
    OneNotificationPerSource
    DeliveredWasSent
CHECK_DEADLOCK FALSE
