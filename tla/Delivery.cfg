CONSTANTS
    Deliveries = {d1}
    Webhooks = {d1}
    Workers = {w1, w2, w3}
    NoDelivery = NoDelivery
    MaxAttempts = 2
    RedriveAllowance = 1
    MaxRedrives = 1
    MaxFaults = 3
SPECIFICATION FairSpec
INVARIANTS
    OneActiveAttempt
    OneCallPerAttempt
PROPERTIES
    HistoryFrozen
    DeliveryProgress
CHECK_DEADLOCK FALSE
