CONSTANTS
    Buys = {b}
    Sells = {}
    Triggerable = {b}
    Quantity = 3
    ModifyTo = {2, 4}
    MaxRequests = 3
    allow_overfills = FALSE
    Overfills = FALSE
    Reliable = TRUE
SPECIFICATION FairSpec
CHECK_DEADLOCK FALSE
PROPERTIES
    PendingResolves
INVARIANTS
    CaughtUpAgrees
