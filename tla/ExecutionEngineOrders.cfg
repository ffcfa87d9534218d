CONSTANTS
    Buys = {b}
    Sells = {}
    Triggerable = {}
    Quantity = 2
    ModifyTo = {1}
    MaxRequests = 2
    allow_overfills = TRUE
    Overfills = TRUE
    Reliable = FALSE
SPECIFICATION Spec
CHECK_DEADLOCK FALSE
INVARIANTS
    QuantitiesExact
    PendingCanBeRestored
    BucketsCoverOrders
PROPERTIES
    ClosedReopensOnlyByFill
