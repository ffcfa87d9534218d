CONSTANTS
    Buys = {b}
    Sells = {s}
    Triggerable = {}
    Quantity = 2
    ModifyTo = {3}
    MaxRequests = 0
    allow_overfills = FALSE
    Overfills = FALSE
    Reliable = FALSE
SPECIFICATION Spec
CHECK_DEADLOCK FALSE
INVARIANTS
    NeverOvercounts
    PositionIsSumOfFills
