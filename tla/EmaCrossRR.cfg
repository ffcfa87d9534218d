\* A trade, its stop moved, and the trade that reverses it.
CONSTANTS
    Prices = {20, 30, 40}
    Tick = 10
    stop_loss_pct = 33
    MaxOrders = 5

SPECIFICATION Spec

INVARIANTS
    Protected
PROPERTIES
    RatchetsOnly

CHECK_DEADLOCK FALSE
