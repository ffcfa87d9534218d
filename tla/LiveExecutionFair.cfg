\* An order of one unit, canceled or not, any event lost.
CONSTANTS
    Quantity = 1
    ModifyTo = {}
    MaxRequests = 1
    MaxBacklog = 2
    inflight_max_retries = 2
    open_check_missing_retries = 2
    open_check_open_only = FALSE
    Lossy = TRUE

SPECIFICATION FairSpec

PROPERTIES
    TrackingEnds
    

CHECK_DEADLOCK FALSE
