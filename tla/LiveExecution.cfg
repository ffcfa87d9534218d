\* One modification or cancel of an order of two units, any event lost.
CONSTANTS
    Quantity = 2
    ModifyTo = {1}
    MaxRequests = 1
    MaxBacklog = 3
    inflight_max_retries = 2
    open_check_missing_retries = 2
    open_check_open_only = FALSE
    Lossy = TRUE

SPECIFICATION Spec

PROPERTIES
    
    ReconciledFillsExist

CHECK_DEADLOCK FALSE
