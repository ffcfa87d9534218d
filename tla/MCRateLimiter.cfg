CONSTANTS
    slow = slow
    fast = fast
    Callers = {c1, c2}
    Keys = {slow, fast}
    Quota <- MCQuota
    Requests = {{slow}, {slow, fast}}
    MaxCalls = 2
    Horizon = 3
SPECIFICATION LimiterFairSpec
INVARIANTS
    
    RefusalJustified
PROPERTIES
    AwaitReturns
CHECK_DEADLOCK FALSE
