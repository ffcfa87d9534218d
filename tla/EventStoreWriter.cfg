CONSTANTS
    Submitter = {s1, s2}
    Draft = {d1, d2}
    RunEnded = RunEnded
    CloseMessage = CloseMessage
    NoDraft = NoDraft
    ChannelCapacity = 2
    MaxBatchEntries = 2
    InitialEntries = 1
    MaxSubmits = 5
SPECIFICATION Spec
INVARIANTS
    AcceptedNotLost
    CloseResultHonest
    HaltIsTerminal
PROPERTIES
    CallsReturn
    AcceptedBecomesDurable
    HwmAnchorsDurableRows
    ImplementsDurableLog
