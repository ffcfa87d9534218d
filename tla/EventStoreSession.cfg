CONSTANTS
    Engine = Engine
    Submitter = {Engine}
    RunStarted = RunStarted
    NoMessage = NoMessage
    Message = {m1, m2, m3, n1}
    Encodable = {m1, m2, m3}
    Draft = {m1, m2, m3, RunStarted}
    MaxDepth = 2
    RunEnded = RunEnded
    CloseMessage = CloseMessage
    NoDraft = NoDraft
    ChannelCapacity = 2
    MaxBatchEntries = 2
    InitialEntries = 0
    MaxSubmits = 4
SPECIFICATION SessionSpec
INVARIANTS
    CapturedPrefix
    UnauditedOnlyAfterHalt
    CauseBeforeEffect
    SealedRunIsComplete
PROPERTIES
    HaltGetsReason
    OpenAndSealReturn
    
