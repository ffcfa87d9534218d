CONSTANTS
    MaxRuns = 3
    MaxBoots = 4
    MaxRows = 2
SPECIFICATION Spec
CHECK_DEADLOCK FALSE
INVARIANTS
    WellFormedLog
    StatusMatchesLog
    SweptBeforeOpen
    ParentIsNewestCrashed
PROPERTIES
    SealedRunsFinal
