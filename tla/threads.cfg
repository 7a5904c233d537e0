\* Two threads, one client.
SPECIFICATION Spec
CONSTANTS
    Reorder = FALSE
    Limit = 3
    MaxTexts = 2
INVARIANTS
    ThreadsTypeOK
    LoopOwnsClient
    InitSeenWhole
PROPERTIES
    ProgramEnds
CHECK_DEADLOCK FALSE
