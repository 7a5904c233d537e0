\* Two threads, one client: stores that become visible in any order.
SPECIFICATION Spec
CONSTANTS
    Reorder = TRUE
    Limit = 3
    MaxTexts = 2
INVARIANTS
    InitSeenWhole
CHECK_DEADLOCK FALSE
