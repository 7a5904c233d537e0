\* The server sends frames the client refuses or panics on, closes with any status and goes on after it.
SPECIFICATION Spec
CONSTANTS
    ServerFrames <- BadFrames
    ServerStatuses = {0, 1, 1000, 1001, 1004, 1005, 1011, 3000}
    MayReject = FALSE
    SpeaksFirst = TRUE
    SpeaksAfterClose = TRUE
    PeerFaults = {}
    PartialWrites = FALSE
    MaxServer = 3
    Handlers = {TRUE}
    CallbackOps = {}
    Texts <- OneByte
    MessageSizes = {}
    DefaultMessageSize = 2
    Timeouts = {}
    DefaultTimeout = 2
    Spaces = FALSE
    MaxInits = 1
    MaxKeys = 1
    MaxQueued = 2
INVARIANTS
    FramesInOrder
    CloseIsAnswered
PROPERTIES
    RefusalCostsOne
CHECK_DEADLOCK FALSE
