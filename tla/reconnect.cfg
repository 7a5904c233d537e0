\* init is called again, by the program or by the callback, over whatever is left.
SPECIFICATION Spec
CONSTANTS
    ServerFrames <- TextFrames
    ServerStatuses = {1000}
    MayReject = TRUE
    SpeaksFirst = TRUE
    SpeaksAfterClose = FALSE
    PeerFaults = {"eof"}
    PartialWrites = FALSE
    MaxServer = 3
    Handlers = {TRUE}
    CallbackOps = {"init"}
    Texts <- OneByte
    MessageSizes = {}
    DefaultMessageSize = 2
    Timeouts = {}
    DefaultTimeout = 2
    Spaces = TRUE
    MaxInits = 3
    MaxKeys = 2
    MaxQueued = 2
INVARIANTS
    StreamPresent
    FramesInOrder
    KeyIsCurrent
CHECK_DEADLOCK FALSE
