\* The callback sends; message sizes and characters that send cannot cut.
SPECIFICATION Spec
CONSTANTS
    ServerFrames <- ManyFrames
    ServerStatuses = {1000, 1003}
    MayReject = FALSE
    SpeaksFirst = TRUE
    SpeaksAfterClose = FALSE
    PeerFaults = {}
    PartialWrites = TRUE
    MaxServer = 3
    Handlers = {TRUE}
    CallbackOps = {"send"}
    Texts <- WideTexts
    MessageSizes = {0, 3}
    DefaultMessageSize = 2
    Timeouts = {}
    DefaultTimeout = 1
    Spaces = FALSE
    MaxInits = 1
    MaxKeys = 1
    MaxQueued = 3
INVARIANTS
    NothingLost
PROPERTIES
    ImplementsSession
CHECK_DEADLOCK FALSE
