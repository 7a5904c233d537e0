\* A write that stops half way.
SPECIFICATION Spec
CONSTANTS
    ServerFrames <- TextAndPing
    ServerStatuses = {1000, 1003}
    MayReject = FALSE
    SpeaksFirst = FALSE
    SpeaksAfterClose = FALSE
    PeerFaults = {"eof", "reset"}
    PartialWrites = TRUE
    MaxServer = 3
    Handlers = {TRUE}
    CallbackOps = {}
    Texts <- ShortTexts
    MessageSizes = {}
    DefaultMessageSize = 2
    Timeouts = {}
    DefaultTimeout = 2
    Spaces = FALSE
    MaxInits = 1
    MaxKeys = 1
    MaxQueued = 3
INVARIANTS
    TornFramesAreFinished
CHECK_DEADLOCK FALSE
