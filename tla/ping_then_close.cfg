\* A PING, then a Close.
SPECIFICATION Spec
CONSTANTS
    ServerFrames <- TextAndPing
    ServerStatuses = {1000, 1003}
    MayReject = FALSE
    SpeaksFirst = FALSE
    SpeaksAfterClose = FALSE
    PeerFaults = {"eof", "reset"}
    PartialWrites = FALSE
    MaxServer = 3
    Handlers = {TRUE}
    CallbackOps = {}
    Texts <- ShortTexts
    MessageSizes = {}
    DefaultMessageSize = 2
    Timeouts = {}
    DefaultTimeout = 2
    Spaces = FALSE
    MaxInits = 1
    MaxKeys = 1
    MaxQueued = 3
INVARIANTS
    CloseIsAnswered
CHECK_DEADLOCK FALSE
