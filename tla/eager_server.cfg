\* A text right behind the response.
SPECIFICATION Spec
CONSTANTS
    ServerFrames <- TextFrames
    ServerStatuses = {1000, 1003}
    MayReject = FALSE
    SpeaksFirst = TRUE
    SpeaksAfterClose = FALSE
    PeerFaults = {"eof", "reset"}
    PartialWrites = FALSE
    MaxServer = 3
    Handlers = {TRUE}
    CallbackOps = {}
    Texts <- ShortTexts
    MessageSizes = {}
    DefaultMessageSize = 2
    Timeouts = {}
    DefaultTimeout = 2
    Spaces = FALSE
    MaxInits = 1
    MaxKeys = 1
    MaxQueued = 3
INVARIANTS
    EveryTextDelivered
CHECK_DEADLOCK FALSE
