\* One connection, from init to drop; a program, a server and a network that may do anything legal, and fairness.
SPECIFICATION FairSpec
CONSTANTS
    ServerFrames <- TextAndPing
    ServerStatuses = {1000, 1003}
    MayReject = TRUE
    SpeaksFirst = FALSE
    SpeaksAfterClose = FALSE
    PeerFaults = {"eof", "reset"}
    PartialWrites = FALSE
    MaxServer = 3
    Handlers = {TRUE, FALSE}
    CallbackOps = {}
    Texts <- ShortTexts
    MessageSizes = {}
    DefaultMessageSize = 2
    Timeouts = {4}
    DefaultTimeout = 2
    Spaces = FALSE
    MaxInits = 1
    MaxKeys = 1
    MaxQueued = 2
INVARIANTS
    TypeOK
    StreamPresent
    FramesInOrder
    NothingLost
    HandshakeFirst
    NothingAfterClose
    EveryTextDelivered
    DropWaits
    CloseIsReported
PROPERTIES
    SilentAfterClose
    ImplementsSession
    DropReturns
    CloseCompletes
    QueueDrains
    PingIsAnswered
CHECK_DEADLOCK FALSE
