\* One text each way and the handshake, as bytes, read in pieces of any size.
SPECIFICATION Spec
CONSTANTS
    Cases <- AllCases
    Payloads <- CasePayloads
    MessageSizes <- CaseSizes
    MaskKeys <- Keys
    Usize = 1048576
    MaxFrames = 6
    BufferSize = 1024
INVARIANTS
    WireTypeOK
    TextIsCut
    NeverWraps
    ServerGetsText
    ProtocolsOffered
    ControlMirrored
    Aligned
    HandshakeAgrees
    HeardIsSent
    OrdinaryIsUnderstood
    NothingIsLeft
    WireInv
CHECK_DEADLOCK FALSE
