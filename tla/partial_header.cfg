\* A text of 126 bytes, read in pieces.
SPECIFICATION Spec
CONSTANTS
    Cases <- LongFrames
    Payloads <- CasePayloads
    MessageSizes <- CaseSizes
    MaskKeys <- Keys
    Usize = 1048576
    MaxFrames = 6
    BufferSize = 1024
INVARIANTS
    IncompleteWaits
CHECK_DEADLOCK FALSE
