SPECIFICATION Spec
CONSTANTS
    MaxFrame = 15
    ConfigLen = 2
    MaxUp = 2
    Chunk = 6
    Configs = {1, 2}
    Payloads <- FramePayloads
    MidCommand = TRUE
    MaxRuns = 4
INVARIANTS
    TypeOK RefusalsBounded ConfiguredAsAsked RepliesInStep
CHECK_DEADLOCK FALSE
