SPECIFICATION Spec
CONSTANTS
    Boards = {"samd21", "uno", "esp32c3"}
    DataBits = 2
    BitTicks = 4
    Pulse = 1
    Latency = 1
    Blobs <- SomeBlobs
    RingCap = 1
INVARIANTS TypeOK LightIsFrames NoMixedByte FrontEndReady RingResetAlone
PROPERTY TxEnds
