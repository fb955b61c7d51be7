SPECIFICATION FairSpec
CONSTANTS
    RingSize = 4
    Batch = 2
    Byte = {0, 1}
    MaxBytes = 6
    MaxDrops = 2
INVARIANTS TypeOK BatchInOrder NothingLost
PROPERTY EverythingReported
