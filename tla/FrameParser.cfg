SPECIFICATION Spec
CONSTANTS
    MaxPayload = 8
    Crc <- TwoResidues
    Frames <- WireFrames
    Garbage = {0, 8, 85, 170}
    MaxFaults = 2
INVARIANTS TypeOK NoFalseFrame InSyncLosesNothing LossBounded
