SPECIFICATION FairSpec
CONSTANTS
    NumRows = 4
    NumChunks = 3
    Lead = 2
    Damage = {TRUE, FALSE}
    Images = {"A", "B"}
    Factory = "A"
    TestBlocks = 2
    Retries = 1
    MaxRuns = 5
INVARIANTS TypeOK NeverRunsMixture StreamInStep AckedRowsHold NoAckTold
PROPERTIES SuccessIsWhole RestartRecovers
CHECK_DEADLOCK FALSE
