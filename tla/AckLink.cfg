SPECIFICATION FairSpec
CONSTANTS
    NumFrames = 3
    Tool = "flasher"
    TestFrames = 1
    Retries = 2
    AirTimes = {2, 3}
    AirEstimate = 2
    AckWindow = 4
    Slack = 2
    ReplyTimes = {1, 2, 4, 6}
    MaxLost = 1
    TurnMod = 6
INVARIANTS TypeOK NeverAhead AckGenuine
PROPERTIES GateSeparates ImplementsStopAndWait EveryFrameDelivered
