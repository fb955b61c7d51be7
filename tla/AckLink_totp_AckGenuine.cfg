SPECIFICATION Spec
CONSTANTS
    NumFrames = 3
    Tool = "totp"
    TestFrames = 3
    Retries = 2
    AirTimes = {2, 3}
    AirEstimate = 2
    AckWindow = 3
    Slack = 2
    ReplyTimes = {1, 2, 4, 6}
    MaxLost = 1
    TurnMod = 6
INVARIANT AckGenuine
