SPECIFICATION Spec
CONSTANTS
    Fronts <- AnalogFronts
    DataBits = 2
    BitTicks = 8
    Pulse = 2
    Drifts <- NoSlip
    Latency = 1
    MaxChars = 3
INVARIANTS TypeOK NoFalseByte NothingMissed NeverCrossed
