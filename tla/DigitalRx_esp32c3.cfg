SPECIFICATION Spec
CONSTANTS
    Fronts <- Esp32Nrz
    DataBits = 2
    BitTicks = 8
    Pulse = 1
    Drifts <- Slips
    Latency = 1
    CountMod = 96
INVARIANT NothingMissed
