\* Ideal client, lossy link, eliciting threshold 1 (the first 49 packets of a
\* connection): a dropped flowlet tail misleads the used_rtt choice.
CONSTANTS
    CloseThreshold = 1
    IntervalFactor = 2
    EndFactorNum = 1
    EndFactorDen = 2
    InitInterval = 1
    FlowletMaxPkts = 100
    ElicitingPeriod = 50
    Chaos = FALSE
    TrueRtt = 6
    RttValues = {6}
    MaxServerPkts = 4
    MaxClientPkts = 0
    MaxDrops = 2
    MaxTime = 14
SPECIFICATION Spec
INVARIANT NoSpuriousLoss
