\* Arbitrary client datagrams and RTT calibrations; FlowletMaxPkts scaled
\* down so that the flowlet cap is reached.
CONSTANTS
    CloseThreshold = 1
    IntervalFactor = 2
    EndFactorNum = 1
    EndFactorDen = 2
    InitInterval = 1
    FlowletMaxPkts = 2
    ElicitingPeriod = 2
    Chaos = TRUE
    TrueRtt = 1
    RttValues = {1, 4}
    MaxServerPkts = 4
    MaxClientPkts = 3
    MaxDrops = 0
    MaxTime = 9
SPECIFICATION Spec
INVARIANT QueueConsistent
INVARIANT AtMostOneRetransmission
