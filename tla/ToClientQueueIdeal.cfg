\* Ideal client, lossy PEMI->client link: TrueRtt long enough for several
\* flowlets in flight, as on real paths where the RTT dwarfs packet gaps.
\* FlowletMaxPkts scaled down to 3 so that 4 datagrams can exceed the cap.
CONSTANTS
    CloseThreshold = 1
    IntervalFactor = 2
    EndFactorNum = 1
    EndFactorDen = 2
    InitInterval = 1
    FlowletMaxPkts = 3
    ElicitingPeriod = 2
    Chaos = FALSE
    TrueRtt = 6
    RttValues = {6}
    MaxServerPkts = 4
    MaxClientPkts = 0
    MaxDrops = 2
    MaxTime = 14
SPECIFICATION Spec
INVARIANT TypeOK
PROPERTY CleanFlowletsExact
