CONSTANTS
    CloseThreshold = 1
    IntervalFactor = 2
    EndFactorNum = 1
    EndFactorDen = 2
    InitInterval = 1
    FlowletMaxPkts = 100
    ElicitingPeriod = 2
    Sizes = {1, 2}
    Granularity = 1
    PacketThreshold = 3
    RttValues = {2}
    MaxClientPkts = 5
    MaxServerPkts = 3
    MaxTime = 8
SPECIFICATION Spec
INVARIANT TypeOK
INVARIANT DelayedAcksWithinOverspeed
INVARIANT ClientDatagramsReorderedOnce
