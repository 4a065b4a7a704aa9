\* One connection on a PEMI that has handled 98..100 datagrams, 8..12 of them
\* retransmissions, so that the rate limit starts to apply within the run.
\* One tick is 10 ms; client RTTs of 10, 20 and 40 ms.  InitCwnd = MinCwnd
\* = 2 (the code's 10) so that three datagrams within an RTT overspeed.
SPECIFICATION Spec
CONSTANTS
    InitCwnd = 2
    MinCwnd = 2
    RttValues = {1, 2, 4}
    MaxPkts = 106
    MaxTaskPkts = 3
    MaxRetrans = 14
    StartPkts = {98, 100}
    StartRetrans = {8, 10, 12}
    MaxTime = 4
INVARIANT CopaRunning
PROPERTY OverspeedNeedsWindow
INVARIANT RetransRateSettles
