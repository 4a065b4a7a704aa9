\* Two concurrent clients requesting 1 or 2 frames, with every server option
\* (no limit or a limit of 1, a blocked client, stateless retry), a stream
\* credit of one frame (the client's default is 100), path outages and lost
\* client closes.
CONSTANTS
    Clients = {c1, c2}
    RequestFrames = {1, 2}
    LimitOptions = {{}, {1}}
    MaxUni = 1
    FrameSize = 2
    Faults = {"Outage", "CloseLost"}
SPECIFICATION FairSpec
INVARIANT TypeOK
INVARIANT StatsAgree
PROPERTY Refinement
PROPERTY ClientSucceeds
PROPERTY HandlerEnds
