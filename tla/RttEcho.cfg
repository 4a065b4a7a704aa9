SPECIFICATION FairSpec
CONSTANTS
    Ips = {i1, i2}
    SeqBits = 3
    Builds = {"debug", "release"}
    MaxRequests = 4
    MaxTime = 6
    Faults = {"Loss"}
PROPERTY Refinement EveryReplyAnswered
