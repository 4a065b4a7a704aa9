\* A debug build (overflow checks on), one IP, a 2-bit counter that reaches
\* its top value on the third request, and a network that duplicates replies.
SPECIFICATION Spec
CONSTANTS
    Ips = {i1}
    SeqBits = 2
    Builds = {"debug"}
    MaxRequests = 4
    MaxTime = 6
    Faults = {"Duplicate"}
INVARIANT DetectorRunning
CHECK_DEADLOCK FALSE
