\* Two connections, IDLE_TIMEOUT 3 ticks: a connection can be renewed once
\* and still be evicted within the 12 ticks.  No symmetry: the liveness
\* property is checked with it off.
SPECIFICATION FairSpec
CONSTANTS
    Conns = {c1, c2}
    IdleTimeout = 3
    MaxTime = 12
INVARIANT HeapTracksConns
INVARIANT EvictedWithinTwiceIdle
PROPERTY IdleTimerServed
