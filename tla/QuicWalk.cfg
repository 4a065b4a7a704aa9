SPECIFICATION Spec
CONSTANTS
    MaxCidLen = 1
    CidLens = {0, 1}
    TokenLens = {0, 1}
    PayloadLens = {0, 1}
    PaddingLens = {0, 1}
    MaxCoalesced = 2
    Faults = {}
PROPERTY WalkMatchesReference
