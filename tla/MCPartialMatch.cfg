CONSTANTS
    CloseThreshold = 1
    MaxSent = 4
    MaxTick = 3
    RttValues = {0, 1, 2}
SPECIFICATION Spec
INVARIANT DpOptimal
INVARIANT LossAsIntended
