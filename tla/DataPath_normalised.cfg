SPECIFICATION Spec
CONSTANTS
    MI = {m1, m2}
    Persistent = {m1}
    numBins = 4
    MinWidth = 1
    MaxTime = 8
    MaxMail = 2
    MaxOpen = 2
INVARIANT Normalized
CHECK_DEADLOCK FALSE
