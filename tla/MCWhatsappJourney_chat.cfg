SPECIFICATION Spec
CONSTANTS
    i1 = i1
    i2 = i2
    p1 = p1
    h1 = h1
    h2 = h2
    None = None
    Ipo = {i1, i2}
    Profile = {p1}
    Handler = {h1, h2}
    MaxLots = 1
    MaxCodes = 2
SYMMETRY Interchangeable
INVARIANT TypeOK
INVARIANT AmountShownIsPlaced
INVARIANT ClearedFlowStaysCleared
CHECK_DEADLOCK FALSE
