SPECIFICATION FairSpec
CONSTANTS
    Bucket = {"qib", "retail"}
    Offered = {"qib", "retail"}
    Poller = {"tick"}
    Form = {"form"}
    Ops = {"ops"}
    Gmp = {"gmp"}
    MaxShares = 1
    MaxMoves = 3
    MaxGlitches = 1
    MaxFaults = 1
    MaxEdits = 1
INVARIANT TypeOK
INVARIANT MemoryDescribesRows
PROPERTY RefreshLeavesEntries
PROPERTY EmptyReadKeepsFigure
PROPERTY FiguresCatchUp
