SPECIFICATION FairSpec
CONSTANTS
    n1 = n1
    n2 = n2
    No = {n1, n2}
    Files = {{n1, n2}, {n2}}
    MayCrash = TRUE
    MaxImports = 2
    MaxJobs = 2
INVARIANT TypeOK
INVARIANT DroppedImportLeavesNothing
PROPERTY OnlyRewriteLoses
PROPERTY ImportsTakeTheirTurn
CHECK_DEADLOCK FALSE
