SPECIFICATION Spec
CONSTANTS
    a1 = a1
    h1 = h1
    App = {a1}
    Handler = {h1}
    Request <- MCAnyRequest
    Category <- MCRetail
    Placed = {}
    Code = {"0", "10", "11", "100", "110"}
    Amount = 2
    AllotmentDay = 1
    MaxSaid = 5
    MaxUpi = 1
    MaxMails = 1
    LastDay = 2
INVARIANT TypeOK
INVARIANT BlockShownIsReal
INVARIANT SentencesWereSaid
INVARIANT UnblockOnlyOfBlocked
INVARIANT OnlyMissedBidsKeepOldUpi
CHECK_DEADLOCK FALSE
