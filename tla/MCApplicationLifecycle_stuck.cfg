SPECIFICATION Spec
CONSTANTS
    a1 = a1
    h1 = h1
    App = {a1}
    Handler = {h1}
    Request = {"requestUnblock", "recordAllotment"}
    Category <- MCRetail
    Placed = {a1}
    Code = {"0", "10", "11", "100", "110"}
    Amount = 1
    AllotmentDay = 1
    MaxSaid = 5
    MaxUpi = 1
    MaxMails = 2
    LastDay = 3
INVARIANT StuckInvestorMayAsk
CHECK_DEADLOCK FALSE
