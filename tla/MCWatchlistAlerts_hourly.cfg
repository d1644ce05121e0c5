SPECIFICATION FairSpec
CONSTANTS
    u1 = u1
    u2 = u2
    i1 = i1
    i2 = i2
    User = {u1, u2}
    Ipo = {i1, i2}
    Sweeper = {"timer"}
    First <- MCFirst
    Marked <- MCMarked
    Watchlist <- MCWatchlist
    MaxDays = 2
    MaxFaults = 1
    MaxTurns = 1
INVARIANT TypeOK
INVARIANT NeverAlertedTwice
PROPERTY WatchersHear
CHECK_DEADLOCK FALSE
