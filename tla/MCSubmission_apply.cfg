SPECIFICATION FairSpec
CONSTANTS
    p1 = p1
    p2 = p2
    Profile = {p1, p2}
    Bucket = {"public"}
    Method = {"native", "pdf", "bulk"}
    Handler = {"h1", "h2"}
    Worker = {"w1"}
    MayDelete = TRUE
    MaxAttempts = 2
    MaxApps = 2
INVARIANT TypeOK
INVARIANT OneApplicationPerBucket
INVARIANT NeverSentTwice
PROPERTY JobsEnd
CHECK_DEADLOCK FALSE
