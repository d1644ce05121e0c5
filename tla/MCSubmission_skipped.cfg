SPECIFICATION Spec
CONSTANTS
    p1 = p1
    p2 = p2
    Profile = {p1}
    Bucket = {"public"}
    Method = {"native"}
    Handler = {"h1"}
    Worker = {"w1"}
    MayDelete = FALSE
    MaxAttempts = 2
    MaxApps = 2
INVARIANT SkippedWasSubmitted
CHECK_DEADLOCK FALSE
