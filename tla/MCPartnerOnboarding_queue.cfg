SPECIFICATION Spec
CONSTANTS
    App = {a1, a2}
    Account = {u1}
    Base = {short, long}
    Long = {long}
    Reviewer = {r1, r2}
    Visitor = {v1}
    MaxTenants = 2
    MaxLinks = 2
    a1 = a1
    a2 = a2
    u1 = u1
    r1 = r1
    r2 = r2
    v1 = v1
    short = short
    long = long
SYMMETRY Symmetry
INVARIANT TypeOK
INVARIANT TenantIsOwnAndReady
INVARIANT ApprovedHasAWayIn
INVARIANT ActivatedHasPassword
CHECK_DEADLOCK FALSE
