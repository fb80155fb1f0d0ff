CONSTANTS
    None = None
    Request = {r1, r2}
    User = {u1, u2}
    Role = {admin, staff}
    Permission = {p1}
    SystemRole = {admin}
    Grants <- EveryGrant
    AdminLinks <- OneAdmin
    Needed = {p1}
    Ops <- AllOps
    MayFail = TRUE
    MaxWrites = 2
SPECIFICATION FairSpec
INVARIANT StaleHasCause
PROPERTY EventuallyFresh ImplementsRulesCache
