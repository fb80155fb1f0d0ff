CONSTANTS
    None = None
    Initial = Initial
    Request = {r1, r2}
    User = {u1}
    Token = {t1, t2}
    ResetToken = {p1, p2}
    Row <- MCRow
    Ops <- AllOps
SPECIFICATION FairSpec
ACTION_CONSTRAINT TwoRows
CHECK_DEADLOCK FALSE
PROPERTY PasswordChangedByFreshLink EveryRequestEnds
