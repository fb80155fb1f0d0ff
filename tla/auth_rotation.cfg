CONSTANTS
    None = None
    Initial = Initial
    Request = {r1, r2}
    User = {u1}
    Token = {t1, t2, t3}
    ResetToken = {p1, p2}
    Row <- MCRow
    Ops <- RotationOps
SPECIFICATION OverlapSpec
SYMMETRY Symmetry
CHECK_DEADLOCK FALSE
INVARIANT SweepsMissOnlyOverlaps LinksMissOnlyOverlaps
INVARIANT AtMostOneLive RotationChain TheftMissesOnlyRotations OnlyResetLinksDeadlock
PROPERTY ImplementsFamilies
