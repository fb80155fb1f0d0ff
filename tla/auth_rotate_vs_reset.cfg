CONSTANTS
    None = None
    Initial = Initial
    Request = {r1, r2}
    User = {u1}
    Token = {t1, t2, t3}
    ResetToken = {p1}
    Row <- MCRow
    Ops <- RotateVsReset
SPECIFICATION Spec
SYMMETRY Symmetry
CHECK_DEADLOCK FALSE
ACTION_CONSTRAINT SessionsFirst
INVARIANT NoRotationOutlivesReset
