CONSTANTS
    None = None
    Initial = Initial
    DefaultRole = user
    Request = {r1, r2}
    Address = {a1}
    Role = {user}
    Kinds <- AllKinds
SPECIFICATION Spec
CHECK_DEADLOCK FALSE
INVARIANT DeletedStaysDeleted
