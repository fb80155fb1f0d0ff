CONSTANTS
    None = None
    Initial = Initial
    DefaultRole = user
    Request = {r1, r2, r3}
    Address = {a1}
    Role = {user, staff}
    Kinds <- AllKinds
    SystemRole = SystemRole
    OwnRole = OwnRole
    OwnPermission = OwnPermission
    admin = admin
    editor = editor
    readUser = readUser
    RoleName = {admin, editor, reviewer}
    Key = {readUser, readRole}
    Replacement = {q1, q2}
    Row = {x1, x2}
SPECIFICATION MCSpec
CHECK_DEADLOCK FALSE
SYMMETRY Symmetry
INVARIANT OneLiveAccountPerAddress ConflictsAreReal LosersGetConflict RefusalsLeaveNothing
INVARIANT NameConflictsAreReal
PROPERTY OnlyStaleUpdatesOverwrite OnlyStaleUpdatesRevive ReplacementsLeaveTheirOwn
