CONSTANTS
    None = None
    Past = Past
    Request = {r1, r2}
    Guard = {r1, r2, g1}
    Instance = {i1, i2}
    Address = {a1}
    User = {u1}
    Route = {login, health, me, metrics}
    Public = {login, health}
    Unthrottled = {health, metrics}
    Restricted = {metrics}
    Limit = 1
    MayFail = TRUE
    Socket = {s1}
    Message = {m1, m2, m3}
    Few = {m1, m2}
    MaxMessages = 1
    Window = 2
    Duration = 3
SPECIFICATION MCSpec
CHECK_DEADLOCK FALSE
SYMMETRY Symmetry
INVARIANT VerificationIsCapped HandlersAreAuthorized
INVARIANT BroadcastsAreAuthorized RoomsAreOwned BurstsAreBounded
