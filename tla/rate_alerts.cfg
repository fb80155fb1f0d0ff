CONSTANTS
    Route = {a, b}
    MaxRoutes = 1
    Capacity = 2
    Window = 2
    MinSamples = 2
    Threshold = 40
    Cooldown = 3
    Poll = 1
    MaxRequests = 4
    MaxAlerts = 2
    Duration = 5
SPECIFICATION Spec
INVARIANT WindowIsNewest NoSilentBreach
CHECK_DEADLOCK FALSE
