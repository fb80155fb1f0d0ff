CONSTANTS
    MaxTries = 3
    Socket = {s1, s2, s3}
    Limit = 2
    MaxCount = 5
    MaxFailures = 2
SPECIFICATION MCSpec
CHECK_DEADLOCK FALSE
INVARIANT OneContinuation ClientsAccounted
PROPERTY DegradedIsReal RecoveryShows GivenUpShows WindowsLimitAndEnd
