CONSTANTS
    Socket = {s1, s2, s3}
    Limit = 2
    MaxCount = 5
    MaxFailures = 1
SPECIFICATION FairSpec
PROPERTY EveryWindowEnds
