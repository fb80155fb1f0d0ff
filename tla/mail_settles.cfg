CONSTANTS
    None = None
    Mail = {m1}
    Instance = {i1, i2}
    MaxAttempts = 3
    MaxStalls = 1
    MaxCrashes = 2
    MaxResends = 1
SPECIFICATION FairSpec
INVARIANT DuplicatesHaveCause OnlyCrashesStall ExhaustionIsReported
PROPERTY EveryMailSettles
