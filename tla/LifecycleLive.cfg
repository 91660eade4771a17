SPECIFICATION FairSpec
CONSTANTS
    a1 = a1
    a2 = a2
    Apis = {a1, a2}
    Runs = {r1}
    NoJob = NoJob
    NoApi = NoApi
    MaxVersion = 2
    MaxAttempts = 2
    MaxStalled = 1
    MaxCrashes = 2
    LiveStalls = FALSE
    Byok = FALSE
CHECK_DEADLOCK FALSE
PROPERTIES
    EveryExecutionEnds
