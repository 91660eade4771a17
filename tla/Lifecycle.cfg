SPECIFICATION Spec
CONSTANTS
    a1 = a1
    a2 = a2
    Apis = {a1, a2}
    Runs = {r1}
    NoJob = NoJob
    NoApi = NoApi
    MaxVersion = 2
    MaxAttempts = 2
    MaxStalled = 1
    MaxCrashes = 1
    LiveStalls = FALSE
    Byok = TRUE
CHECK_DEADLOCK FALSE
SYMMETRY ApiSymmetry
INVARIANTS
    NoRunLeftBehind
    OneStreamPerRun
    PresentedGateAnswerable
PROPERTIES
    ImplementsRunStatus
    KeyOutlivesRetries
