SPECIFICATION FairSpec
CONSTANTS
    InitIterations = {1}
    MinIterations = 2
    ReviseCap = 3
    Pool = 2
    AugmentPool = 2
    MaxCharge = 2
    ReloopCalls = 2
    MaxRegenerations = 1
    MaxPasses = 3
PROPERTY CancellationKept
CHECK_DEADLOCK FALSE
