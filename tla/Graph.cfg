SPECIFICATION FairSpec
CONSTANTS
    InitIterations = {1, 3}
    MinIterations = 2
    ReviseCap = 3
    Pool = 2
    AugmentPool = 1
    MaxCharge = 2
    ReloopCalls = 2
    MaxRegenerations = 1
    MaxPasses = 4
INVARIANTS
    PublishedAfterReview
    PlanReviewedBeforeSearch
    FreshNeverReused
    RepeatPassHasQuestion
    IntegrityReloopRuns
PROPERTIES AutoStepsDecrease AlwaysSettles
CHECK_DEADLOCK FALSE
