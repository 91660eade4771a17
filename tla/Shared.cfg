SPECIFICATION SharedSpec
CONSTANTS
    a = a
    b = b
    q1 = q1
    q2 = q2
    Runs = {a, b}
    MaxVersion = 2
    MaxPolls = 2
    MaxAnswers = 1
    MaxFailures = 1
    Requests = {q1, q2}
    RateLimit = 2
    FreeQuota = 2
    ProQuota = 3
    MaxRuns = 4
INVARIANTS OverrunBounded
PROPERTIES PageCatchesUp
CHECK_DEADLOCK FALSE
