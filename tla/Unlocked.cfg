SPECIFICATION UnlockedSpec
CONSTANTS
    a1 = a1
    a2 = a2
    Apis = {a1, a2}
    Runs = {r1}
    NoJob = NoJob
    NoApi = NoApi
    MaxVersion = 2
    MaxAttempts = 1
    MaxStalled = 1
    MaxCrashes = 0
    LiveStalls = TRUE
    Byok = FALSE
    global = global
    org = org
    d1 = d1
    d2 = d2
    p1 = p1
    p2 = p2
    Scopes = {global, org}
    Docs = {d1, d2}
    Models = {"hash", "gemini"}
    Hash = "hash"
    Dim <- VectorLength
    Syncers = {p1, p2}
    MaxEdits = 1
    MaxGen <- Ingests
    Callers = {"c1", "c2"}
    Asks <- TheAsks
    CacheMax = 2
    MaxAsks = 3
CHECK_DEADLOCK FALSE
SYMMETRY Alike
INVARIANTS
    GateIsCurrent
    ParkedHasGate
    CompletedIsSearched
    EveryTextEmbedded
PROPERTIES
    CancelledForever
    FencedWrites
