SPECIFICATION AgentSpec
CONSTANTS
    s1 = s1
    s2 = s2
    s3 = s3
    s4 = s4
    Streams = {s1, s2, s3, s4}
    NoStream = NoStream
    MaxExec = 3
    PoolSize = 2
    Path <- RuntimePath
    Gates = {"briefing", "hitl", "memo_gate"}
    Recognised = {"briefing", "hitl"}
    CreditsAnswers = {"continue"}
    LiveStalls = FALSE
    MaxCrashes = 1
    ProviderOf <- FourKeys
    MayBeUnusable = {1}
    BackoffPasses = 2
    MaxCalls = 2
    RoleModel = "gemini"
INVARIANTS OneGraphAtATime AnswerToItsQuestion EverySlotTried BenchedForCause RequestsBounded
PROPERTIES ImplementsGateProtocol EveryStreamEnds
CHECK_DEADLOCK FALSE
