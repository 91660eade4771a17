SPECIFICATION KnowledgeSpec
CONSTANTS
    Threads = {"t1", "t2", "t3"}
    OrgOf <- TwoOrgs
    GoalOf <- CloseGoals
    NoOrg = "none"
    MaxRecords = 3
    LoadLimit = 2
    MaxCitations = 2
    MaxDepth = 1
    FreshDays = 0
    MaxDay = 1
    MaxMishaps = 1
PROPERTY DeletedNotServed
CHECK_DEADLOCK FALSE
