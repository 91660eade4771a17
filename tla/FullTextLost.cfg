SPECIFICATION EvidenceSpec
CONSTANTS
    paper = paper
    blog = blog
    note = note
    how = how
    much = much
    Works = {paper, blog, note}
    ArXiv = {paper}
    Primary = {paper}
    Secondary = {blog}
    OffTopic = {note}
    Mandatory = {paper}
    Corpus = {note}
    Slots = {how, much}
    Score <- Relevance
    MaxRetrieval = 2
    MaxEnrich = 2
    MaxIterations = 2
    Reserve = 2
    CountCap = 3
    FetchCap = 2
    MicroCap = 1
    SlotK = 1
    MinOnTopic = 2
    MaxAsked = 2
    Lines <- TheLines
    Template <- Rule
    Ledger = {1, 2}
    OffTopicNumbers = {2}
    MaxLines = 2
    MaxRewrites = 1
    Dims <- FiveDims
    CriticalDims <- TwoCritical
    Questions <- TheQuestions
    Grades <- AllGrades
    Findings <- TheFindings
    GapLimit = 2
    MaxRounds = 3
    MaxSentBack = 1
    MaxRegenerations = 2
    Depths = {"standard", "deep"}
    EvidenceCounts = {5, 40}
    Scores = {60, 70}
    Drafts <- TheDrafts
    Parts <- TheParts
    PolishLoss = 60
    TelemetryWords = 30
    MaxAgain = 1
    MaxPauses = 1
    Urls = {"paper", "blog"}
    Numbers = {"1 GB", "2 GB", "3 GB"}
    Scales = {"seven", "small"}
    Mechanisms = {"routing"}
    ClaimLists <- TheLists
    WorkingSets <- TheWorkingSets
    Answers <- TheAnswers
    Citable = {"paper", "blog"}
    MaxRefetch = 2
    MaxChecks = 1
INVARIANT FetchedTextIsRead
CHECK_DEADLOCK FALSE
