\* One process answers while another indexes, with a failure anywhere.
SPECIFICATION SlackFairSpec
CONSTANTS
    a = a
    b = b
    c = c
    Ids = {a, b, c}
    K = 2
    MinPool = 2
    KRRF = 60
    BM25Weight = 9
    DenseWeight = 11
    RerankTop = 1
    Jobs <- SomeJobs
    Procs = {p1}
    Corpora <- SomeCorpora
    Suspicious = {b}
    InjectionScan = TRUE
    MaxBulk = 2
    MaxSaves = 2
    MaxTokens = 2
    MaxFaults = 1
    Answers <- SomeAnswers
    SlackLimit = 3
INVARIANTS
    RightChunk
    RetrievalSound
    AuditMatches
    AnswersWhole
    Replied
PROPERTIES
    EventuallyAnswered
CHECK_DEADLOCK FALSE
