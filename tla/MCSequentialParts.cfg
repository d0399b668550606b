SPECIFICATION Spec
CONSTANTS
    NoHint = NoHint
    Texts <- CleanTexts
    MaxLength = 6
    TargetChars = 3
    MaxChars = 4
    OverlapChars = 2
    BatchSize = 2
    MaxBatchTokens = 5
    MaxInputTokens = 3
    MaxRetries = 7
    RetryBudget = 120
    MaxBase = 60
    RetryAfters = {7, 119}
    a1 = a1
    a2 = a2
    b1 = b1
    x1 = x1
    first = first
    second = second
    Unknown = Unknown
    None = None
    Chunks = {a1, a2, b1, x1}
    Documents = {first, second}
    IdRank <- MCIdRank
    DocumentOf <- MCDocumentOf
    UnitOf <- MCUnitOf
    StartOf <- MCStartOf
    SizeOf <- MCSizeOf
    LengthOf <- MCLengthOf
    EditionOf <- MCEditionOf
    FileOrder <- MCFileOrder
    Editions <- MCEditions
    Questions <- MCQuestions
    RrfK = 60
    MaxContextChunks = 2
    MaxContextTokens = 3
    MaxContextChars = 4
    TopK = 3
    CandidateMultiplier = 2
    MaxCandidatesPerBranch = 3
    MaxIdentifierCandidates = 2
    RerankerCandidateLimit = 3
    Scores = {0, 1}
    l1 = l1
    l2 = l2
    l3 = l3
    l4 = l4
    l5 = l5
    Start = Start
    Rows = {l1, l2, l3, l4, l5}
    RowRank <- MCRowRank
    Moment <- MCMoment
    Listings = {"conversations", "messages", "members", "invitations", "grants", "audit_events"}
    Limit = 2
CHECK_DEADLOCK FALSE
INVARIANTS PreparedWhole WaitsWithinBudget EvidenceIsSound OneEditionPerAnswer CursorIsStable
