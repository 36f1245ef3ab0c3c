SPECIFICATION MCSpec
CONSTANTS
    None = None
    PageSize = 2
    MaxPages = 2
    Definitions <- MCDefinitions
    StartStates <- MCStartStates
    Branch <- MCBranch
    OtherPulls <- MCOtherPulls
    MaxFiles = 3
    DefaultBranch = "main"
    PullLimit = 2
    DefaultPageSize = 2
    MaxRequests = 57
    MaxDisturbances = 2
INVARIANTS
    ReportWasTrue
    EvidenceHolds
    CleanIsEarned
CHECK_DEADLOCK FALSE
