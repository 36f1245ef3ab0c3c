SPECIFICATION MCSpec
CONSTANTS
    None = None
    Paths = {1, 2, 3}
    NonUtf8 = {2}
    Unreadable = {}
    MaxSourceBytes = 5
    MaxTotalBytes = 8
    MaxFileVisits = 9
    Sources <- MCSources
    MaxLedgerDeliveries = 5
    MaxLedgerReviews = 2
    MaxRules = 2
    MaxOwnersPerRule = 2
    MaxUsers = 3
    MaxMembers = 3
    PageSize = 1
    MaxRequests = 28
    Tree <- MCTree
    MergeBase <- MCMergeBase
    Places <- MCPlaces
    MaxCheckpoints = 2
    MaxRequirements = 4
    MaxProofEntries = 8
    MaxExpandedCells = 24
    Users = {1, 2, 3}
    Reviewers = {1, 2}
    Heads = {3, 4, 5, 6, 7}
    Bases = {1, 2}
    Answers <- MCAnswers
    TeamAnswers <- MCTeamAnswers
INVARIANTS
    DeltaHolds
    ReplayCommutes
    ReceiptsHold
    SnapshotWasReal
    GateIsEarned
CHECK_DEADLOCK FALSE
