SPECIFICATION MCSpec
CONSTANTS
    None = None
    ReviewsPerPage = 1
    MaxReviews = 3
    Pulls = {1, 2}
    Sessions = {1, 2}
    Parents <- MCParents
    Limit = 2
    MaxApiCalls = 6
INVARIANTS
    InboxIsReal
    ResumeIsBound
    RepositoryRestored
    OthersUntouched
CHECK_DEADLOCK FALSE
