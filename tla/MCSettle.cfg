CONSTANTS
    None = None
    Pulls = {1}
    Bases = {b1}
    Heads = {h1}
    MergeRefs = {}
    Workers = {w1}
    Times = {0, 1}
    Ids = {1, 2, 3}
    MaxEpoch = 1
    MaxSkew = 1
    MaxClock = 1
    Scopes = {"conform", "settle"}
    Events <- MCEvents
    Served <- MCServed
    Budget <- MCBudget
    Inputs <- OnlyReview
ACTION_CONSTRAINT Bounded
SPECIFICATION MCFairSpec
PROPERTIES
    ConformsToStore
    GatesSettle
    DeadlineIsEnforced
CHECK_DEADLOCK FALSE
