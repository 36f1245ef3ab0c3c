CONSTANTS
    None = None
    Pulls = {1}
    Bases = {b1}
    Heads = {h1, h2}
    MergeRefs = {}
    Workers = {w1, w2}
    Times = {0, 1}
    Ids = {1}
    MaxEpoch = 2
    MaxSkew = 1
    MaxClock = 1
    Scopes = {"dispatch", "evaluate", "again", "adopt", "publish"}
    Events <- MCEvents
    Served <- MCServed
    Budget <- MCBudget
    Inputs <- AllInputs
SYMMETRY Symmetry
ACTION_CONSTRAINT Bounded
SPECIFICATION MCSpec
INVARIANTS
    AtMostOnePost
    SuccessIsBacked
    DecisionIsUpToDate
    CanonicalRunSettles
CHECK_DEADLOCK FALSE
