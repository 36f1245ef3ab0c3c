CONSTANTS
    Inputs <- MCInputs
    MaxSkew = 1
    None = None
    Pulls = {1}
    Bases = {b1}
    Heads = {h1, h2}
    MergeRefs = {r1}
    Workers = {w1}
    Times = {1, 2}
    Ids = {1}
    MaxEpoch = 2
SYMMETRY HeadSymmetry
ACTION_CONSTRAINT Bounded
SPECIFICATION MCSpec
INVARIANTS
    ActiveGateMatchesPair
    ActivePairIsNewest
    NothingUnqueued
    SuccessIsCurrent
    QuarantineFailsClosed
    MergeHeadsRetireForGood
CHECK_DEADLOCK FALSE
