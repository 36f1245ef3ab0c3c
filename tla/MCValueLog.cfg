CONSTANTS
    None = None
    Inboxes = {1}
    Resumes = {2}
    Reports = {}
    Ids = {1, 2, 3}
    Transitions = {t1}
    Inodes = {i1, i2, i3, i4, i5, i6, i7}
    MaxEvents = 6
    MaxCandidates = 2
    MaxLosses = 1
    MaxFaults = 2
SPECIFICATION MCSpec
INVARIANTS
    LogHolds
PROPERTIES
    KeepsPromise
    OperationsEnd
CHECK_DEADLOCK FALSE
