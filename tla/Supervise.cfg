CONSTANTS
    Modes = {"bounded", "critical", "inherited"}
    Limit = 1
SPECIFICATION Spec
INVARIANTS
    OutputIsComplete
    NobodyLeftBehind
PROPERTIES
    AlwaysReturns
CHECK_DEADLOCK FALSE
