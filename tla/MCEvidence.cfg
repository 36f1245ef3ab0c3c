CONSTANTS
    Inputs <- MCInputs
    MaxSkew = 1
    DispatchedAt = 1
SPECIFICATION Spec
INVARIANTS
    RowsConverge
    SuccessUncontradicted
