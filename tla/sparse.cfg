SPECIFICATION BSpec
CONSTANTS
    w1 = w1
    w2 = w2
    Workers = {w1, w2}
    CsrInputs <- MCCsrInputs
    Sizes = {0, 1, 3}
    Vectors <- MCVectors
    Denses <- MCDenses
    NewValue = 7
    Params <- MCParams
    Durations = {1, 2}
CHECK_DEADLOCK FALSE
INVARIANTS
    ReadsInside
    ProductIsDense
    RunsAsAsked
