SPECIFICATION Spec
CONSTANTS
    WordSize = 65536
    NoBound = NoBound
    t1 = t1
    t2 = t2
    Threads = {t1, t2}
    Shapes <- VectorAndMatrix
    Contents <- FourElements
    Values = {3}
    Slices <- SomeSlices
    Keys <- RowAndColumn
    AnyOperands = FALSE
    MaxCalls = 3
SYMMETRY ThreadSymmetry
INVARIANTS
    AsNumPy
    RaceFree
