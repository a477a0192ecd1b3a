SPECIFICATION Spec
CONSTANTS
    WordSize = 65536
    NoBound = NoBound
    t1 = t1
    t2 = t2
    Threads = {t1, t2}
    Shapes <- Vector
    Contents <- FourElements
    Values = {3}
    Slices <- SomeSlices
    Keys = {}
    AnyOperands = TRUE
    MaxCalls = 2
SYMMETRY ThreadSymmetry
INVARIANTS
    AsNumPy
