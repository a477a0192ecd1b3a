SPECIFICATION Spec
CONSTANTS
    Bits = 6
    Frac = 2
    Precision <- MCPrecision
    TopUnit <- MCTopUnit
    Elements <- MCElements
    Scalars <- MCScalars
    Exponents <- MCExponents
    Ends <- MCEnds
    Steps <- MCSteps
    Counts = {1, 2, 4, 6}
CHECK_DEADLOCK FALSE
INVARIANTS
    TypeOK
    ArrayCallsAsNumPy
    ScalarCallsAsNumPy
    TrapsOnlyOnOverflow
    RoundsAndClips
    RampsAsNumPy
