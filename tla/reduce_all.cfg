SPECIFICATION Spec
CONSTANTS
    w1 = w1
    w2 = w2
    Workers = {w1, w2}
    Cases <- SmallCases
    Bits = 4
    Mantissa = 8
CHECK_DEADLOCK FALSE
INVARIANTS
    ReturnsNumPy
PROPERTIES
    Answers
