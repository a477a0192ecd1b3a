SPECIFICATION Spec
CONSTANTS
    None = None
    t1 = t1
    t2 = t2
    x = x
    y = y
    z = z
    o1 = o1
    o2 = o2
    o3 = o3
    o4 = o4
    b1 = b1
    b2 = b2
    b3 = b3
    Threads = {t1, t2}
    Names = {x, y}
    Objects = {o1, o2, o3, o4}
    Blocks = {b1, b2, b3}
SYMMETRY Interchange
INVARIANTS
    CountsExact
    NoDangling
    NoLeak
PROPERTIES
    BorrowsDieUnderGil
