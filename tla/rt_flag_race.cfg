SPECIFICATION ConsoleSpec
CONSTANTS
    t1 = t1
    t2 = t2
    t3 = t3
    m1 = m1
    m2 = m2
    None = None
    Threads = {t1, t2}
    Managers = {m1, m2}
    Worker = FALSE
    RunsMain = TRUE
    MaxPolls = 2
    SpuriousWakeups = FALSE
    Serialized = FALSE
INVARIANTS
    QuiescentAgrees
