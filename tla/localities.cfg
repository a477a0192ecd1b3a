SPECIFICATION FairLSpec
CONSTANTS
    t1 = t1
    t2 = t2
    m1 = m1
    m2 = m2
    None = None
    Threads = {t1, t2}
    Managers = {m1, m2}
    Worker = TRUE
    RunsMain = FALSE
    MaxPolls = 1
    SpuriousWakeups = FALSE
    Serialized = FALSE
CHECK_DEADLOCK FALSE
INVARIANTS
    OwnedOnce
    SumAgrees
    SumNotCutOff
PROPERTIES
    InitReturns
    SumReturns
    ProgramsEnd
