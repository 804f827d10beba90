SPECIFICATION MapSpec
CONSTANTS
    Task <- MCTask
    NoTask = NoTask
    m1 = m1
    m2 = m2
    Mesh = {m1, m2}
    Uses <- MCUses
    Suffix <- MCSuffix
INVARIANTS
    ClassifiedWhenWaitedFor
\* the main thread ends
CHECK_DEADLOCK FALSE
