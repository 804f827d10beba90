SPECIFICATION Spec
CONSTANTS
    Task = {t1, t2, t3}
    NoTask = NoTask
INVARIANTS
    WaitThenShutdownRunsAll
PROPERTIES
    RunsSerially
    EveryTaskStarts
    WaitReturns
\* the client stops
CHECK_DEADLOCK FALSE
