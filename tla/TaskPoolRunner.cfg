SPECIFICATION Spec
CONSTANTS
    NumTasks = 4
    HardwareConcurrency = 4
    NoTask = NoTask
INVARIANTS
    ReturnMeansDone
    FewBeginLate
PROPERTIES
    RunEnds
\* runTasks never returns after an exception, or the runner is destroyed
CHECK_DEADLOCK FALSE
