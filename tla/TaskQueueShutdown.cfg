SPECIFICATION Spec
CONSTANTS
    Task = {t1}
    NoTask = NoTask
PROPERTIES
    ShutdownReturns
\* the client stops
CHECK_DEADLOCK FALSE
