SPECIFICATION Spec
CONSTANTS
    Records = 2
    ClientFlushes = 2
    AllFlushes = 3
    MaxIssues = 2
CHECK_DEADLOCK FALSE
PROPERTIES
    KeepsPromise
    SendsEnd
