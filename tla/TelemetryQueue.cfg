SPECIFICATION QueueSpec
CONSTANTS
    Span = {s1, s2}
    Log = {l1}
    Cohort = {c1, c2, c3, c4}
    Upload = {u1}
    None = none
    MaxQueue = 2
    MaxBytes = 4
    MaxSize = 2
    MaxBatch = 1
INVARIANTS
    QueueAccounts
    HostPromiseHolds
PROPERTIES
    PromisesResolve
CHECK_DEADLOCK FALSE
