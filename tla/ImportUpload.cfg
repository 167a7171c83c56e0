SPECIFICATION FairSpec
CONSTANTS
    v1 = v1
    b1 = b1
    b2 = b2
    b3 = b3
    None = None
    Traces = 2
    Workers = 2
    Values <- MCValues
    Batches <- MCBatches
    Refusable <- MCRefusable
    MaxTries = 2
    MaxWrites = 2
    MaxFaults = 2
INVARIANTS
    RecordsAreTrue
PROPERTIES
    KeepsLedger
    NotSentAgain
    RunsEnd
CHECK_DEADLOCK FALSE
