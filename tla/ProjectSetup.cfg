SPECIFICATION FairSpec
CONSTANTS
    Command = {"setup", "setup_agent", "status", "claim", "claim_restart"}
    Budget = 3
    PerCommand = 2
    MaxIds = 3
    MaxFaults = 3
INVARIANTS
    NothingRepeated
    RecordsAreTrue
PROPERTIES
    NothingForgotten
    Reconciles
CHECK_DEADLOCK FALSE
