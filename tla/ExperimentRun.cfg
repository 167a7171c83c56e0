CONSTANTS
  Case = {1, 2}
  Concurrency = 2
  Rerun = TRUE
  Setups <- Instances
  MaxFaults = 3
SPECIFICATION Spec
INVARIANTS
    InvokedOnce
    CompletionTaken
    RecordsAreTrue
PROPERTIES
    KeepsLedger
    Resumes
CHECK_DEADLOCK FALSE
