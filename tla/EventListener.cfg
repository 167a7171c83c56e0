SPECIFICATION FairListenerSpec
CONSTANTS
    d1 = d1
    d2 = d2
    None = None
    Delivery = {d1, d2}
    Answer = {"response", "timeout"}
    Batch = 2
    Memory = 1
    MaxItems = 2
    MaxRuns = 2
INVARIANTS
    AnsweredOnce
    StopIsOrderly
PROPERTIES
    Stops
CHECK_DEADLOCK FALSE
