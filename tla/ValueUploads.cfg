SPECIFICATION FairPoolSpec
CONSTANTS
    u1 = u1
    u2 = u2
    u3 = u3
    u4 = u4
    u5 = u5
    x1 = x1
    x2 = x2
    x3 = x3
    None = None
    Upload = {u1, u2, u3, u4, u5}
    Text = {x1, x2, x3}
    Altered = {u1}
    Value <- MCValue
    Held <- MCHeld
    TextBytes <- MCBytes
    Size = 1
    Attempts = 2
    MaxQueued = 4
    MaxHeld = 4
    MaxOutcomes = 3
    MaxFaults = 2
INVARIANTS
    PoolAddsUp
    OutcomesShared
PROPERTIES
    Settles
CHECK_DEADLOCK FALSE
