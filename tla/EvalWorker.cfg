SPECIFICATION EvalSpec
CONSTANTS
    Run = {r1, r2}
    Pinned = {r1}
    Grouped = {r1}
    None = none
    MaxRuns = 2
    MaxRunAttempts = 2
    MaxFaults = 2
    MaxMoves = 1
    MaxLost = 1
INVARIANTS
    CompletedIsFinished
    SealedFirst
    HandoffKept
PROPERTIES
    SettledIsReleased
    WorkEnds
CHECK_DEADLOCK FALSE
