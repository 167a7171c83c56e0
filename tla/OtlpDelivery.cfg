SPECIFICATION DeliverySpec
CONSTANTS
    e1 = e1  e2 = e2  t1 = t1
    root = root  child = child  late = late
    Given <- MCGiven
    TraceOf <- MCTraceOf
    Roots = {root}
    Full <- MCFull
    Bare <- MCBare
    Limits = {1, 3}
    FirstLimit = 3
    Target = 3
    Waits = {1}
    MaxHold = 1
    MaxRetries = 2
    MaxLosses = 1
INVARIANTS
    CountsAddUp
    RootsShowLosses
PROPERTIES
    ExportsEnd
CHECK_DEADLOCK FALSE
