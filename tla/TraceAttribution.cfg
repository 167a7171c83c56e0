SPECIFICATION Spec
CONSTANTS
    Trace = {c1, c2}
    Other = other
    History = 1
    MaxNamed = 2
    MaxRemembered = 2
    MaxIssues = 2
    MaxCrashes = 1
SYMMETRY Symmetric
CHECK_DEADLOCK FALSE
INVARIANTS
    FlushAcceptsWhole
PROPERTY DecisionsHold
