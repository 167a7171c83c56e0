CONSTANTS
  p1 = p1  p2 = p2  p3 = p3  p4 = p4
  Process = {p1, p2, p3, p4}
  Host <- TwoMachines
  Absent = Absent
  Empty = Empty
SPECIFICATION LockSpec
SYMMETRY Alike
INVARIANTS OneOwnerUnlessStale TakenFromTheDead
CHECK_DEADLOCK FALSE
