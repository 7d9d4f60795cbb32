SPECIFICATION FairSpec
CONSTANTS
  N = 2
  Pipes = {0}
  MaxSeq = 1
  NoAckKinds = {TRUE, FALSE}
  Modes = {"parked", "auto", "finite"}
  Engines = {"converged"}
  Faults = {"refuse", "overstayed", "invalid_return", "fast_distance"}
  MaxExtends = 2
  Target = 1
  FastRefill = 1
CONSTRAINT
  Bound
INVARIANTS
  QuietOutsideSlot
PROPERTIES
  NoRepeat
  HintIsKept
  WindowsKeepComing
