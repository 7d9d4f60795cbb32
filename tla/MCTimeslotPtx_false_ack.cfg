SPECIFICATION Spec
CONSTANTS
  N = 1
  Modes = {"poll"}
  Gates = {"off"}
  Converged = TRUE
  Faults = {}
  Target = 2
  ReportEvery = 2
  MaxRetries = 1
  MissLimit = 2
  SkipSlots = 1
INVARIANTS
  AckedIsReleased
