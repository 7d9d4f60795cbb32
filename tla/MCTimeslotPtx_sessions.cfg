SPECIFICATION FairSpec
CONSTANTS
  N = 2
  Modes = {"poll", "event", "finite", "single", "chained"}
  Gates = {"off", "skip", "lock"}
  Converged = TRUE
  Faults = {"refuse", "overstayed", "invalid_return"}
  Target = 2
  ReportEvery = 2
  MaxRetries = 1
  MissLimit = 2
  SkipSlots = 1
INVARIANTS
  TypeOK
  AckOkIsDelivered
  QuietOutsideSlot
  NormalIsLocked
PROPERTIES
  SessionsGoOn
