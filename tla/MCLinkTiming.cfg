SPECIFICATION Spec
CONSTANTS
  Hints <- MCHints
  HintValid = 8
  MaxWait = 3
  Guard = 1
  MissLimit = 2
  MaxNow = 14
  NoHint = NoHint
INVARIANTS
  AimsAtNextWindow
  WaitIsBounded
