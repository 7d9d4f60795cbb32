SPECIFICATION FairSpec
CONSTANTS
  N = 2
  Pipes = {0}
  MaxSeq = 3
  NoAckKinds = {TRUE, FALSE}
  AckPipes = {0}
  Calls = {"try_suspend"}
INVARIANTS
  AckedIsDelivered
PROPERTIES
  DeliveredOnce
  ReceptionSafe
