SPECIFICATION Spec
CONSTANTS
  N = 3
  MaxAttempts = 2
  RetransmitCC = 3
  AckCC = 2
  TxTicks = 2
  RxEndTicks = {1, 2}
  NoAckKinds = {FALSE}
  AckPayloads = {TRUE, FALSE}
  Reserve = 0
  Calls = {"set_pipe", "query", "try_suspend", "suspend"}
INVARIANTS
  TypeOK
  OneOwner
  NoLostReception
  DmaOwned
  SuspendNeverForces
  QuietWhileSuspended
