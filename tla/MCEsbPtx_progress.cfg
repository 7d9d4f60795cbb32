SPECIFICATION FairSpec
CONSTANTS
  N = 3
  MaxAttempts = 2
  RetransmitCC = 3
  AckCC = 2
  TxTicks = 2
  RxEndTicks = {1, 2}
  NoAckKinds = {TRUE, FALSE}
  AckPayloads = {FALSE}
  Reserve = 1
  Calls = {"query", "suspend"}
INVARIANTS
  NoLeak
PROPERTIES
  PidFresh
  InFlightCompletes
  SuspendReturns
