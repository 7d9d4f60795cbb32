SPECIFICATION Spec
CONSTANTS
  N = 2
  Pipes = {0, 1}
  MaxSeq = 0
  NoAckKinds = {FALSE}
  AckPipes = {1}
  Calls = {"stop", "suspend"}
INVARIANTS
  BuffersKnown
  DmaOwned
  AckToItsPipe
  StaysStopped
  NoLostWakeup
