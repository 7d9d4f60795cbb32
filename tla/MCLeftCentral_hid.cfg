SPECIFICATION Spec
CONSTANTS
  SeqCount = 2
  Devices = {0}
  BoundPipes = {0, 1}
  NoDevice = NoDevice
  RightKeys = {r1}
  r1 = r1
  Keepalive = 1
  MaxSnapshots = 3
  NoSnap = NoSnap
  LeftKeys = {l1}
  l1 = l1
  Pipes = {0, 1}
  EventCap = 1
  HidCap = 2
  Timeout = 1
  Never = 3
  Ble = TRUE
  HciFails = TRUE
  InSequences = {0, 1}
INVARIANTS
  NoStuckKey
  HostReleased
PROPERTIES
  ChangesReachHid
