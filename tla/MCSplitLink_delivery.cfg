SPECIFICATION Spec
CONSTANTS
  SeqCount = 4
  Devices = {0}
  BoundPipes = {0, 1}
  NoDevice = NoDevice
  RightKeys = {r1}
  r1 = r1
  Keepalive = 1
  MaxSnapshots = 3
  NoSnap = NoSnap
  LeftKeys = {}
  Pipes = {0, 1}
  EventCap = 2
  HidCap = 1
  Timeout = 3
  Never = 5
  Ble = FALSE
  HciFails = FALSE
  MaxTries = 2
  MaxMute = 1
  Strangers <- MCStrangers
  MaxStrangers = 1
  Faults = {"left"}
CHECK_DEADLOCK FALSE
INVARIANTS
  ConfirmedIsHeld
  InSync
PROPERTIES
  DeliverySafe
  AppliedOnce
