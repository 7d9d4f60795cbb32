SPECIFICATION RestartSpec
CONSTANTS
  SeqCount = 4
  Devices = {0}
  BoundPipes = {0, 1}
  NoDevice = NoDevice
  RightKeys = {r1}
  r1 = r1
  Keepalive = 1
  MaxSnapshots = 3
  NoSnap = NoSnap
  LeftKeys = {}
  Pipes = {0, 1}
  EventCap = 1
  HidCap = 1
  Timeout = 5
  Never = 7
  Ble = FALSE
  HciFails = FALSE
  MaxTries = 1
  MaxMute = 2
  Strangers <- MCStrangers
  MaxStrangers = 0
  Faults = {}
CHECK_DEADLOCK FALSE
INVARIANTS
  ConfirmedIsHeld
