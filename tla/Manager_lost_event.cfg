\* An EVENT 29 handled before the channel is armed is lost.
SPECIFICATION Spec
CONSTANTS
  Waiters = {}
  ScanCap = 1
  IncomingCap = 1
  EventCap = 3
  InitialBackoff = 2
  MaxBackoff = 3
  MaxAttempts = 1
  MaxBeacons = 1
  MaxFrames = 0
INVARIANTS
  LossTearsDown
CHECK_DEADLOCK FALSE
