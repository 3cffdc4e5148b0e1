\* Three attempts, two beacons, two datagrams: stale and lost events.
SPECIFICATION Spec
CONSTANTS
  Waiters = {}
  ScanCap = 1
  IncomingCap = 1
  EventCap = 2
  InitialBackoff = 2
  MaxBackoff = 3
  MaxAttempts = 3
  MaxBeacons = 2
  MaxFrames = 2
INVARIANTS
  TypeOK
  OwnOutcome
  OnlyRealLoss
  LossReachesArmed
CHECK_DEADLOCK FALSE
