\* Two attempts and one waiter: loss, a full incoming channel, cancellation.
SPECIFICATION FairSpec
CONSTANTS
  Waiters = {w1}
  ScanCap = 1
  IncomingCap = 1
  EventCap = 2
  InitialBackoff = 1
  MaxBackoff = 1
  MaxAttempts = 2
  MaxBeacons = 1
  MaxFrames = 1
PROPERTIES
  ArmedLossEnds
  CancelStops
  WaiterServed
  AttemptEnds
CHECK_DEADLOCK FALSE
