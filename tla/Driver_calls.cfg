\* Two callers, two calls, Close and both ends of the port.
SPECIFICATION FairSpec
CONSTANTS
  Callers = {c1, c2}
  EventCap = 1
  Failures = {"eof", "err"}
  MaxCalls = 2
  MaxEvents = 0
INVARIANTS
  TypeOK
  NeverBusy
  ResultNotDropped
  DriverInv
PROPERTIES
  CallReturns
  CloseUnblocks
  ReaderEnds
CHECK_DEADLOCK FALSE
