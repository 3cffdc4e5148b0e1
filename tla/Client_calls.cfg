\* Two callers, three calls, three TIDs with zero: the third call reuses one.
SPECIFICATION Spec
CONSTANTS
  Callers = {c1, c2}
  TidSpace = 3
  MaxCalls = 3
  MaxOwn = 1
SYMMETRY CallerSymmetry
INVARIANTS
  TypeOK
  HandoffNeverBlocks
  OwnResponse
  WaitingIsReachable
  NoLeftover
CHECK_DEADLOCK FALSE
