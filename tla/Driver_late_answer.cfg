\* The late answer of a timed-out call completes the next one.
SPECIFICATION Spec
CONSTANTS
  Callers = {c1, c2}
  EventCap = 1
  Failures = {}
  MaxCalls = 2
  MaxEvents = 0
INVARIANTS
  AnswerMatches
CHECK_DEADLOCK FALSE
