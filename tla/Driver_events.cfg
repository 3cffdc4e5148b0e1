\* Two calls, three events or blocks between the lines, a channel of two.
SPECIFICATION Spec
CONSTANTS
  Callers = {c1}
  EventCap = 2
  Failures = {"eof", "err"}
  MaxCalls = 2
  MaxEvents = 3
INVARIANTS
  MatchUnlessTainted
  EvictionMakesRoom
PROPERTIES
  EventsImplementQueue
CHECK_DEADLOCK FALSE
