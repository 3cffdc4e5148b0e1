\* A stdout that blocks holds the collector.
SPECIFICATION FairSpec
CONSTANTS
  Stuck = {"stdout"}
  Hangs = {}
  MaxBurst = 1
PROPERTIES
  NeverHeld
