\* Two writers, two series, two windows, three samples.
SPECIFICATION FairSpec
CONSTANTS
  Writers = {w1, w2}
  Series = {"power", "energy"}
  Windows = {0, 1}
  MaxSamples = 3
INVARIANTS
  TypeOK
  Coherent
  NeverTwice
  NothingLost
PROPERTIES
  ImplementsAggregator
  SampleLeaves
CHECK_DEADLOCK FALSE
