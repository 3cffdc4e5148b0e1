\* Every set of sinks, a stdout that blocks, an InfluxDB whose Close hangs.
SPECIFICATION FairSpec
CONSTANTS
  Stuck = {"stdout"}
  Hangs = {"influxdb"}
  MaxBurst = 2
INVARIANTS
  TypeOK
  NothingAfterClose
PROPERTIES
  ComesBack
