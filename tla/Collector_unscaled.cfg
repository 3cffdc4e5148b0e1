\* The first energy value is written beside the probe.
SPECIFICATION Spec
CONSTANTS
  Instant <- InstantBatch
  Cumulative <- CumulativeBatch
  Scheduled <- ScheduledBatch
  Energy <- EnergyEpcs
  Others <- OtherEpcs
  MeterScales <- OddScales
  MaxBatches = 3
INVARIANTS
  NeverWrongScale
CHECK_DEADLOCK FALSE
