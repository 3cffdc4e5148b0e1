\* Three batches of one, two and one EPC beside the probe.
SPECIFICATION FairSpec
CONSTANTS
  Instant <- InstantBatch
  Cumulative <- CumulativeBatch
  Scheduled <- ScheduledBatch
  Energy <- EnergyEpcs
  Others <- OtherEpcs
  MeterScales <- OddScales
  MaxBatches = 3
INVARIANTS
  TypeOK
  ScaleIsWhole
  AskedIfPresent
  MapAsAdvertised
PROPERTIES
  ProbeSucceeds
  CancelEnds
CHECK_DEADLOCK FALSE
