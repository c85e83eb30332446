CONSTANTS
  SampleBits = 3
  CountMax = 4
  TotalMax = 12
SPECIFICATION Spec
INVARIANTS
  TypeOK
  SnapshotIsExact
PROPERTIES
  ErrorCountsNothing
