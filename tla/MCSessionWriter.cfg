CONSTANTS
  MaxCalls = 3
  MaxManifests = 3
  MaxOverruns = 1
SPECIFICATION WSpec
INVARIANTS
  TypeOK
  CsvIsBacked
  AckedIsDurable
  OneUnreportedRow
  ForeignDirUntouched
  ManifestsCountDurable
PROPERTIES
  PoisonIsFinal
  ImplementsCommitLog
