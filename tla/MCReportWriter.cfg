SPECIFICATION RSpec
CONSTANTS
  Writers <- WritersMC
  Processes <- ProcessesMC
  ProcessOf <- ProcessOfMC
  Overwrite <- OverwriteMC
  Names <- NamesMC
  Planted <- PlantedMC
  Attempts = 2
INVARIANTS
  ReportTypeOK
  DestIsWhole
  VerdictAgrees
PROPERTIES
  NoClobber
  OthersTempsKept
CHECK_DEADLOCK FALSE
