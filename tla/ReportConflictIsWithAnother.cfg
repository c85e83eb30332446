SPECIFICATION RSpec
CONSTANTS
  Writers <- WritersMC
  Processes <- ProcessesMC
  ProcessOf <- ProcessOfMC
  Overwrite <- OverwriteMC
  Names <- NamesMC
  Planted <- PlantedMC
  Attempts = 2
INVARIANT ConflictIsWithAnother
CHECK_DEADLOCK FALSE
