CONSTANTS
  CsvFiles <- MCCsvFiles
  BinFiles <- MCBinFiles
  MaxOnes = 1
  Start = 0
  Interval = 1
  LastTime = 0
  MaxSamples = 2
SPECIFICATION Spec
INVARIANTS
  TimestampRangeIsReported
