SPECIFICATION CSpec
CONSTANTS
  c1 = c1
  Creators <- CreatorsMC
  Paths <- PathsMC
  About <- AboutMC
  Versions <- VersionsMC
  Requests <- RequestsMC
  Contested <- ContestedMC
  MaxRewrites = 0
INVARIANT VerdictIsRight
CHECK_DEADLOCK FALSE
