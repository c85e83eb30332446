SPECIFICATION CSpec
CONSTANTS
  c1 = c1
  c2 = c2
  Creators <- CreatorsMC
  Paths <- PathsMC
  About <- AboutMC
  Versions <- VersionsMC
  Requests <- RequestsMC
  Contested <- ContestedMC
  MaxRewrites = 2
SYMMETRY SymmetryMC
INVARIANTS CTypeOK PromotedIsFaithful
PROPERTY ImplementsPublishOnce
CHECK_DEADLOCK FALSE
