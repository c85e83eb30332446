CONSTANTS
  MaxCalls = 2
  MaxManifests = 2
  MaxOverruns = 0
SPECIFICATION RSpec
INVARIANTS
  ReaderTypeOK
  OpenedIsCommitted
  RawsAreTheRows
  QuietSessionOpens
