CONSTANTS
  MaxCalls = 2
  MaxManifests = 2
  MaxOverruns = 0
SPECIFICATION RSpec
INVARIANT CorruptIsReal
