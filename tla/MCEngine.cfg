CONSTANTS
  MaxCalls = 3
  MaxManifests = 3
  MaxOverruns = 2
SPECIFICATION EFairSpec
INVARIANTS
  EngineTypeOK
  AnnouncedIsDurable
  EventOrder
  CompletedIsComplete
  OutcomeAgrees
PROPERTIES
  PrimaryErrorKept
  ImplementsProtocol
  CancelEndsSession
