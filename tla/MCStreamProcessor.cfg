SPECIFICATION Spec
CONSTANTS
  TimeTags <- MCTimeTags
  KpValues <- MCKpValues
  KpMax = 9
  Window = 1
  Threshold = 6
  None = None
  ExpectedEvents = 3
  IdleTimeout = 2
  MaxTopic = 4
  Malformed = Malformed
  OldRun = OldRun
  Partial = Partial
INVARIANTS
  TypeOK
  ConsumesInOrder
  ArtifactsWhole
  ExitZeroMeansComplete
PROPERTIES
  ImplementsProcessor
  Terminates
CHECK_DEADLOCK FALSE
