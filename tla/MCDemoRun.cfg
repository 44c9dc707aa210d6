SPECIFICATION DemoSpec
CONSTANTS
  TimeTags <- MCTimeTags
  KpValues <- MCKpValues
  KpMax = 90
  Window = 15
  Threshold = 60
  None = None
  ExpectedEvents = 9
  IdleTimeout = 2
  MaxTopic = 18
  Malformed = Malformed
  OldRun = NoFile
  Partial = Partial
  Invalid = Invalid
  Fixture <- MCFixture
  OtherFiles <- MCOtherFiles
  Leftovers <- MCLeftovers
  ExpectedCounts <- MCExpectedCounts
  ExpectedAlerts <- MCExpectedAlerts
  ExpectedMetrics <- MCExpectedMetrics
  Stale = Stale
  Fresh = Fresh
INVARIANTS
  UndisturbedDemoSucceeds
  NoConsumerLeftBehind
  ArtifactsInOrder
  TopicIsReplayPrefix
  PassedDemoReadTheFixture
PROPERTIES
  DemoTerminates
CHECK_DEADLOCK FALSE
