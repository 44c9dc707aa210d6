SPECIFICATION Spec
CONSTANTS
  TimeTags <- MCTimeTags
  Second = 2
  MaxFailures = 3
  MaxTopic = 4
  None = None
INVARIANTS
  TypeOK
  CheckpointIsOnTopic
  SelectedNotLost
  ExitZeroMeansHandled
PROPERTIES
  CheckpointMonotone
  OnlyNewerPublished
  NewestIsPublished
