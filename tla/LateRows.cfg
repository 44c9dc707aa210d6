SPECIFICATION Spec
CONSTANTS
  TimeTags <- MCTimeTags
  Second = 1
  MaxFailures = 0
  MaxTopic = 4
  None = None
PROPERTY
  LaterPollsPublishAll
