SPECIFICATION Spec
CONSTANTS
  TimeTags <- MCTimeTags
  Second = 1
  MaxFailures = 1
  MaxTopic = 4
  None = None
INVARIANT
  NeverRepublished
