SPECIFICATION Spec
CONSTANTS
  r1 = r1
  r2 = r2
  Requests = {r1}
  Facts <- TwoAlerts
  Responses <- MCResponses
  Digit = 1
  MaxFaults = 0
  None = None
  NoFile = NoFile
INVARIANT
  VerifiedBriefingMatchesAlert
CHECK_DEADLOCK FALSE
