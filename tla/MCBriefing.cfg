SPECIFICATION Spec
CONSTANTS
  r1 = r1
  r2 = r2
  Requests <- MCRequests
  Facts <- MCFacts
  Responses <- MCResponses
  Digit = 1
  MaxFaults = 1
  None = None
  NoFile = NoFile
INVARIANTS
  DemoNotGated
  PageFailsOnlyByRemoval
PROPERTIES
  WritesWhatItRead
  CandidateOfTheRequest
  RequestsAnswered
CHECK_DEADLOCK FALSE
