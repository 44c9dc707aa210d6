SPECIFICATION Spec
CONSTANTS
  TimeTags <- MCTimeTags
  KpValues <- MCKpValues
  KpMax = 18
  KpUnit = 2
  Digit = 2
  Window = 1
  Threshold = 12
  MaxLines = 3
  Labellings <- MCLabels
  None = None
  Invalid = Invalid
  OldRun = OldRun
INVARIANTS
  PassCertifiesLabels
  ExitCodeIsSummary
  CasesFitTheFacts
CHECK_DEADLOCK FALSE
