SPECIFICATION Spec
CONSTANTS
  TimeTags <- MCTimeTags
  KpValues <- MCKpValues
  KpMax = 9
  Window = 2
  Threshold = 6
  MaxMessages = 5
  None = None
INVARIANTS
  TypeOK
  AcceptedIffNewest
  DuplicateIffAcceptedBefore
  WindowExact
  ArmedIffQuiet
  AlertSpacing
  AlertIsPeak
  StormReported
  CountsAgree
PROPERTIES
  ImplementsRule
CHECK_DEADLOCK FALSE
