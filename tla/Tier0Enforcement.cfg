SPECIFICATION Spec
CONSTANTS
  c = c
  r = r
  x = x
  Gates <- MCGates
  CoreRequired = {c}
  Required <- MCRequired
  ReleaseRequired = {x}
  DetectorsGate = x
  MaxAttempts = 2
  NewestFirst = TRUE
  None = None
INVARIANT ReleaseGradeEnforced
CHECK_DEADLOCK FALSE
