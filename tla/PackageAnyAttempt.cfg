SPECIFICATION Spec
CONSTANTS
  c = c
  r = r
  x = x
  Gates <- MCGates
  CoreRequired = {c}
  Required <- MCRequired
  ReleaseRequired = {x}
  DetectorsGate = x
  MaxAttempts = 2
  NewestFirst = FALSE
  None = None
INVARIANT PackageOfOneAttempt
CHECK_DEADLOCK FALSE
