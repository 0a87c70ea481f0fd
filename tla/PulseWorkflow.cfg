SPECIFICATION Spec
CONSTANTS
  c = c
  r = r
  x = x
  Gates <- MCGates
  CoreRequired = {c}
  Required <- MCRequired
  ReleaseRequired = {x}
  DetectorsGate = x
  MaxAttempts = 2
  NewestFirst = TRUE
  None = None
INVARIANTS
  TypeOK
  VerifiedInOneAttempt
  InputsFound
  ProdPassSupported
  BindingAgreesOutsideTier0
  PackageOfOneAttempt
PROPERTIES
  AttemptConcludes
  HealthyReleaseVerified
CHECK_DEADLOCK FALSE
