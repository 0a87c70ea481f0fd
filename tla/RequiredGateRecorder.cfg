SPECIFICATION Spec
CONSTANTS
  Runs = {r1, r2}
  Gates = {g1}
  MaxInvocations = 2
  NoRun = NoRun
  NoFile = NoFile
  Torn = Torn
SYMMETRY MCSymmetry
INVARIANTS
  TypeOK
  StatusOfOneRun
  JudgedWhatItBinds
  BoundResultPasses
CHECK_DEADLOCK FALSE
