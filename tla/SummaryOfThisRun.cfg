SPECIFICATION Spec
CONSTANTS
  Runs = {r1, r2}
  Gates = {g1}
  MaxInvocations = 2
  NoRun = NoRun
  NoFile = NoFile
  Torn = Torn
SYMMETRY MCSymmetry
INVARIANT SummaryOfThisRun
CHECK_DEADLOCK FALSE
