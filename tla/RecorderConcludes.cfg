SPECIFICATION Spec
CONSTANTS
  Runs = {r1}
  Gates = {g1, g2}
  MaxInvocations = 1
  NoRun = NoRun
  NoFile = NoFile
  Torn = Torn
PROPERTY RecorderConcludes
CHECK_DEADLOCK FALSE
