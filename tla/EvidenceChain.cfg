SPECIFICATION Spec
CONSTANTS
  Runs = {r1, r2}
  NoKey = NoKey
  Policies = {p1, p2, p3}
  p1 = p1
  p2 = p2
  p3 = p3
  g1 = g1
  g2 = g2
  x1 = x1
  x2 = x2
  Gates = {g1, g2, x1, x2}
  Required <- MCRequired
  ReleaseRequired <- MCReleaseRequired
  Supported = {x1, x2}
  Detectors = {d1, d2}
  Stamps = {s1}
  NoFile = NoFile
  Torn = Torn
  MaxDisturbances = 3
INVARIANTS
  TypeOK
  IndexDescribesDir
  StatusAllOrNothing
  EnvelopesNeverMixed
  NoGrantOnTopOfGrant
PROPERTY AuthorityRefinement
