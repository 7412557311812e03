\* a manager of .DIGEST and a user who puts an article there
SPECIFICATION Spec
CONSTANTS
  p1 = p1
  p2 = p2
  p3 = p3
  Nobody = Nobody
  Procs = {p1, p2, p3}
  Mixes <- DigestAndDigest
  Old = 2
INVARIANTS FlagMeansDigest
\* everybody has done what he wanted
CHECK_DEADLOCK FALSE
