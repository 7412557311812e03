\* two managers delete ranges
SPECIFICATION Spec
CONSTANTS
  p1 = p1
  p2 = p2
  p3 = p3
  Nobody = Nobody
  Procs = {p1, p2, p3}
  Mixes <- Managers2
  Old = 2
PROPERTIES RangeIsTarget
\* everybody has done what he wanted
CHECK_DEADLOCK FALSE
