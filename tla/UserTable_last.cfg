\* an account in the last slot is never deleted, and killd goes no further
SPECIFICATION FairSpec
CONSTANTS
  c1 = c1
  c2 = c2
  a = a
  b = b
  c3 = c3
  d = d
  Earlier = Earlier
  Nobody = Nobody
  Clients = {c1, c2, c3}
  Names = {a, b, d}
  Odd = {}
  NameHash <- TwoChains
  HashSize = 2
  MaxUsers = 3
  Tables <- LastTables
  Mixes <- SafeMixes
  Windows = {"level", "number", "check", "walk", "copy", "enter", "torn"}
PROPERTIES AllGone
\* everybody may be done
CHECK_DEADLOCK FALSE
