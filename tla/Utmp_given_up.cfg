\* a web login times out
SPECIFICATION Spec
CONSTANTS
  t1 = t1
  t2 = t2
  t3 = t3
  w1 = w1
  w2 = w2
  w3 = w3
  k1 = k1
  k2 = k2
  N = 2
  Users <- TwoUsers
  Hash <- OneChain
  Pids <- TelnetPids
  Garbage <- Anything
  Telnet = {}
  Web = {w1}
  Kickers = {}
  Choosers = {}
  UserOf <- UsersHere
  Target <- FirstUser
  Casts <- AllCome
  MaxKick = 10
  Faults = TRUE
INVARIANT Reclaimable
\* everybody has left
CHECK_DEADLOCK FALSE
