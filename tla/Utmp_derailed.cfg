\* a chain changes while a kicker follows it
SPECIFICATION Spec
CONSTANTS
  t1 = t1
  t2 = t2
  t3 = t3
  w1 = w1
  w2 = w2
  w3 = w3
  k1 = k1
  k2 = k2
  N = 3
  Users <- TwoUsers
  Hash <- OneChain
  Pids <- TelnetPids
  Garbage <- Anything
  Telnet = {t1, t2}
  Web = {}
  Kickers = {k1}
  Choosers = {}
  UserOf <- UsersHere
  Target <- FirstUser
  Casts <- AllCome
  MaxKick = 10
  Faults = FALSE
PROPERTY AllKicked
\* everybody has left
CHECK_DEADLOCK FALSE
