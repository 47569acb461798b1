SPECIFICATION Spec
CONSTANTS
  d1 = d1
  d2 = d2
  m1 = m1
  m2 = m2
  c1 = c1
  c2 = c2
  Daemon <- MCDaemon
  InitialDaemons <- MCInitialDaemons
  Reliable <- MCDaemon
  MI = {m1}
  Focus <- MCOneFocus
  Client = {c1}
  NumReq = 1
  MaxPhase = 0
  MaxPrograms = 2
INVARIANT
  DaemonsCountedOnce
CHECK_DEADLOCK FALSE
