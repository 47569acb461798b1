SPECIFICATION MCSpec
CONSTANTS
  p1 = p1
  v1 = v1
  q2 = q2
  Pair = {p1, p2}
  Visi = {v1, v2}
  PC = {q1, q2}
  Curr = {v1, q1}
  MaxId = 3
  MaxReq = 3
  MaxPhase = 2
  MaxReqLast = 2
INVARIANTS
  TypeOK
  HeldIsCollected
  NoOrphan
  CountsFit
  RateFits
PROPERTY DataKept
CHECK_DEADLOCK FALSE
