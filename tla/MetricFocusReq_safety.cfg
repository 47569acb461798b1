SPECIFICATION Spec
CONSTANTS
  d1 = d1
  d2 = d2
  m1 = m1
  m2 = m2
  c1 = c1
  c2 = c2
  Daemon <- MCDaemon
  InitialDaemons <- MCInitialDaemons
  Reliable <- MCDaemon
  MI <- MCMI
  Focus <- MCFocus
  Client = {c1}
  NumReq = 2
  MaxPhase = 1
  MaxPrograms = 0
INVARIANTS
  TypeOK
  NoDanglingBundle
  FirstPhaseIsSafe
  DecisionIsTold
  OneFinalAnswer
  SuccessIsUnanimous
  LastWhenAllSucceed
  EnabledHasSucceeded
  AddedComponentIsNew
PROPERTIES
  NothingAfterLast
  DecisionIsStable
  ImplementsService
CHECK_DEADLOCK FALSE
