CONSTANTS
  t1 = t1  t2 = t2  t3 = t3
  old = old  reloaded = reloaded
  None = None
  Turn <- MCTurn
  Case <- MCCase
  CaseOf <- MCCaseOf
  SessionOf <- MCSessionOf
  Profile <- MCProfile
  MaxRetries = 1
  MayFail <- MCMayFail
SPECIFICATION CallsSpec
INVARIANTS
  OneProcessPerSession
  EndedCallLeavesNothing
PROPERTIES
  RunsSerially
  StoppedTurnEnds
  EveryTurnSettlesUnlessHanging
\* Every turn of the finite set settles and the system then stops.
CHECK_DEADLOCK FALSE
