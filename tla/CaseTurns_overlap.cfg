\* Two messages of one case at any time, the second awaited by its request.
CONSTANTS
  None = None
  Msg = {m1, m2}
  SyncMsg = {m2}
  ClientOps = {"stop", "retry", "delete"}
  Overlap = TRUE
  SlowTurn = TRUE
  MaxRuntimes = 1
  MaxCrashes = 1
  MaxRetries = 1
SPECIFICATION FairSpec
INVARIANT StopHitsItsTurn
PROPERTIES
  StoppedTurnIsSettled
  ActiveCaseSettles
\* With its messages, retries and crashes used up the system may stop.
CHECK_DEADLOCK FALSE
