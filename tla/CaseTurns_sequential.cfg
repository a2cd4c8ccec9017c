\* Two messages of one case, each sent when the one before it is settled.
CONSTANTS
  None = None
  Msg = {m1, m2}
  SyncMsg = {}
  ClientOps = {"stop", "retry", "archive", "edit"}
  Overlap = FALSE
  SlowTurn = FALSE
  MaxRuntimes = 2
  MaxCrashes = 2
  MaxRetries = 2
SPECIFICATION Spec
INVARIANTS
  SettledCaseIsAnswered
  OneBoundReply
PROPERTIES
  ImplementsConversation
\* With its messages, retries and crashes used up the system may stop.
CHECK_DEADLOCK FALSE
