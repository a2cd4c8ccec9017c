CONSTANTS
  c1 = c1
  c2 = c2
  c3 = c3
  c4 = c4
  p1 = p1
  p2 = p2
  p3 = p3
  Caller <- MCCaller
  Pid <- MCPid
  PidOf <- MCPidOf
  None = None
  MaxTokens = 3
  MaxCrashes = 2
SPECIFICATION LockSpec
INVARIANTS MutualExclusion HolderKeepsLock
PROPERTY ImplementsLease
CHECK_DEADLOCK FALSE
