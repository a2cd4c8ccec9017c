CONSTANTS
  p1 = p1
  p2 = p2
  p3 = p3
  g1 = g1
  g2 = g2
  g3 = g3
  Proc <- MCProc
  Gen <- MCGen
  None = None
  ParallelRecovery = FALSE
  MaxCrashes = 2
SPECIFICATION Spec
SYMMETRY Symmetry
INVARIANTS OneWriter ActiveAndPredecessorAreComplete
PROPERTY ReplacesExpected
CHECK_DEADLOCK FALSE
