\* Two runs, of two revisions of the draft.
CONSTANTS
  Run = {r1, r2}
  None = None
  MaxDrafts = 1
  MaxRetries = 2
  MaxCrashes = 2
SPECIFICATION FairSpec
PROPERTIES CommitsWhenDone RunningRunEnds
CHECK_DEADLOCK FALSE
