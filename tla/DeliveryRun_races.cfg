CONSTANTS
  Phases <- FivePhases
  MaxResolve = 1
  MaxPatch = 2
  MaxCiFix = 1
  MaxPolls = 1
  SettlePolls = 1
  MaxBlockers = 2
  MaxEdits = 2
  MaxLaunches = 2
  DirtyStart = TRUE
  SaveMayFail = TRUE
  None = None
SPECIFICATION FairSpec
INVARIANTS
  MergedOnce
  ForeignWorkOnlyAfterRefusal
PROPERTIES
  RedNeverMerged
  PatchGetsFindings
  RunEnds
CHECK_DEADLOCK FALSE
