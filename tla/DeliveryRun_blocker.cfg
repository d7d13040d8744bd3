CONSTANTS
  Phases <- FivePhases
  MaxResolve = 1
  MaxPatch = 2
  MaxCiFix = 1
  MaxPolls = 1
  SettlePolls = 1
  MaxBlockers = 2
  MaxEdits = 2
  MaxLaunches = 1
  DirtyStart = FALSE
  SaveMayFail = FALSE
  None = None
SPECIFICATION Spec
INVARIANT NoBlockerMerged
CHECK_DEADLOCK FALSE
