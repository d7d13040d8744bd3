CONSTANTS
  Requests = {r1, r2, r3}
  TicketIds = {t1, t2}
  Salons = {s1}
  Hairdressers = {h1}
  None = None
SPECIFICATION MCSpec
SYMMETRY Symmetry
INVARIANTS
  AuditTellsStatus
  ServedWasStarted
  NumbersDense
  AheadIsUpperBound
PROPERTIES
  NumbersGrow
  LifecycleWhenAlone
