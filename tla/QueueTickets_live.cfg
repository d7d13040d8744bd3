CONSTANTS
  Requests = {r1, r2, r3}
  TicketIds = {t1, t2}
  Salons = {s1, s2}
  Hairdressers = {h1, h2}
  None = None
  Pair = {r1, r2}
  Shared = h1
  Home = s1
SPECIFICATION SceneSpec
CHECK_DEADLOCK FALSE
INVARIANT HairdresserExclusive
PROPERTIES
  ImplementsBoard
  RequestsReturn
