CONSTANTS
  Requests = {r1, r2}
  TicketIds = {t1}
  Salons = {s1}
  Hairdressers = {h1}
  None = None
SPECIFICATION FairSpec
PROPERTY FollowsLifecycle
