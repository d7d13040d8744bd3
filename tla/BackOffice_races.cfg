CONSTANTS
  None = None
  Requests = {r1, r2}
  s1 = s1  s2 = s2  v1 = v1  c1 = c1  c2 = c2
  m1 = m1  m2 = m2  h1 = h1  t1 = t1  t2 = t2
  p1 = p1  p2 = p2  p3 = p3  p4 = p4  p6 = p6
  f1 = f1
  k1 = k1  n1 = n1  abidjan = abidjan
  \* staff
  Users = {m1, m2, h1, t1, t2, u1, u2}
  User0 <- UsersAtFirst
  Salons = {s1, s2}
  Owner <- Managers
  Member0 <- MembersAtFirst
  Phones = {p4, p5}
  Skills = {k2}
  Callers = {m1, m2, h1}
  Subjects = {h1, t1}
  Uses = {"QUEUE_TICKET_UPDATE_STATUS", "QUEUE_TICKET_CREATE"}
  \* customers
  Customers = {c1, c2, c3, c4}
  FullNames = {f1, f2}
  CardPhones = {p1, p2}
  Genders = {f}
  Notes = {nb}
  Card0 <- CardsAtFirst
  CardsPage = 2
  \* pictures
  Pictured = {v1}
  MaxPhotos = 1
  MaxUploads = 2
  \* hours
  DayEnd = 3
  MaxIntervals = 2
  MaxExceptions = 2
  Dates = {1, 2, 3}
  Weekday <- Week
  Payloads <- Bodies
  Queries <- Questions
  \* catalogue
  Listed = {s1, s2, s3}
  Services = {v1, v2, v3}
  Salon0 <- SalonsAtFirst
  Service0 <- ServicesAtFirst
  Names = {n1, n2}
  Blank = blank
  Cities = {abidjan}
  Hours = {mornings}
  Prices = {1, 2, 9}
  Durations = {0, 1}
  PriceMax = 2
  DurationMax = 1
  SearchPage = 1
SPECIFICATION MCSpec
SYMMETRY Symmetry
\* every request is served once, and a question or a report ends a behaviour
CHECK_DEADLOCK FALSE
INVARIANTS
  TypesOK
  ReferencedObjectsExist
  HoursAreHonoured
  WithdrawalIsImmediate
  ReportsAgree
PROPERTIES
  CardsHold
  PhotosWithinLimit
  EditsTakeEffect
  SalonsAreIsolated
  AuditTellsAvailability
