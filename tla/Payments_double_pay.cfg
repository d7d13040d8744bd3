CONSTANTS
  s1 = s1  s2 = s2  t1 = t1  a = a  b = b  None = None
  Requests = {r1,r2}
  PaymentIds = {p1,p2}
  Salons = {s1}
  Tickets = {t1}
  Services = {a}
  HomeOf <- OneSalon
  ServicesOf <- OneService
  Prices = {1}
  Amounts = {1}
  Deltas = {1}
SPECIFICATION Spec
INVARIANT PaidOnce
