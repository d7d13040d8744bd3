CONSTANTS
  s1 = s1  s2 = s2  t1 = t1  a = a  b = b  None = None
  Requests = {r1, r2}
  PaymentIds = {p1, p2, p3}
  Salons = {s1, s2}
  Tickets = {t1}
  Services = {a, b}
  HomeOf <- TwoSalons
  ServicesOf <- OneService
  Prices = {1, 2}
  Amounts = {1}
  Deltas = {1}
SPECIFICATION MCSpec
SYMMETRY Symmetry
INVARIANTS
  ReceiptsDense
  JournalTellsPayments
  AmountWasDue
  RivalsOnly
PROPERTY ImplementsBook
