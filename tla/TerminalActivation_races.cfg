CONSTANTS
  None = None
  Requests = {r1, r2}
  Devices = {d1, d2}
  MaxSecret = 3
  Ttl = 1
  MaxNow = 1
SPECIFICATION MCSpec
SYMMETRY Symmetry
INVARIANTS
  NotStranded
  SharedByRivalsOnly
PROPERTY RevokedForGood
