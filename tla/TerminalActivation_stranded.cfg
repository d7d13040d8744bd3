CONSTANTS
  None = None
  Requests = {r1, r2}
  Devices = {d1}
  MaxSecret = 1
  Ttl = 1
  MaxNow = 1
SPECIFICATION Spec
INVARIANT ActivationTakesEffect
