CONSTANTS
  None = None  i1 = i1  a1 = a1
  Requests = {r1, r2}
  Identifiers = {i1}
  Holder <- OneHolder
  Accounts = {a1}
  Passwords = {p1, p2}
  First = p1
  Challenges = {c1, c2}
  MaxFailures = 2
  Window = 1
  Lockout = 1
  MaxGuesses = 1
  Ttl = 1
  MaxNow = 3
  MaxListed = 2
SPECIFICATION MCSpec
SYMMETRY Symmetry
INVARIANTS
  FailuresBounded
  LastCodeWorks
  CodeServesOnce
