SPECIFICATION MobileSpec
CONSTANTS
  Link = {k1, k2, k3}
  CodeNo = {1, 2}
  Request = {r1, r2}
  MaxFailures = 2
  MaxLinks = 2
  Mixes <- MCMixes
  None = None
  Sms = {c1, c2, c3}
  Number = {m, n}
  MaxSends = 2
  MaxAttempts = 1
  Keep = Keep
SYMMETRY Symmetry
INVARIANTS AccountStands TickIsOfThisNumber CodesAreBounded
CHECK_DEADLOCK FALSE
