SPECIFICATION Spec
CONSTANTS
  MaxSessions = 3
  Request = {r1, r2}
  MaxHops = 3
  NoSession = NoSession
INVARIANT SingleUse
CHECK_DEADLOCK FALSE
