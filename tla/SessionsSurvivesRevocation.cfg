SPECIFICATION Spec
CONSTANTS
  MaxSessions = 3
  Request = {r1, r2}
  MaxHops = 3
  NoSession = NoSession
INVARIANT NothingSurvivesRevocation
CHECK_DEADLOCK FALSE
