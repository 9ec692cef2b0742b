SPECIFICATION Spec
CONSTANTS
  MaxSessions = 3
  Request = {r1}
  MaxHops = 3
  NoSession = NoSession
INVARIANT RotationIsChecked
CHECK_DEADLOCK FALSE
