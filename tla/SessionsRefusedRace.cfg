SPECIFICATION Spec
CONSTANTS
  MaxSessions = 3
  Request = {r1, r2}
  MaxHops = 3
  NoSession = NoSession
PROPERTY RacesAreAnswered
CHECK_DEADLOCK FALSE
