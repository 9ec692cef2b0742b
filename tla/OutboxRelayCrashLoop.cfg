SPECIFICATION FairSpec
CONSTANTS
  NumEvents = 1
  p1 = p1
  Pod = {p1}
  BatchSize = 1
  MaxAttempts = 2
  NoEvent = NoEvent
PROPERTIES
  CrashLoopIsDeadLettered
