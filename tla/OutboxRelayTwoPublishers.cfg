SPECIFICATION Spec
CONSTANTS
  NumEvents = 1
  p1 = p1
  p2 = p2
  Pod = {p1, p2}
  BatchSize = 1
  MaxAttempts = 2
  NoEvent = NoEvent
INVARIANTS
  NeverPublishedByTwoPods
