SPECIFICATION Spec
CONSTANTS
  NumEvents = 2
  p1 = p1
  Pod = {p1}
  BatchSize = 2
  MaxAttempts = 2
  NoEvent = NoEvent
PROPERTIES
  OrderedByOccurredAt
