SPECIFICATION FairSpec
CONSTANTS
  NumEvents = 2
  p1 = p1
  p2 = p2
  Pod = {p1, p2}
  BatchSize = 2
  MaxAttempts = 2
  NoEvent = NoEvent
INVARIANTS
  TypeOK
  PublishedWasDelivered
  OneBellPerEvent
  DeadLetteredIsExhausted
  AttemptNumbersDiffer
PROPERTIES
  NoClaimAfterSettling
  ImplementsDelivery
  SettlesOnceFaultsCease
