SPECIFICATION Spec
CONSTANTS
  MaxSessions = 3
  Request = {r1, r2}
  MaxHops = 3
  NoSession = NoSession
SYMMETRY RequestSymmetry
INVARIANTS TypeOK ChainsMoveForward RevocationIsFinal RaceIsNotTheft NeverLiveWithSuccessor
CHECK_DEADLOCK FALSE
