SPECIFICATION Spec
CONSTANTS
  C = C
  Z = Z
  R = R
  B = B
  T = T
  Unit = {C, Z, R, B, T}
  Kind <- MCKind
  Person = {w}
  Level = {1}
  Request = {r1, r2}
  Seeds <- MCSeeds
  MaxBegun = 2
  None = None
  Keep = Keep
SYMMETRY Symmetry
INVARIANTS TreeStands QuietTreeIsExact
PROPERTY MovesStayInSubtree
CHECK_DEADLOCK FALSE
