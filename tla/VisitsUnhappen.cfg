SPECIFICATION Spec
CONSTANTS
  Visit = {v1, v2}
  Person = {p1, p2}
  Date = {d1}
  Request = {r1, r2}
  MaxBegun = 5
  None = None
SYMMETRY Symmetry
PROPERTY HappenedStaysHappened
CHECK_DEADLOCK FALSE
