SPECIFICATION Spec
CONSTANTS
  Lead = {l1, l2, l3}
  Mobile = {m1, m2}
  Pan = {p1, p2}
  Entry = {e1}
  Request = {r1, r2}
  MaxBegun = 4
  None = None
SYMMETRY Symmetry
PROPERTY AccountsAreNotOrphaned
CHECK_DEADLOCK FALSE
