SPECIFICATION Spec
CONSTANTS
  Product = {equity, funds}
  Request = {r1, r2}
  Pan = {pan}
  Code = {code}
  MaxCustomers = 1
  ByHand = {"QUALIFIED", "LOST"}
  Absent = Absent
  Keep = Keep
  None = None
SYMMETRY LeadSymmetry
PROPERTY NoDrift
CHECK_DEADLOCK FALSE
