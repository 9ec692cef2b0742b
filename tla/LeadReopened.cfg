SPECIFICATION Spec
CONSTANTS
  Product = {equity, funds}
  Request = {r1}
  Pan = {pan}
  Code = {code}
  MaxCustomers = 2
  ByHand = {"QUALIFIED", "LOST"}
  Absent = Absent
  Keep = Keep
  None = None
SYMMETRY LeadSymmetry
PROPERTY ReopenedByHand
CHECK_DEADLOCK FALSE
