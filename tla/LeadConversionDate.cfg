SPECIFICATION Spec
CONSTANTS
  Product = {equity, funds}
  Request = {r1}
  Pan = {pan}
  Code = {code}
  MaxCustomers = 2
  ByHand = {"NEW", "QUALIFIED", "LOST"}
  Absent = Absent
  Keep = Keep
  None = None
SYMMETRY LeadSymmetry
INVARIANT FirstConversionDate
CHECK_DEADLOCK FALSE
