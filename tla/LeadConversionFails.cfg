SPECIFICATION Spec
CONSTANTS
  Product = {equity, funds}
  Request = {r1}
  Pan = {pan}
  Code = {code}
  MaxCustomers = 2
  ByHand = {"QUALIFIED"}
  Absent = Absent
  Keep = Keep
  None = None
SYMMETRY LeadSymmetry
PROPERTY ConversionSticks
CHECK_DEADLOCK FALSE
