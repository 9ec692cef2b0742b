SPECIFICATION Spec
CONSTANTS
  Product = {equity, funds}
  Request = {r1, r2}
  Pan = {pan1}
  Code = {code}
  MaxCustomers = 1
  ByHand = {"LOST"}
  Absent = Absent
  Keep = Keep
  None = None
SYMMETRY LeadSymmetry
INVARIANTS TypeOK ConvertedHasCustomer ClosedIsRecorded HoldingsMirror
PROPERTIES RollUpAgrees OutcomesAreKept
CHECK_DEADLOCK FALSE
