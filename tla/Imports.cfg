SPECIFICATION ImportSpec
CONSTANTS
  l1 = l1
  l2 = l2
  l3 = l3
  m1 = m1
  m2 = m2
  Lead = {l1, l2, l3}
  Mobile <- MCMobile
  Person = {a, b, c}
  Task = {t}
  Covers <- MCCovers
  Request = {r1, r2}
  Mixes <- MCMixes
  None = None
  Keep = Keep
  Importer = {i1, i2}
  RowMobile <- MCRowMobile
SYMMETRY Symmetry
INVARIANTS NothingIsLeftBehind RowsTellWhatHappened
PROPERTY WorkChangesHandsRightly
CHECK_DEADLOCK FALSE
