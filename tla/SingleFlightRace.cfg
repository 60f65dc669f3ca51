SPECIFICATION Spec
CONSTANTS
  t1 = t1
  t2 = t2
  t3 = t3
  x1 = x1
  x2 = x2
  Failure = Failure
  None = None
  ModelKey = ModelKey
  Threads = {t1, t2, t3}
  Texts = {x1, x2}
  FailingTexts = {}
  Vectors <- MCVectors
  Encoder <- MCEncoder
  Operations = {"embed", "stats"}
  Capacity = 1
  MaxRows = 5
  MaxOthers = 1
SYMMETRY ThreadAndTextSymmetry
INVARIANTS
  RowsAccounted
  EncodesAccounted
  FittedColumnIsHeld
  ReportsCoherent
