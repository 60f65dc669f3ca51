SPECIFICATION Spec
CONSTANTS
  t1 = t1
  t2 = t2
  x1 = x1
  Failure = Failure
  None = None
  ModelKey = ModelKey
  Threads = {t1, t2}
  Texts = {x1}
  FailingTexts = {}
  Vectors <- MCVectors
  Encoder <- MCEncoder
  Operations = {"embed", "clear_cache"}
  Capacity = 1
  MaxRows = 1
  MaxOthers = 1
INVARIANTS
  EncodedIsOnePerDistinctValue
