SPECIFICATION Spec
CONSTANTS
  t1 = t1
  t2 = t2
  t3 = t3
  x1 = x1
  x2 = x2
  x3 = x3
  Failure = Failure
  None = None
  ModelKey = ModelKey
  Threads = {t1, t2, t3}
  Texts = {x1, x2, x3}
  FailingTexts = {x3}
  Vectors <- MCVectors
  Encoder <- MCEncoder
  Operations = {"embed", "embed_uncached", "clear_cache"}
  Capacity = 1
  MaxRows = 3
  MaxOthers = 2
INVARIANTS
  TypeOK
  OneFlightPerKey
  EncodesOnlyAbsentKeys
  CapacityBound
  EachRowOwnVector
  TurnedAwayOnlyWhenFull
PROPERTIES
  ImplementsStore
