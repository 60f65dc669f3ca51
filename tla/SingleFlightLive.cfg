SPECIFICATION FairSpec
CONSTANTS
  t1 = t1
  t2 = t2
  t3 = t3
  t4 = t4
  x1 = x1
  x2 = x2
  Failure = Failure
  None = None
  ModelKey = ModelKey
  Threads = {t1, t2, t3, t4}
  Texts = {x1, x2}
  FailingTexts = {x2}
  Vectors <- MCVectors
  Encoder <- MCEncoder
  Operations = {"embed"}
  Capacity = 1
  MaxRows = 4
  MaxOthers = 0
INVARIANTS
  SleepersAreWoken
PROPERTIES
  EveryCallReturns
