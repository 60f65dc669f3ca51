SPECIFICATION FairSpec
CONSTANTS
  x1 = x1
  x2 = x2
  bad = bad
  Threads = {t1, t2}
  Texts = {x1, x2, bad}
  NoThread = NoThread
  Null = Null
  Garbage = Garbage
  None = None
  Failure = Failure
  AssetChoices = {"model", "error", "panic"}
  Dim = 2
  WordBits = 2
  Capacity = 1
  TruncatedTexts = {x2}
  ChildRoom = 1
  Functions <- AllFunctions
  Encoder <- MCEncoder
  Chunks <- Columns
  MaxCalls = 2
INVARIANTS
  TypeOK
  ResultIsAnswer
  WritesStayInside
  EarlierRowsAreKept
  CapacityIsForTheModel
  InitialisersAreInCalls
PROPERTIES
  EveryCallReturns
