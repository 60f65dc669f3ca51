SPECIFICATION FairSpec
CONSTANTS
  Budgets <- SmallBudgets
  BucketBytes = 1
  ControlBytes = 1
  VectorRequest = 3
  CanAsk = TRUE
  MaxRounding = 1
  MaxRecycled = 2
INVARIANTS
  AnswerIsMaximal
  NeverBreachesBudget
  QuietAnswerIsLargest
PROPERTIES
  Terminates
