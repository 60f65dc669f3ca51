SPECIFICATION Spec
CONSTANTS
  Mutations <- ShortTable
INVARIANTS
  CleanSweepMeansExecuted
