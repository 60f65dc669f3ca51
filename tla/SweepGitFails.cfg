SPECIFICATION Spec
CONSTANTS
  Mutations <- ShortTable
INVARIANTS
  RestoredBeforeTheNext
