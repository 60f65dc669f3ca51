SPECIFICATION Spec
CONSTANTS
  Mutations <- ShortTable
INVARIANTS
  NothingMutatedIsLeft
  VerdictsAreOfOneMutation
  ZeroMeansAllKilled
