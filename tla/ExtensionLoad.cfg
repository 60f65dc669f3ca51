SPECIFICATION Spec
CONSTANTS
  Surface <- SevenFunctions
  MissingChoices <- TakesTheBox
INVARIANTS
  BoxOutlivesItsFunction
  NothingLeftBehind
  SilenceMeansWholeSurface
