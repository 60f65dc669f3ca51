SPECIFICATION Spec
CONSTANTS
  Characters <- Letters
  MaxLength = 7
  MaxTokens = 2
  MedianTokenLength = 3
  Unknown <- UnknownPiece
  Marker = "m"
  Blank = " "
  Tokenise <- WordPiece
CHECK_DEADLOCK FALSE
INVARIANTS
  TruncatedMeansFewerIds
