CONSTANTS
  Columns <- MCColumns
  Kind <- MCKind
  Widths <- MCWidths
  Rows = 2
  Lengths <- MCLengths
  Bound <- WideBound
  Careful = TRUE
SPECIFICATION Spec
INVARIANTS
  PiecesAreTheValue
  StrLenIsRemaining
  OnlyValuesAreAnswered
  BoundIsValue
PROPERTY
  LoopEnds
