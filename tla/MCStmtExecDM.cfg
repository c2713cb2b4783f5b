SPECIFICATION Spec
CONSTANTS
  Texts <- MCTexts
  NoSql <- MCNoSql
  MaxParams = 2
INVARIANT DMHasChecked
