SPECIFICATION Spec
CONSTANTS
  Texts <- MCTexts
  NoSql <- MCNoSql
  MaxParams = 2
INVARIANTS ResultsOwned PreparedIsExecuted BatchInOrder IRDDescribes
