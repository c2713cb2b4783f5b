CONSTANTS
  Rows = 4
  MaxBlock = 3
  MaxSize = 4
  Outcome <- MCOutcome
SPECIFICATION Spec
PROPERTIES
  StatusArrayTells
  ImplementsCursor
