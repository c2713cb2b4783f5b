CONSTANTS
  NrParams = 3
  Kind <- MCKind
  Outcomes <- MCOutcomes
  Tables = {t1, t2}
  NoTable = NoTable
  MaxRows = 3
  BatchMax = 2
SPECIFICATION Spec
INVARIANTS
  RowsArriveWhole
  CountTells
PROPERTIES
  EveryExecuteReturns
