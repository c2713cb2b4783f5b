CONSTANTS
  t1 = t1
  t2 = t2
  t3 = t3
  Threads <- MCThreads
  Types <- MCTypes
  None <- MCNone
  MaxCalls = 2
SPECIFICATION ChoiceSpec
INVARIANT OneInitializer
PROPERTIES
  ImplementsCell
  EveryCallReturns
CHECK_DEADLOCK FALSE
