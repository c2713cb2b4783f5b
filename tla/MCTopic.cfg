CONSTANTS
  a = a
  b = b
  c = c
  A = A
  B = B
  Queues = {a, b, c}
  None = None
  TopicOf <- MCTopicOf
  Log <- MCLog
  ColumnsOf <- MCColumnsOf
  MaxSize = 2
  RecordsMax = 3
  Careful = TRUE
SPECIFICATION Spec
INVARIANT TraversedOneByOne
PROPERTIES
  DescribedOneByOne
  ImplementsTopicLog
  EveryCallReturns
