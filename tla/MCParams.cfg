SPECIFICATION Spec
CONSTANTS
  VarBytes = 4
  FltMax = 500
  MaxRows = 2
  Values <- MCValues
  SharedValues <- MCShared
  SharedPairs <- MCSharedPairs
  Sizes <- MCSizes
INVARIANT BindingAgrees
PROPERTIES SentIsBound FitsIsAccepted InputKept
