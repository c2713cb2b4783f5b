SPECIFICATION CatalogSpec
CONSTANTS
  Server <- MCServer
  CurrentDb <- MCCurrentDb
  MaxDrops = 1
  NoAsk <- MCNoAsk
  Asks <- MCAsks
INVARIANTS ListedInOrder EndIsComplete ColumnsAgreeWithSelect
PROPERTY EveryCallReturns
