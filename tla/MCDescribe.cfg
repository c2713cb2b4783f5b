SPECIFICATION DescribeSpec
CONSTANTS
  Values <- MCValues
  Sources <- MCSources
INVARIANTS FetchedAsDescribed TextFitsDisplay
CHECK_DEADLOCK FALSE
