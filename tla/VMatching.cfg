\* A match over a recursive enum.
CONSTANTS
  Enums <- MCEnums
  Structs <- MCStructs
  MinInt <- MCMinInt
  MaxInt <- MCMaxInt
  Records <- MCRecords
  Domain <- MCDomain
  Statements <- MCRecursive
SPECIFICATION FairSpec
PROPERTY Terminates
CHECK_DEADLOCK FALSE
