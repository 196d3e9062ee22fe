\* Patterns: what the analyzer concludes and what the evaluator does.
CONSTANTS
  Enums <- MCEnums
  Structs <- MCStructs
  MinInt <- MCMinInt
  MaxInt <- MCMaxInt
  Records <- MCRecords
  Domain <- MCDomain
  Statements <- MCStatements
SPECIFICATION Spec
INVARIANTS
  ExhaustiveMatches
  UsefulnessIsExact
  BoundAsChecked
  RestIsRemainder
CHECK_DEADLOCK FALSE
