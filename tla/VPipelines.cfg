SPECIFICATION Spec
CONSTANTS
  Steps <- MCSteps
  Terminals <- MCTerminals
  Items <- MCItems
  Pipeline <- MCPipeline
  Apply <- MCApply
  ExprType <- MCExprType
  Safe = {"large", "double", "inverse"}
  Rules <- MCRules
  MaxInt = 8
  MAX_PARALLEL_WORKERS = 3
  MAX_CHUNK_SIZE = 3
  MAX_PARALLEL_CHUNKS = 4
  Fault = Fault
  None = None
INVARIANT StepsAreApplied
CHECK_DEADLOCK FALSE
