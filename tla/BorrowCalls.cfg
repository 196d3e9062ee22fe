SPECIFICATION Spec
CONSTANTS
  RefName = {}
  Identity <- MCIdentity
  Segment <- MCSegment
  Name = {"x", "y"}
  List = {"l1"}
  Hash = {}
  Struct = {}
  Key = {}
  Scalar = {"0", "1"}
  SortOf <- MCSortOf
  Function = {"update", "first", "both"}
  Message = {}
  Signature <- MCSignature
  Construct = {"declare", "repl", "call", "borrow", "for_ref", "match_ref"}
  InitialScope <- Aliases
  InitialHeap <- MCHeap
  MaxCallDepth = 2
  MaxScopes = 3
  MaxLoans = 3
  MaxPath = 1
  MaxList = 1
INVARIANTS TypeOK CallsPreserveLoans NoDanglingLoan
PROPERTY ReleasedInOrder
CHECK_DEADLOCK FALSE
