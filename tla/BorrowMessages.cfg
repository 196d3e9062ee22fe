SPECIFICATION Spec
CONSTANTS
  RefName = {}
  Identity <- MCIdentity
  Segment <- MCSegment
  Name = {"x", "s"}
  List = {"l1", "n1"}
  Hash = {}
  Struct = {"c1"}
  Key = {}
  Scalar = {"0", "1"}
  SortOf <- MCSortOf
  Function = {"tick"}
  Message = {"tick"}
  Signature <- MCSignature
  Construct = {"block", "message", "reassign", "for", "borrow_call", "for_ref"}
  InitialScope <- NestedAndCounter
  InitialHeap <- MCHeap
  MaxCallDepth = 2
  MaxScopes = 3
  MaxLoans = 2
  MaxPath = 2
  MaxList = 2
INVARIANT ReferencesAreLoaned
PROPERTY LentFieldsKept
CHECK_DEADLOCK FALSE
