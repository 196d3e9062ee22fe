SPECIFICATION Spec
CONSTANTS
  RefName = {r, s, t}
  Identity <- MCIdentity
  Segment <- MCSegment
  Name = {"x", "y", r, s, t}
  List = {"l1", "l2"}
  Hash = {"h1"}
  Struct = {}
  Key = {"k", "m"}
  Scalar = {"0"}
  SortOf <- MCSortOf
  Function = {}
  Message = {}
  Signature <- MCSignature
  Construct = {"borrow", "reassign", "set", "add", "remove", "write", "destructure"}
  InitialScope <- ListAndHash
  InitialHeap <- MCHeap
  MaxCallDepth = 0
  MaxScopes = 1
  MaxLoans = 3
  MaxPath = 1
  MaxList = 1
INVARIANT OwnerPinned
PROPERTY LoanedPathsResolve
SYMMETRY RefNameSymmetry
CHECK_DEADLOCK FALSE
