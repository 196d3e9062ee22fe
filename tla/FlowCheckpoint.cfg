SPECIFICATION Spec
CONSTANTS
  Version = {"old", "new"}
  Record = {"a", "b", "c", "skip", "bad"}
  Row = {"a", "b", "c"}
  Records <- MCRecords
  Step <- MCStep
  Image <- MCImage
  Dropped = Dropped
  Failed = Failed
  Newline = Newline
  Garbage = Garbage
  None = None
  Interval = 2
  ReplaceWhileRunning = FALSE
  MaxInterrupts = 3
  MaxFaults = 2
INVARIANTS TypeOK CompleteOutput AcceptedIsExact
PROPERTIES KeepsPromise Completes
