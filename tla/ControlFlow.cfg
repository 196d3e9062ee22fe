SPECIFICATION Spec
CONSTANTS
  Name = {"x", "i"}
  Stmt <- MCStmt
  Programs <- MCPrograms
  MaxRounds = 2
  None = None
INVARIANTS TypeOK FinallyAlwaysRuns ErrorsAreNotLost AcceptedControlHasTarget AcceptedNamesResolve AcceptedFunctionsReturn
PROPERTY ScopesRestored
