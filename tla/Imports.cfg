CONSTANTS
    Files <- MCFiles
    Locate <- MCLocate
    Nowhere = Nowhere
    Root = "main"
    Statements <- MCStatements
    Programs <- MCPrograms
    Free <- FreeNames
    TypeNames <- MCTypeNames
    MaxCallDepth = 3
SPECIFICATION Spec
INVARIANTS
    TypeOK
    NoFileWaitsForItself
    ScopesFollowCalls
    FunctionsReadTheirModule
    MessagesReadTheirModule
    AcceptedProgramsResolve
