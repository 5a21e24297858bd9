\* No action is started from inside Prepare: liveness, two actions.
CONSTANTS
    a1 = a1
    a2 = a2
    a3 = a3
    None = None
    Actions <- MCPair
    Flags <- MCPairFlags
    LogActions <- MCPairLogActions
    MaxDepth = 3
    Reentrant = FALSE
SPECIFICATION FairSpec
PROPERTIES
    KeepsPromiseFairly
    UIRecovers
