\* No action is started from inside Prepare: safety, three actions.
CONSTANTS
    a1 = a1
    a2 = a2
    a3 = a3
    None = None
    Actions <- MCActions
    Flags <- MCFlags
    LogActions <- MCLogActions
    MaxDepth = 3
    Reentrant = FALSE
SPECIFICATION Spec
INVARIANTS
    StateIsTruthful
    ListCatchesUp
PROPERTIES
    KeepsPromise
