\* An action accepted inside the Prepare of another one is lost.
CONSTANTS
    a1 = a1
    a2 = a2
    a3 = a3
    None = None
    Actions <- MCActions
    Flags <- MCFlags
    LogActions <- MCLogActions
    MaxDepth = 3
    Reentrant = TRUE
SPECIFICATION Spec
INVARIANT
    ReleasedWhenFinished
