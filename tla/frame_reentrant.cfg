\* Prepare's dialogs may start other actions: safety of the handover.
CONSTANTS
    a1 = a1
    a2 = a2
    a3 = a3
    None = None
    Actions <- MCActions
    Flags <- MCFlags
    LogActions <- MCLogActions
    MaxDepth = 3
    Reentrant = TRUE
SPECIFICATION Spec
INVARIANTS
    TypeOK
    NoUseAfterFree
    NoDoubleFree
    PerformedAtMostOnce
    OnlyAcceptedPerformed
    StopHitsItsTarget
