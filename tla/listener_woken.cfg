\* The main thread prompts while the worker waits.
CONSTANTS
    w1 = w1
    w2 = w2
    w3 = w3
    m1 = m1
    m2 = m2
    Nobody = Nobody
    WorkerPrompts <- MCWorkerPrompts
    MainPrompts <- MCMainPrompts
    Kind <- MCKind
    Overlap = TRUE
SPECIFICATION Spec
CHECK_DEADLOCK FALSE
INVARIANT
    ParentIsDone
