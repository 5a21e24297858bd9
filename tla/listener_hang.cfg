\* The worker has prompted before the main thread does.
CONSTANTS
    w1 = w1
    w2 = w2
    w3 = w3
    m1 = m1
    m2 = m2
    Nobody = Nobody
    WorkerPrompts <- MCWorkerPrompts
    MainPrompts <- MCMainPrompts
    Kind <- MCKind
    Overlap = FALSE
SPECIFICATION FairSpec
CHECK_DEADLOCK FALSE
PROPERTY
    MainPromptsReturn
