CONSTANTS
    N = 5
    MaxRequest = 3
    LastFrameUsed = FALSE
    NULL = NULL
SPECIFICATION Spec
INVARIANTS ListIsHoles
PROPERTIES ImplementsFreeFrames
