CONSTANTS
    N = 5
    MaxRequest = 3
    LastFrameUsed = TRUE
    NULL = NULL
SPECIFICATION Spec
INVARIANTS ListMatchesCount
