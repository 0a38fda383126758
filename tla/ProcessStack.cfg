CONSTANTS
    UserPids = {2, 3}
    MAX_PROCESS = 4
    KillTargets = {2, 3}
    NoMemory = {"copy_mm"}
    MaxLostStacks = 2
    initproc = 1
    NULL = NULL
SPECIFICATION Spec
INVARIANTS NoLostStack
