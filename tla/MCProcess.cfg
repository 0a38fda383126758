CONSTANTS
    UserPids = {2, 3, 4}
    MAX_PROCESS = 5
    KillTargets = {1, 2, 3, 4}
    NoMemory = {"alloc_proc", "setup_kstack", "copy_mm"}
    MaxLostStacks = 1
    initproc = 1
    NULL = NULL
SPECIFICATION Spec
INVARIANTS LinksWellFormed StructuresAgree SomebodyRuns OnlyInitEndsIt
PROPERTIES ImplementsProcTree
