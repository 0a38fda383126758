CONSTANTS
    UserPids = {2, 3}
    MAX_PROCESS = 4
    KillTargets = {2, 3}
    NoMemory = {}
    MaxLostStacks = 0
    initproc = 1
    NULL = NULL
SPECIFICATION FairSpec
PROPERTIES KillShutsDown
