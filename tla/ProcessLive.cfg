CONSTANTS
    UserPids = {2, 3, 4}
    MAX_PROCESS = 5
    KillTargets = {3}
    NoMemory = {}
    MaxLostStacks = 0
    initproc = 1
    NULL = NULL
SPECIFICATION FairSpec
PROPERTIES EveryoneRuns InitReaps KilledLeavesUserMode
