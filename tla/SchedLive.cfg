CONSTANTS
    Procs = {u1, u2}
    KThreads = {}
    idleproc = idle
    Sems = {s}
    MAX_TIME_SLICE = 2
    InitValue = 1
    MaxSleep = 2
SPECIFICATION FairSpec
PROPERTIES EveryoneRuns SleepersWake
