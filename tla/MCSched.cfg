CONSTANTS
    Procs = {u1, u2, t1}
    KThreads = {t1}
    idleproc = idle
    Sems = {s}
    MAX_TIME_SLICE = 2
    InitValue = 1
    MaxSleep = 2
SPECIFICATION Spec
INVARIANTS AssertionsHold QueuesExact NoLostSleeper SleepsExactly UnitsAccounted
PROPERTIES UnitsInOrder
SYMMETRY UserSymmetry
