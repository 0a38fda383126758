CONSTANTS
    MAX_PROCESS = 5
    MAX_PID = 8
SPECIFICATION FairSpec
INVARIANTS IInv
PROPERTIES ImplementsNextFit CallReturns
