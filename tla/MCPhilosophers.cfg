CONSTANTS
    N = 5
    TIMES = 2
    SLEEP_TIME = 2
    MAX_TIME_SLICE = 1
SPECIFICATION FairSpec
INVARIANTS NeighboursDoNotEat HungryHasEatingNeighbour StatesAgree
PROPERTIES AllFinish
