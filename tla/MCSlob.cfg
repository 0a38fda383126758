SPECIFICATION Spec
CONSTANTS
    SLOB_UNIT = 2
    PAGE_SIZE = 16
    DESC_SIZE = 3
    NPages = 3
    Sizes <- MCSizes
INVARIANTS HeapConsistent
PROPERTIES ImplementsHeap
