CONSTANTS
    Readers = {r1, r2, r3}
    STDIN_BUFSIZE = 2
    MaxRead = 3
    MaxTyped = 4
SPECIFICATION Spec
SYMMETRY ReaderSymmetry
INVARIANTS NoLostReader NoDanglingWait
PROPERTIES ImplementsKeyBuffer
CHECK_DEADLOCK FALSE
