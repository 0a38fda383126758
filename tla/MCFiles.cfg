SPECIFICATION Spec
CONSTANTS
    p1 = p1
    p2 = p2
    root = root
    dir = dir
    file = file
    stdin = stdin
    NULL = NULL
    Proc <- MCProc
    NFd = 2
    NStd = 1
    Root = root
    Dirs <- MCDirs
    Regular <- MCRegular
    Devices <- MCDevices
    MaxLost = 1
SYMMETRY Symmetric
INVARIANTS CountsExact SyncedWhenClosed
PROPERTIES ImplementsOpenFiles
CHECK_DEADLOCK FALSE
