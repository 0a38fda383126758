CONSTANTS
    Vaddr = {v1, v2, v3, v4}
    Frame = {1, 2, 3}
    Value = {x1, x2}
    Regions = {{}, {v1, v2, v3}}
    Unmapped = Unmapped
    Swapped = Swapped
    ListHead = ListHead
    MaxFaults = 3
SPECIFICATION UseSpec
PROPERTIES EvictsLeastUsed
