CONSTANTS
    Vaddr = {v1, v2}
    Frame = {1}
    Value = {x1, x2}
    Regions = {{}, {v1}}
    Unmapped = Unmapped
    Swapped = Swapped
    ListHead = ListHead
    MaxFaults = 3
SPECIFICATION FairUseSpec
PROPERTIES StoresEnd
