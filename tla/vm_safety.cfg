CONSTANTS
    OFFSET_WIDTH = 1
    PHYSICAL_ADDRESS_WIDTH = 4
    VIRTUAL_ADDRESS_WIDTH = 4
    Used = {0, 3, 10, 15, 16}
    Written = {3, 10}
    Values = {0, 9}

SPECIFICATION Spec

INVARIANTS
    TypeOK
    FramesLinkedOnce
    NoFrameLost
    WalkOnRoute
    NewFrameBlank
    RamOrSwap
    SomeoneToEvict
    OneEmptyTable
    SearchAgrees

PROPERTIES
    ImplementsPager
    ImplementsFlatMemory
