\* Sizes on both sides of each limit: class 2 | class 4 | large | mapped.
SPECIFICATION Spec
CONSTANTS
    Align = 2
    NClasses = 2
    Carve = 2
    Header = 1
    Threshold = 7
    Word = 64
    PageSize = 4
    ArenaMax = 15
    RegionMax = 23
    Sizes = {0, 1, 4, 5, 6}
    Counts = {2}
    MaxLive = 3
INVARIANTS TypeOK NothingLost DataKept
CHECK_DEADLOCK FALSE
