\* A parent and the children it reaps, one at a time.
SPECIFICATION Spec
CONSTANTS
    NFrames = 14
    PerTable = 3
    NTables = 3
    PageSize = 2
    MmapBase = 3
    Slots = {s1, s2}
    NoProc = NoProc
    MaxSbrk = 2
    MaxMmap = 2
    MaxRegions = 2
    MaxBreak = 2
    MmapEnd = 6
    MaxProcs = 3
    Words <- OldWords
    MaxCalls = 3
SYMMETRY SlotSymmetry
INVARIANTS TypeOK GrantedIsMapped FramesPrivate
CHECK_DEADLOCK FALSE
