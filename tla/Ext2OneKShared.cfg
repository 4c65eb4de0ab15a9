\* The disk the Makefile builds: 1024-byte blocks, so that bit 0 stands for block 1,
\* with no failure at all.
SPECIFICATION Spec
CONSTANTS
    NGroups = 2
    PerGroup <- GroupSizes
    FirstData = 1
    NDirect = 1
    PerIndirect = 2
    Meta <- MetaFromOne
    Made <- FilesFromOne
    Leftover = 0
    Sizes = {1, 6}
    DirRoom = 4
    Fails = {}
    MaxOps = 1
    MaxFails = 0
    MaxCrashes = 0
INVARIANT NoSharedBlock
CHECK_DEADLOCK FALSE
