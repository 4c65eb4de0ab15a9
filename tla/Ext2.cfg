\* A disk of 2048-byte blocks, with failing transfers and a loss of power.
SPECIFICATION Spec
CONSTANTS
    NGroups = 2
    PerGroup <- GroupSizes
    FirstData = 0
    NDirect = 1
    PerIndirect = 2
    Meta <- MetaFromZero
    Made <- FilesFromZero
    Leftover = 0
    Sizes = {1, 6}
    DirRoom = 4
    Fails = {"bitmap_w", "bgdt_w", "sb_w", "ind_r", "ind_w", "data_r", "data_w", "inode_w", "dir_w"}
    MaxOps = 2
    MaxFails = 1
    MaxCrashes = 1
INVARIANTS TypeOK BlocksApart ClaimedIsMarked CountsCover OnlyOwnWords WritesLast
CHECK_DEADLOCK FALSE
