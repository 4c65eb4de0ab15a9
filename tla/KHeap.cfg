\* A heap of 8 smallest blocks, requests up to one byte more than it holds.
SPECIFICATION Spec
CONSTANTS
    MinBlock = 2
    MaxOrder = 3
    MaxSize = 16
    MaxLive = 5
INVARIANTS TypeOK BlocksTile PayloadPrivate FreeSpaceUsable
CHECK_DEADLOCK FALSE
