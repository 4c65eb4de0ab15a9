\* Programs that exec, wait, exit and fault, shells that take turns at the
\* keyboard, none that kills.
SPECIFICATION Spec
CONSTANTS
    Slots = {s1, s2, s3}
    NoProc = NoProc
    MaxPid = 4
    ExitCodes <- Codes
    Readers <- Shells
    Killers <- NoPids
    Faulters <- AllPids
    TakeTurns = TRUE
SYMMETRY SlotSymmetry
INVARIANTS PidsUnique StdinWaiterBlocked BlockedHasWaker
PROPERTIES ZombieIsFinal ImplementsLife
CHECK_DEADLOCK FALSE
