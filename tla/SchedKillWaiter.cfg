\* A shell killed while genkan waits for it.
SPECIFICATION Spec
CONSTANTS
    Slots = {s1, s2, s3}
    NoProc = NoProc
    MaxPid = 3
    ExitCodes <- Codes
    Readers <- NoPids
    Killers <- AllPids
    Faulters <- NoPids
    TakeTurns = TRUE
SYMMETRY SlotSymmetry
INVARIANTS NoWaitOnZombie
CHECK_DEADLOCK FALSE
