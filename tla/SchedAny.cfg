\* Programs that do anything the system calls allow, with a timer that ticks on.
SPECIFICATION FairSpec
CONSTANTS
    Slots = {s1, s2, s3}
    NoProc = NoProc
    MaxPid = 3
    ExitCodes <- Codes
    Readers <- AllPids
    Killers <- AllPids
    Faulters <- AllPids
    TakeTurns = FALSE
INVARIANTS TypeOK HeadIsCurrent
PROPERTIES RunnableRuns
CHECK_DEADLOCK FALSE
