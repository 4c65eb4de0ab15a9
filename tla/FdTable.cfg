\* Two processes with two descriptors each, three files.
SPECIFICATION Spec
CONSTANTS
    Procs = {p1, p2}
    Vnodes = {v1, v2, v3}
    NoEntry = NoEntry
    Flags = {"RO", "RW"}
    FirstFd = 3
    MaxFds = 5
    MaxRefs = 3
SYMMETRY Symmetry
INVARIANTS TypeOK FdNamesItsFile OneEntryPerFile RefsExact
CHECK_DEADLOCK FALSE
