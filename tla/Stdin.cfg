\* Two readers, two characters, a buffer of four, lengths modulo three.
SPECIFICATION Spec
CONSTANTS
    Readers = {r1, r2}
    NoProc = NoProc
    Chars = {a, b}
    STDIN_BUF_MAX = 4
    LenMod = 3
SYMMETRY Symmetry
INVARIANTS TypeOK
PROPERTIES QuietLineArrives
