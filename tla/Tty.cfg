\* Echo, output and messages in any order, up to lines that fill two rows.
SPECIFICATION Spec
CONSTANTS
    Cols = 2
    Rows = 3
    a = a
    b = b
    Glyphs = {a, b}
    NL = NL
    FF = FF
    Blank = Blank
    Backspace = Backspace
    Enter = Enter
    Keys = {Escape}
    STDIN_BUF_MAX = 4
    Writes <- Printable
    Logs <- Messages
    Warnings <- Messages
INVARIANTS TypeOK AppendsOnly EchoIsLine
PROPERTIES OutputShown
CHECK_DEADLOCK FALSE
