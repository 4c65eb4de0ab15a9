--------------------------------- MODULE Tty ---------------------------------
(***************************************************************************)
(* The terminal: a back buffer of character cells, a cursor, and what is   *)
(* drawn on the screen, shared by the programs' output, the kernel's own   *)
(* messages and the echo of the keyboard.                                  *)
(*                                                                         *)
(* Once the first program runs all of these run with interrupts off, so    *)
(* each call is one action.  Drawing is explicit: a cell that was written  *)
(* is on the screen only after a flush of it.  Colours are left out.       *)
(***************************************************************************)
EXTENDS Integers, Sequences, SequencesExt

CONSTANTS
    Cols, Rows,     \* VESA_WIDTH / TTY_CHAR_WIDTH, VESA_HEIGHT / TTY_CHAR_HEIGHT
    Glyphs,         \* the characters that are drawn
    NL, FF, Blank,  \* '\n', '\f' and the 0 of a cell without a character
    Backspace, Enter, Keys, \* keys without a character: these two and others
    STDIN_BUF_MAX,  \* capacity of __stdin_buf (512)
    Writes, Logs, Warnings  \* texts of programs, of log_write and of tty_printf

Texts == Seq(Glyphs \cup {NL, FF})

ASSUME TtyAssumption ==
    /\ {Cols, Rows, STDIN_BUF_MAX} \subseteq Nat \ {0}
    /\ {NL, FF, Blank, Backspace, Enter} \cap Glyphs = {} /\ NL # FF /\ Backspace # Enter
    /\ Writes \cup Logs \cup Warnings \subseteq Texts
    \* A line being typed does not scroll off the screen (512 of 6144 cells).
    /\ STDIN_BUF_MAX <= Cols * (Rows - 1)

VARIABLES
    tty,        \* the terminal: cells, screen, cursor x and y
    stdin_buf,  \* the line typed so far
    quiet       \* history: nothing was printed since that line was begun

vars == <<tty, stdin_buf, quiet>>

Cells == 0..(Cols * Rows - 1)

\* tty_init.
Init ==
    /\ tty = [cells |-> [i \in Cells |-> Blank], screen |-> [i \in Cells |-> Blank], x |-> 0, y |-> 0]
    /\ stdin_buf = <<>>
    /\ quiet = TRUE

-----------------------------------------------------------------------------
(* The terminal's operations, from terminal to terminal *)

Index(t) == t.y * Cols + t.x

\* __tty_flush_cell of the cells in I: each is drawn, or painted over when blank.
flush_cells(t, I) == [t EXCEPT !.screen = [i \in Cells |-> IF i \in I THEN t.cells[i] ELSE @[i]]]

flush_line(t, line)      == flush_cells(t, (line * Cols)..((line + 1) * Cols - 1))
tty_flush(t)             == flush_cells(t, Cells)
tty_flush_from(t, from)  == flush_cells(t, (from * Cols)..((t.y + 1) * Cols - 1))
tty_flush_current_line(t) == flush_line(t, t.y)

\* Mutant: the last row keeps its characters.
scroll_unblanked(t) ==
    tty_flush([t EXCEPT !.cells = [i \in Cells |-> IF i < Cols * (Rows - 1) THEN @[i + Cols] ELSE @[i]],
                        !.y = Rows - 1])

\* __tty_scroll: a row up, the last one blank, and all of it is drawn.
tty_scroll(t) ==
    tty_flush([t EXCEPT !.cells = [i \in Cells |-> IF i < Cols * (Rows - 1) THEN @[i + Cols] ELSE Blank],
                        !.y = Rows - 1])

\* Mutant: the row after the last is one of the screen.
down_too_far(t) == IF t.y + 1 > Rows THEN tty_scroll(t) ELSE [t EXCEPT !.y = @ + 1]

\* To the next row.
Down(t) == IF t.y + 1 >= Rows THEN tty_scroll(t) ELSE [t EXCEPT !.y = @ + 1]

\* __tty_newline: the row that is left is drawn.
tty_newline(t) == Down(flush_line([t EXCEPT !.x = 0], t.y))

\* tty_putchar.  A character in the last column goes on to the next row, and
\* nothing is drawn.
tty_putchar(t, c) ==
    IF c = FF THEN tty_flush(t)
    ELSE IF c = NL THEN tty_newline(t)
    ELSE LET u == [t EXCEPT !.cells[Index(t)] = c]
         IN  IF t.x + 1 >= Cols THEN Down([u EXCEPT !.x = 0]) ELSE [u EXCEPT !.x = @ + 1]

\* tty_puts; tty_printf does the same with the text that it has formatted.
tty_puts(t, s) ==
    LET After[n \in 0..Len(s)] == IF n = 0 THEN t ELSE tty_putchar(After[n - 1], s[n])
    IN  After[Len(s)]

\* Mutant: at the start of a row nothing is taken back.
backspace_in_row(t) ==
    IF t.x = 0 THEN t
    ELSE LET u == [t EXCEPT !.x = @ - 1]
         IN  flush_cells([u EXCEPT !.cells[Index(u)] = Blank], {Index(u)})

\* tty_backspace: back over the end of the row above; not at the first cell.
tty_backspace(t) ==
    IF t.x = 0 /\ t.y = 0 THEN t
    ELSE LET u == IF t.x = 0 THEN [t EXCEPT !.x = Cols - 1, !.y = @ - 1] ELSE [t EXCEPT !.x = @ - 1]
         IN  flush_cells([u EXCEPT !.cells[Index(u)] = Blank], {Index(u)})

\* tty_clear.
tty_clear(t) ==
    [x |-> 0, y |-> 0, cells |-> [i \in Cells |-> Blank], screen |-> [i \in Cells |-> Blank]]

-----------------------------------------------------------------------------
(* Who uses it *)

\* Output comes between the line typed so far and what is typed next.
Printed == quiet' = (quiet /\ stdin_buf = <<>>)

\* Mutant: only the row that the cursor ends in is drawn.
Shown_current(t, from) == tty_flush_current_line(t)

\* What __syscall_write draws: from the row it began in.
Shown(t, from) == tty_flush_from(t, from)

\* __syscall_write of a string.
syscall_write(s) ==
    /\ tty' = Shown(tty_puts(tty, s), tty.y)
    /\ Printed
    /\ UNCHANGED stdin_buf

\* __tty_log_sink.
tty_log_sink(t, s) == tty_flush(tty_puts(t, s))

\* log_write, to the terminal's sink: the report of a segmentation fault.
log_write(s) ==
    /\ tty' = tty_log_sink(tty, s)
    /\ Printed
    /\ UNCHANGED stdin_buf

\* tty_printf: warnings of the system call handler and the interrupt handler.
tty_printf(s) ==
    /\ tty' = tty_puts(tty, s)
    /\ Printed
    /\ UNCHANGED stdin_buf

\* kernel_panic: a cleared screen and the report; the machine then stops, which
\* is left out.
kernel_panic(s) ==
    /\ tty' = tty_log_sink(tty_clear(tty), s)
    /\ Printed
    /\ UNCHANGED stdin_buf

\* kb_map: the character of a key, Blank for none.
kb_map(k) == IF k \in Glyphs THEN k ELSE Blank

\* stdin_put: the echo draws the row that the cursor is in afterwards.
stdin_put(c) ==
    /\ Len(stdin_buf) + 1 < STDIN_BUF_MAX
    /\ stdin_buf' = Append(stdin_buf, c)
    /\ tty' = tty_flush_current_line(tty_putchar(tty, c))
    /\ UNCHANGED quiet

stdin_pop ==
    /\ stdin_buf # <<>>
    /\ stdin_buf' = Front(stdin_buf)
    /\ tty' = tty_backspace(tty)
    /\ quiet' = (quiet \/ stdin_buf' = <<>>)

\* stdin_flush with a reader waiting (Stdin); nothing is echoed.
stdin_flush ==
    /\ stdin_buf' = <<>>
    /\ quiet' = TRUE
    /\ UNCHANGED tty

\* kb_handle_interrupt for a key that is pressed.
kb_handle_interrupt(k) ==
    IF k = Backspace THEN stdin_pop
    ELSE IF k = Enter THEN stdin_flush
    ELSE kb_map(k) # Blank /\ stdin_put(kb_map(k))

Next ==
    \/ \E s \in Writes : syscall_write(s)
    \/ \E s \in Logs : log_write(s) \/ kernel_panic(s)
    \/ \E s \in Warnings : tty_printf(s)
    \/ \E k \in Glyphs \cup Keys \cup {Backspace, Enter} : kb_handle_interrupt(k)

Spec == Init /\ [][Next]_vars

-----------------------------------------------------------------------------
\* The cells whose character is not what the screen shows.
Stale(t) == {i \in Cells : t.screen[i] # t.cells[i]}

\* The type invariant: the cursor never leaves the screen, so no character is
\* put outside the back buffer.
TypeOK ==
    /\ tty.x \in 0..(Cols - 1) /\ tty.y \in 0..(Rows - 1)
    /\ {tty.cells, tty.screen} \subseteq [Cells -> Glyphs \cup {Blank}]
    /\ stdin_buf \in Seq(Glyphs) /\ Len(stdin_buf) < STDIN_BUF_MAX
    /\ quiet \in BOOLEAN

\* Nothing is ever overwritten: from the cursor on the back buffer and the screen
\* are blank, however output, wrapping, scrolling and Backspace over the start
\* of a row followed each other; and what the screen shows is in the buffer.
AppendsOnly ==
    /\ \A i \in Cells : i >= Index(tty) => tty.cells[i] = Blank
    /\ \A i \in Cells : tty.screen[i] \in {tty.cells[i], Blank}

\* What a program or the log has printed can be seen when the call is over, from
\* the row where it began; only a line that wraps while it is typed, or while the
\* kernel warns, leaves cells undrawn, and they lie in rows above the cursor's.
OutputShown ==
    [][/\ (\E s \in Writes : syscall_write(s)) => \A i \in Stale(tty') : i < tty.y * Cols /\ i \in Stale(tty)
       /\ (\E s \in Logs : log_write(s)) => Stale(tty') = {}
       /\ (stdin_buf' # stdin_buf) => \A i \in Stale(tty') : i \in Stale(tty) \/ i = Index(tty)
      ]_vars

\* The line on the screen is the line that Enter will hand over: as long as
\* nothing was printed since it was begun, the cells before the cursor hold it,
\* through wrapping, scrolling and Backspace.
EchoIsLine ==
    quiet => \A n \in 1..Len(stdin_buf) :
        LET i == Index(tty) - Len(stdin_buf) + n - 1 IN i \in Cells /\ tty.cells[i] = stdin_buf[n]
=============================================================================
