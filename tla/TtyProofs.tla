------------------------------ MODULE TtyProofs ------------------------------
(***************************************************************************)
(* Proofs about Tty, for a screen of any size and any texts.               *)
(*                                                                         *)
(* What a call prints is a walk over its text, so a fact about the result  *)
(* holds because no character is the first to break it.  Each character    *)
(* keeps a terminal Clean (AppendsOnly) and leaves the rows Above the one  *)
(* where the call began as they were or drawn.  Between the two halves of  *)
(* a character, with the cursor back in column 0 and not yet a row down,   *)
(* only the rows below are known to be blank: RowDone.                     *)
(***************************************************************************)
EXTENDS Tty, FiniteSetTheorems, TLAPS, SequenceTheorems

\* A non-empty set of natural numbers has a least one.  A claim about all numbers
\* holds because it has no least counterexample; this stands in for induction.
LEMMA LeastNat ==
    ASSUME NEW S \in SUBSET Nat, S # {}
    PROVE  \E x \in S : \A y \in S : x <= y
  <1>1. PICK R : R = {ss \in Nat \X Nat : ss[1] < ss[2]}
    OBVIOUS
  <1>2. IsWellFoundedOn(R, Nat)
    BY <1>1, NatLessThanWellFounded DEF OpToRel
  <1>3. PICK x \in S : \A y \in S : <<y, x>> \notin R
    BY <1>2, WFMin
  <1>4. ASSUME NEW y \in S PROVE x <= y
    <2>1. ~ (y < x)
      BY <1>1, <1>3
    <2> QED
      BY <2>1
  <1> QED
    BY <1>4

Drawn == Glyphs \cup {Blank}

\* A terminal whose cursor is on the screen.
Term == [cells : [Cells -> Drawn], screen : [Cells -> Drawn],
         x : 0..(Cols - 1), y : 0..(Rows - 1)]

\* What the screen shows is in the buffer.
ShowsCells(t) == \A i \in Cells : t.screen[i] = t.cells[i] \/ t.screen[i] = Blank

\* AppendsOnly of a terminal.
Clean(t) ==
    /\ \A i \in Cells : i >= Index(t) => t.cells[i] = Blank
    /\ ShowsCells(t)

\* The rows below the cursor's are blank.
RowDone(t) ==
    /\ \A i \in Cells : i >= t.y * Cols + Cols => t.cells[i] = Blank
    /\ ShowsCells(t)

\* From t to u the cursor went down, if at all, and above the row where it was
\* in t nothing that was drawn became undrawn.
Above(t, u) ==
    /\ t.y <= u.y
    /\ \A i \in Cells : i < t.y * Cols /\ i \in Stale(u) => i \in Stale(t)

-----------------------------------------------------------------------------
(* Rows and cells *)

LEMMA Sizes ==
    /\ Cols \in Nat \ {0} /\ Rows \in Nat \ {0}
    /\ Cols * Rows \in Nat /\ Cols * (Rows - 1) = Cols * Rows - Cols
    /\ Cols * (Rows - 1) \in Nat
    /\ Cells = 0..(Cols * Rows - 1)
    /\ Cells \subseteq Nat
  <1>1. Cols \in Nat \ {0} /\ Rows \in Nat \ {0}
    BY TtyAssumption
  <1>2. ASSUME NEW a \in Nat \ {0}, NEW b \in Nat \ {0}
        PROVE  a * b \in Nat /\ a * (b - 1) = a * b - a /\ a * (b - 1) \in Nat
    BY SMT
  <1>3. Cells \subseteq Nat
    BY <1>1, <1>2 DEF Cells
  <1> QED
    BY <1>1, <1>2, <1>3 DEF Cells

\* Where row y begins, how far it goes, and that the last one ends the screen.
LEMMA RowFacts ==
    ASSUME NEW y \in 0..(Rows - 1)
    PROVE  /\ y * Cols \in Nat /\ y * Cols + Cols <= Cols * Rows
           /\ (y + 1) * Cols = y * Cols + Cols
           /\ y = Rows - 1 => y * Cols = Cols * Rows - Cols
           /\ y > 0 => (y - 1) * Cols = y * Cols - Cols /\ y * Cols >= Cols
  <1>1. ASSUME NEW a \in Nat \ {0}, NEW b \in Nat \ {0}, NEW r \in 0..(b - 1)
        PROVE  /\ r * a \in Nat /\ r * a + a <= a * b
               /\ (r + 1) * a = r * a + a
               /\ r = b - 1 => r * a = a * b - a
               /\ r > 0 => (r - 1) * a = r * a - a /\ r * a >= a
    <2>1. r * a \in Nat /\ (r + 1) * a = r * a + a /\ (r - 1) * a = r * a - a
      BY SMT
    <2>2. r * a + a <= a * b
      BY SMT
    <2>3. r = b - 1 => r * a = a * b - a
      BY SMT
    <2>4. r > 0 => r * a >= a
      BY SMT
    <2> QED
      BY <2>1, <2>2, <2>3, <2>4
  <1> QED
    BY <1>1, Sizes

LEMMA RowsInOrder ==
    ASSUME NEW y \in 0..(Rows - 1), NEW z \in 0..(Rows - 1), y <= z
    PROVE  y * Cols <= z * Cols
  <1>1. ASSUME NEW a \in Nat, NEW r \in Nat, NEW d \in Nat
        PROVE  r * a <= (r + d) * a
    <2>1. d * a \in Nat /\ r * a \in Nat /\ (r + d) * a = r * a + d * a
      BY SMT
    <2> QED
      BY <2>1
  <1>2. z - y \in Nat /\ y \in Nat /\ y + (z - y) = z
    BY Sizes
  <1> QED
    BY <1>1, <1>2, Sizes

LEMMA IndexFacts ==
    ASSUME NEW t \in Term
    PROVE  /\ Index(t) \in Cells /\ Index(t) = t.y * Cols + t.x
           /\ t.y * Cols <= Index(t) /\ Index(t) < t.y * Cols + Cols
  <1>1. t.x \in 0..(Cols - 1) /\ t.y \in 0..(Rows - 1)
    BY DEF Term
  <1>2. t.y * Cols \in Nat /\ t.y * Cols + Cols <= Cols * Rows
    BY <1>1, RowFacts
  <1> QED
    BY <1>1, <1>2, Sizes, SMTT(30) DEF Index

-----------------------------------------------------------------------------
(* The operations *)

LEMMA FlushFacts ==
    ASSUME NEW t \in Term, NEW I
    PROVE  /\ flush_cells(t, I) \in Term
           /\ flush_cells(t, I).cells = t.cells
           /\ flush_cells(t, I).x = t.x /\ flush_cells(t, I).y = t.y
           /\ Stale(flush_cells(t, I)) = Stale(t) \ I
           /\ ShowsCells(t) => ShowsCells(flush_cells(t, I))
  <1>1. PICK scr : scr = [i \in Cells |-> IF i \in I THEN t.cells[i] ELSE t.screen[i]]
    OBVIOUS
  <1>2. flush_cells(t, I) = [t EXCEPT !.screen = scr]
    BY <1>1 DEF flush_cells
  <1>3. scr \in [Cells -> Drawn]
    BY <1>1 DEF Term
  <1>4. /\ flush_cells(t, I) \in Term /\ flush_cells(t, I).screen = scr
        /\ flush_cells(t, I).cells = t.cells
        /\ flush_cells(t, I).x = t.x /\ flush_cells(t, I).y = t.y
    BY <1>2, <1>3 DEF Term
  <1>5. Stale(flush_cells(t, I)) = Stale(t) \ I
    BY <1>1, <1>4 DEF Stale
  <1>6. ShowsCells(t) => ShowsCells(flush_cells(t, I))
    BY <1>1, <1>4 DEF ShowsCells
  <1> QED
    BY <1>4, <1>5, <1>6

LEMMA ScrollFacts ==
    ASSUME NEW t \in Term
    PROVE  /\ tty_scroll(t) \in Term
           /\ tty_scroll(t).x = t.x /\ tty_scroll(t).y = Rows - 1
           /\ \A i \in Cells : i < Cols * (Rows - 1) => tty_scroll(t).cells[i] = t.cells[i + Cols]
           /\ \A i \in Cells : i >= Cols * (Rows - 1) => tty_scroll(t).cells[i] = Blank
           /\ Stale(tty_scroll(t)) = {} /\ ShowsCells(tty_scroll(t))
  <1>1. PICK c : c = [i \in Cells |-> IF i < Cols * (Rows - 1) THEN t.cells[i + Cols] ELSE Blank]
    OBVIOUS
  <1>2. PICK u : u = [t EXCEPT !.cells = c, !.y = Rows - 1]
    OBVIOUS
  <1>3. tty_scroll(t) = flush_cells(u, Cells)
    BY <1>1, <1>2 DEF tty_scroll, tty_flush
  <1>4. c \in [Cells -> Drawn]
    <2>1. ASSUME NEW i \in Cells, i < Cols * (Rows - 1) PROVE t.cells[i + Cols] \in Drawn
      <3>1. i + Cols \in Cells
        BY <2>1, Sizes
      <3> QED
        BY <3>1 DEF Term
    <2> QED
      BY <1>1, <2>1 DEF Drawn
  <1>5. Rows - 1 \in 0..(Rows - 1)
    BY Sizes
  <1>6. u \in Term /\ u.x = t.x /\ u.y = Rows - 1 /\ u.cells = c
    BY <1>2, <1>4, <1>5 DEF Term
  <1>7. /\ tty_scroll(t) \in Term /\ tty_scroll(t).cells = c
        /\ tty_scroll(t).x = t.x /\ tty_scroll(t).y = Rows - 1
        /\ Stale(tty_scroll(t)) = Stale(u) \ Cells
    BY <1>3, <1>6, FlushFacts
  <1>8. Stale(tty_scroll(t)) = {}
    BY <1>7 DEF Stale
  <1>9. ShowsCells(tty_scroll(t))
    BY <1>8 DEF Stale, ShowsCells
  <1> QED
    BY <1>1, <1>7, <1>8, <1>9, Sizes

LEMMA DownFacts ==
    ASSUME NEW t \in Term, t.x = 0, RowDone(t)
    PROVE  Down(t) \in Term /\ Clean(Down(t)) /\ Above(t, Down(t))
  <1>1. t.y \in 0..(Rows - 1) /\ Rows \in Nat
    BY Sizes DEF Term
  <1>2. CASE t.y + 1 >= Rows
    <2>1. Down(t) = tty_scroll(t) /\ t.y = Rows - 1
      BY <1>1, <1>2 DEF Down
    <2>2. Index(Down(t)) = Cols * (Rows - 1)
      <3>1. Index(Down(t)) = Down(t).y * Cols + Down(t).x
        BY DEF Index
      <3>2. Down(t).y = Rows - 1 /\ Down(t).x = 0
        BY <2>1, ScrollFacts
      <3> QED
        BY <3>1, <3>2, <1>1, <2>1, RowFacts, Sizes
    <2>3. Clean(Down(t))
      BY <2>1, <2>2, ScrollFacts DEF Clean
    <2> QED
      BY <1>1, <2>1, <2>3, ScrollFacts DEF Above
  <1>3. CASE ~ (t.y + 1 >= Rows)
    <2>1. PICK u : u = [t EXCEPT !.y = t.y + 1]
      OBVIOUS
    <2>2. Down(t) = u
      BY <1>3, <2>1 DEF Down
    <2>3. /\ u \in Term /\ u.y = t.y + 1 /\ u.x = 0 /\ u.cells = t.cells
          /\ u.screen = t.screen
      BY <1>1, <1>3, <2>1 DEF Term
    <2>4. Index(u) = t.y * Cols + Cols
      BY <1>1, <2>3, RowFacts, Sizes DEF Index
    <2>5. Clean(u)
      BY <2>3, <2>4 DEF Clean, RowDone, ShowsCells
    <2>6. Above(t, u)
      BY <1>1, <2>3 DEF Above, Stale
    <2> QED
      BY <2>2, <2>3, <2>5, <2>6
  <1> QED
    BY <1>2, <1>3

LEMMA AboveChains ==
    ASSUME NEW t \in Term, NEW u \in Term, NEW w \in Term, Above(t, u), Above(u, w)
    PROVE  Above(t, w)
  <1>1. t.y \in 0..(Rows - 1) /\ u.y \in 0..(Rows - 1) /\ w.y \in 0..(Rows - 1)
    BY DEF Term
  <1>2. t.y <= u.y /\ u.y <= w.y /\ t.y <= w.y
    BY <1>1, Sizes DEF Above
  <1>3. t.y * Cols <= u.y * Cols /\ t.y * Cols \in Nat /\ u.y * Cols \in Nat
    BY <1>1, <1>2, RowsInOrder, RowFacts
  <1> QED
    BY <1>2, <1>3, Sizes DEF Above

LEMMA AboveSame ==
    ASSUME NEW t \in Term, NEW u \in Term, t.y = u.y,
           \A i \in Cells : i < t.y * Cols => u.cells[i] = t.cells[i] /\ u.screen[i] = t.screen[i]
    PROVE  Above(t, u)
  <1>1. t.y \in 0..(Rows - 1)
    BY DEF Term
  <1> QED
    BY <1>1, Sizes DEF Above, Stale

LEMMA NewlineFacts ==
    ASSUME NEW t \in Term, Clean(t)
    PROVE  tty_newline(t) \in Term /\ Clean(tty_newline(t)) /\ Above(t, tty_newline(t))
  <1>1. t.y \in 0..(Rows - 1) /\ 0 \in 0..(Cols - 1)
    BY Sizes DEF Term
  <1>2. PICK u : u = [t EXCEPT !.x = 0]
    OBVIOUS
  <1>3. u \in Term /\ u.x = 0 /\ u.y = t.y /\ u.cells = t.cells /\ u.screen = t.screen
    BY <1>1, <1>2 DEF Term
  <1>4. PICK I : I = (t.y * Cols)..((t.y + 1) * Cols - 1)
    OBVIOUS
  <1>5. PICK w : w = flush_cells(u, I)
    OBVIOUS
  <1>6. tty_newline(t) = Down(w)
    BY <1>2, <1>4, <1>5 DEF tty_newline, flush_line
  <1>7. /\ w \in Term /\ w.x = 0 /\ w.y = t.y /\ w.cells = t.cells
        /\ Stale(w) = Stale(u) \ I /\ (ShowsCells(u) => ShowsCells(w))
    BY <1>3, <1>5, FlushFacts
  <1>8. ShowsCells(u) /\ Stale(u) = Stale(t)
    BY <1>3 DEF Clean, ShowsCells, Stale
  <1>9. RowDone(w)
    <2>1. Index(t) < t.y * Cols + Cols /\ t.y * Cols \in Nat /\ Index(t) \in Nat /\ Cols \in Nat
      BY <1>1, IndexFacts, RowFacts, Sizes
    <2>2. \A i \in Cells : i >= t.y * Cols + Cols => i >= Index(t)
      BY <2>1, Sizes
    <2> QED
      BY <1>7, <1>8, <2>2 DEF RowDone, Clean
  <1>10. Down(w) \in Term /\ Clean(Down(w)) /\ Above(w, Down(w))
    BY <1>7, <1>9, DownFacts
  <1>11. Above(t, w)
    BY <1>1, <1>7, <1>8, Sizes DEF Above
  <1> QED
    BY <1>6, <1>7, <1>10, <1>11, AboveChains

\* A character that is drawn: it is written at the cursor.
LEMMA WriteFacts ==
    ASSUME NEW t \in Term, NEW c \in Glyphs
    PROVE  /\ [t EXCEPT !.cells[Index(t)] = c] \in Term
           /\ [t EXCEPT !.cells[Index(t)] = c].cells = [t.cells EXCEPT ![Index(t)] = c]
           /\ [t EXCEPT !.cells[Index(t)] = c].x = t.x
           /\ [t EXCEPT !.cells[Index(t)] = c].y = t.y
           /\ [t EXCEPT !.cells[Index(t)] = c].screen = t.screen
  <1>1. PICK d : d = [t.cells EXCEPT ![Index(t)] = c]
    OBVIOUS
  <1>2. d \in [Cells -> Drawn]
    BY <1>1, IndexFacts DEF Term, Drawn
  <1>3. PICK u : u = [t EXCEPT !.cells = d]
    OBVIOUS
  <1>4. u = [t EXCEPT !.cells[Index(t)] = c]
    BY <1>1, <1>3 DEF Term
  <1>5. u \in Term /\ u.cells = d /\ u.x = t.x /\ u.y = t.y /\ u.screen = t.screen
    BY <1>2, <1>3 DEF Term
  <1> QED
    BY <1>1, <1>4, <1>5

\* The character is at the cursor, which then is one cell further; or all of the
\* screen has moved up by a row.
Moved(t, c, u) ==
    \/ /\ Index(u) = Index(t) + 1
       /\ u.cells = [t.cells EXCEPT ![Index(t)] = c] /\ u.screen = t.screen
    \/ /\ Index(t) + 1 = Cols * Rows /\ Index(u) = Cols * (Rows - 1)
       /\ \A i \in Cells : i < Cols * (Rows - 1) =>
             u.cells[i] = [t.cells EXCEPT ![Index(t)] = c][i + Cols]
       /\ Stale(u) = {}

LEMMA GlyphFacts ==
    ASSUME NEW t \in Term, Clean(t), NEW c \in Glyphs
    PROVE  /\ tty_putchar(t, c) \in Term /\ Clean(tty_putchar(t, c))
           /\ Above(t, tty_putchar(t, c)) /\ Moved(t, c, tty_putchar(t, c))
  <1>1. c # FF /\ c # NL
    BY TtyAssumption
  <1>2. PICK u : u = [t EXCEPT !.cells[Index(t)] = c]
    OBVIOUS
  <1>3. /\ u \in Term /\ u.cells = [t.cells EXCEPT ![Index(t)] = c]
        /\ u.x = t.x /\ u.y = t.y /\ u.screen = t.screen
    BY <1>2, WriteFacts
  <1>4. /\ t.y \in 0..(Rows - 1) /\ t.x \in 0..(Cols - 1) /\ Index(t) \in Cells
        /\ Index(t) = t.y * Cols + t.x /\ t.y * Cols \in Nat /\ 0 \in 0..(Cols - 1)
        /\ t.cells \in [Cells -> Drawn]
    BY IndexFacts, RowFacts, Sizes DEF Term
  <1>5. ShowsCells(u)
    <2>1. t.screen[Index(t)] = Blank
      BY <1>4, Sizes DEF Clean, ShowsCells
    <2> QED
      BY <1>3, <1>4, <2>1 DEF Clean, ShowsCells
  <1>6. \A i \in Cells : i < t.y * Cols => u.cells[i] = t.cells[i]
    BY <1>3, <1>4, Sizes
  <1>7. \A i \in Cells : i > Index(t) => u.cells[i] = Blank
    BY <1>3, <1>4, Sizes DEF Clean
  <1>8. CASE t.x + 1 >= Cols
    <2>1. PICK w : w = [u EXCEPT !.x = 0]
      OBVIOUS
    <2>2. tty_putchar(t, c) = Down(w)
      BY <1>1, <1>2, <1>8, <2>1 DEF tty_putchar
    <2>3. w \in Term /\ w.x = 0 /\ w.y = t.y /\ w.cells = u.cells /\ w.screen = t.screen
      BY <1>3, <1>4, <2>1 DEF Term
    <2>4. t.x = Cols - 1 /\ Index(t) = t.y * Cols + Cols - 1
      BY <1>4, <1>8, Sizes, SMTT(30)
    <2>5. RowDone(w)
      <3>1. \A i \in Cells : i >= t.y * Cols + Cols => i > Index(t)
        BY <1>4, <2>4, Sizes
      <3>2. ShowsCells(w)
        BY <1>3, <1>5, <2>3 DEF ShowsCells
      <3> QED
        BY <3>1, <3>2, <1>7, <2>3 DEF RowDone
    <2>6. Down(w) \in Term /\ Clean(Down(w)) /\ Above(w, Down(w))
      BY <2>3, <2>5, DownFacts
    <2>7. Above(t, w)
      BY <1>6, <2>3, AboveSame
    <2>8. Above(t, Down(w))
      BY <2>3, <2>6, <2>7, AboveChains
    <2>9. Moved(t, c, Down(w))
      <3>1. CASE w.y + 1 >= Rows
        <4>1. Down(w) = tty_scroll(w) /\ t.y = Rows - 1
          <5>1. Down(w) = tty_scroll(w)
            BY ONLY <3>1 DEF Down
          <5>2. t.y + 1 >= Rows /\ t.y \in 0..(Rows - 1) /\ Rows \in Nat
            BY <3>1, <2>3, <1>4, Sizes
          <5> QED
            BY ONLY <5>1, <5>2
        <4>2. Index(t) + 1 = Cols * Rows
          BY <4>1, <2>4, <1>4, RowFacts, Sizes
        <4>3. Index(Down(w)) = Cols * (Rows - 1)
          <5>1. Index(Down(w)) = Down(w).y * Cols + Down(w).x
            BY DEF Index
          <5>2. Down(w).y = Rows - 1 /\ Down(w).x = 0
            BY <4>1, <2>3, ScrollFacts
          <5> QED
            BY <5>1, <5>2, <4>1, <1>4, RowFacts, Sizes
        <4>4. \A i \in Cells : i < Cols * (Rows - 1) => Down(w).cells[i] = u.cells[i + Cols]
          BY <4>1, <2>3, ScrollFacts
        <4>5. Stale(Down(w)) = {}
          BY <4>1, <2>3, ScrollFacts
        <4> QED
          BY <4>2, <4>3, <4>4, <4>5, <1>3 DEF Moved
      <3>2. CASE ~ (w.y + 1 >= Rows)
        <4>1. Down(w) = [w EXCEPT !.y = w.y + 1]
          BY <3>2 DEF Down
        <4>2. /\ Down(w).y = t.y + 1 /\ Down(w).x = 0 /\ Down(w).cells = u.cells
              /\ Down(w).screen = t.screen
          BY <4>1, <2>3 DEF Term
        <4>3. Index(Down(w)) = Index(t) + 1
          <5>1. Index(Down(w)) = Down(w).y * Cols + Down(w).x
            BY DEF Index
          <5> QED
            BY <5>1, <4>2, <2>4, <1>4, RowFacts, Sizes
        <4> QED
          BY <4>2, <4>3, <1>3 DEF Moved
      <3> QED
        BY <3>1, <3>2
    <2> QED
      BY <2>2, <2>6, <2>8, <2>9
  <1>9. CASE ~ (t.x + 1 >= Cols)
    <2>1. PICK w : w = [u EXCEPT !.x = t.x + 1]
      OBVIOUS
    <2>2. tty_putchar(t, c) = w
      <3>1. tty_putchar(t, c) = [u EXCEPT !.x = @ + 1]
        BY <1>1, <1>2, <1>9 DEF tty_putchar
      <3> QED
        BY <3>1, <2>1, <1>3
    <2>3. t.x + 1 \in 0..(Cols - 1)
      BY <1>4, <1>9, Sizes
    <2>4. w \in Term /\ w.x = t.x + 1 /\ w.y = t.y /\ w.cells = u.cells /\ w.screen = t.screen
      BY <1>3, <2>1, <2>3 DEF Term
    <2>5. Index(w) = Index(t) + 1
      <3>1. Index(w) = t.y * Cols + (t.x + 1)
        BY <2>4 DEF Index
      <3>2. ASSUME NEW k \in Nat, NEW x \in Nat PROVE k + (x + 1) = (k + x) + 1
        OBVIOUS
      <3>3. t.x \in Nat
        BY <1>4, Sizes
      <3> QED
        BY <3>1, <3>2, <3>3, <1>4
    <2>6. Clean(w)
      <3>1. \A i \in Cells : i >= Index(w) => i > Index(t)
        BY <1>4, <2>5, Sizes
      <3>2. ShowsCells(w)
        BY <1>3, <1>5, <2>4 DEF ShowsCells
      <3> QED
        BY <3>1, <3>2, <1>7, <2>4 DEF Clean
    <2>7. Above(t, w)
      BY <1>6, <2>4, AboveSame
    <2>8. Moved(t, c, w)
      BY <2>4, <2>5, <1>3 DEF Moved
    <2> QED
      BY <2>2, <2>4, <2>6, <2>7, <2>8
  <1> QED
    BY <1>8, <1>9

LEMMA FlushClean ==
    ASSUME NEW t \in Term, Clean(t), NEW I
    PROVE  /\ flush_cells(t, I) \in Term /\ Clean(flush_cells(t, I))
           /\ Above(t, flush_cells(t, I))
  <1>1. Index(flush_cells(t, I)) = Index(t)
    BY FlushFacts DEF Index
  <1>2. Clean(flush_cells(t, I))
    BY <1>1, FlushFacts DEF Clean
  <1>3. t.y \in 0..(Rows - 1)
    BY DEF Term
  <1>4. Above(t, flush_cells(t, I))
    BY <1>3, FlushFacts, Sizes DEF Above
  <1> QED
    BY <1>2, <1>4, FlushFacts

LEMMA PutcharFacts ==
    ASSUME NEW t \in Term, Clean(t), NEW c \in Glyphs \cup {NL, FF}
    PROVE  /\ tty_putchar(t, c) \in Term /\ Clean(tty_putchar(t, c))
           /\ Above(t, tty_putchar(t, c))
  <1>1. CASE c = FF
    BY <1>1, FlushClean DEF tty_putchar, tty_flush
  <1>2. CASE c = NL
    <2>1. c # FF
      BY <1>2, TtyAssumption
    <2> QED
      BY <1>2, <2>1, NewlineFacts DEF tty_putchar
  <1>3. CASE c \in Glyphs
    BY <1>3, GlyphFacts
  <1> QED
    BY <1>1, <1>2, <1>3

-----------------------------------------------------------------------------
(* Texts *)

\* f holds the terminal after each of the first m characters of s.
Prints(f, t, s, m) ==
    f = [n \in 0..m |-> IF n = 0 THEN t ELSE tty_putchar(f[n - 1], s[n])]

\* There is such a function: there is one for no character, and one for m
\* characters is continued by the next one.
LEMMA PrintsExists ==
    ASSUME NEW t, NEW s, NEW m \in Nat
    PROVE  \E f : Prints(f, t, s, m)
  <1> DEFINE Bad == {k \in Nat : ~ \E f : Prints(f, t, s, k)}
  <1>1. SUFFICES ASSUME Bad # {} PROVE FALSE
    OBVIOUS
  <1>2. PICK k \in Bad : \A j \in Bad : k <= j
    BY <1>1, LeastNat
  <1>3. k # 0
    <2>1. Prints([n \in 0..0 |-> t], t, s, 0)
      BY DEF Prints
    <2> QED
      BY <2>1, <1>2
  <1>4. k \in Nat /\ k - 1 \in Nat /\ k - 1 \notin Bad
    BY <1>2, <1>3
  <1>5. PICK g : Prints(g, t, s, k - 1)
    BY <1>4
  <1>6. PICK h : h = [n \in 0..k |-> IF n < k THEN g[n] ELSE tty_putchar(g[k - 1], s[k])]
    OBVIOUS
  <1>7. \A n \in 0..(k - 1) : g[n] = IF n = 0 THEN t ELSE tty_putchar(g[n - 1], s[n])
    BY <1>5 DEF Prints
  <1>8. ASSUME NEW n \in 0..k
        PROVE  h[n] = IF n = 0 THEN t ELSE tty_putchar(h[n - 1], s[n])
    <2>1. CASE n = k
      <3>1. h[n] = tty_putchar(g[k - 1], s[k]) /\ h[k - 1] = g[k - 1]
        BY <1>4, <1>6, <2>1
      <3> QED
        BY <3>1, <2>1, <1>3
    <2>2. CASE n # k /\ n = 0
      <3>1. h[n] = g[n]
        BY <1>4, <1>6, <2>2
      <3> QED
        BY <3>1, <1>4, <1>7, <2>2
    <2>3. CASE n # k /\ n # 0
      <3>1. n \in 0..(k - 1) /\ n - 1 \in 0..k /\ n - 1 < k /\ n < k
        BY <1>4, <2>3
      <3>2. h[n] = g[n] /\ h[n - 1] = g[n - 1]
        BY <1>6, <3>1
      <3> QED
        BY <3>1, <3>2, <1>7, <2>3
    <2> QED
      BY <2>1, <2>2, <2>3
  <1>9. Prints(h, t, s, k)
    <2>1. PICK e : e = [n \in 0..k |-> IF n = 0 THEN t ELSE tty_putchar(h[n - 1], s[n])]
      OBVIOUS
    <2>2. \A n \in 0..k : h[n] = e[n]
      BY <1>8, <2>1
    <2>3. h = e
      BY <1>6, <2>1, <2>2
    <2> QED
      BY <2>1, <2>3 DEF Prints
  <1> QED
    BY <1>2, <1>9

LEMMA PutsFacts ==
    ASSUME NEW t \in Term, Clean(t), NEW s \in Texts
    PROVE  /\ tty_puts(t, s) \in Term /\ Clean(tty_puts(t, s))
           /\ Above(t, tty_puts(t, s))
  <1>1. Len(s) \in Nat /\ \A n \in 1..Len(s) : s[n] \in Glyphs \cup {NL, FF}
    BY DEF Texts
  <1>2. PICK f : f = CHOOSE g : Prints(g, t, s, Len(s))
    OBVIOUS
  <1>3. Prints(f, t, s, Len(s))
    BY <1>1, <1>2, PrintsExists
  <1>4. tty_puts(t, s) = f[Len(s)]
    BY <1>2 DEF tty_puts, Prints
  <1>5. \A n \in 0..Len(s) : f[n] = IF n = 0 THEN t ELSE tty_putchar(f[n - 1], s[n])
    BY <1>3 DEF Prints
  <1> DEFINE Fine(u) == u \in Term /\ Clean(u) /\ Above(t, u)
             Bad == {n \in 0..Len(s) : ~ Fine(f[n])}
  <1>6. Bad = {}
    <2>1. SUFFICES ASSUME Bad # {} PROVE FALSE
      OBVIOUS
    <2>2. Bad \in SUBSET Nat
      BY <1>1
    <2>3. PICK n \in Bad : \A k \in Bad : n <= k
      BY <2>1, <2>2, LeastNat
    <2>4. n # 0
      <3>1. CASE n = 0
        <4>1. f[n] = t
          BY <1>5, <2>3, <3>1
        <4>2. Fine(t)
          BY AboveSame
        <4> QED
          BY <4>1, <4>2, <2>3
      <3> QED
        BY <3>1
    <2>5. n - 1 \in 0..Len(s) /\ n \in 1..Len(s) /\ n - 1 \notin Bad
      BY <1>1, <2>3, <2>4
    <2>6. Fine(f[n - 1])
      BY <2>5
    <2>7. f[n] = tty_putchar(f[n - 1], s[n]) /\ s[n] \in Glyphs \cup {NL, FF}
      BY <1>1, <1>5, <2>4, <2>5
    <2>8. f[n] \in Term /\ Clean(f[n]) /\ Above(f[n - 1], f[n])
      BY <2>6, <2>7, PutcharFacts
    <2>9. Fine(f[n])
      BY <2>6, <2>8, AboveChains
    <2> QED
      BY <2>3, <2>9
  <1> QED
    BY <1>1, <1>4, <1>6

\* Backspace: the cursor is one cell back, also over the start of a row, and the
\* cell there is blank in the buffer and on the screen.
LEMMA BackspaceFacts ==
    ASSUME NEW t \in Term, Clean(t)
    PROVE  /\ tty_backspace(t) \in Term /\ Clean(tty_backspace(t))
           /\ Stale(tty_backspace(t)) \subseteq Stale(t)
           /\ Index(t) > 0 => Index(tty_backspace(t)) = Index(t) - 1
           /\ \A i \in Cells : i + 1 < Index(t) => tty_backspace(t).cells[i] = t.cells[i]
  <1>1. /\ t.y \in 0..(Rows - 1) /\ t.x \in 0..(Cols - 1) /\ Index(t) \in Cells
        /\ Index(t) = t.y * Cols + t.x /\ t.y * Cols \in Nat /\ t.cells \in [Cells -> Drawn]
    BY IndexFacts, RowFacts DEF Term
  <1>a. /\ t.y \in 0..(Rows - 1) /\ t.x \in 0..(Cols - 1)
        /\ Cols \in Nat \ {0} /\ Rows \in Nat \ {0}
    BY Sizes DEF Term
  <1>2. CASE t.x = 0 /\ t.y = 0
    <2>1. Index(t) = 0
      BY <1>1, <1>2, Sizes
    <2>2. tty_backspace(t) = t
      BY <1>2 DEF tty_backspace
    <2> QED
      BY <2>1, <2>2
  <1>3. CASE ~ (t.x = 0 /\ t.y = 0)
    <2>1. PICK u : u = IF t.x = 0 THEN [t EXCEPT !.x = Cols - 1, !.y = t.y - 1]
                       ELSE [t EXCEPT !.x = t.x - 1]
      OBVIOUS
    <2>2. /\ u \in Term /\ u.cells = t.cells /\ u.screen = t.screen
          /\ Index(u) = Index(t) - 1
      <3>1. CASE t.x = 0
        <4>1. Cols - 1 \in 0..(Cols - 1) /\ t.y - 1 \in 0..(Rows - 1) /\ t.y > 0
          BY <1>a, <1>3, <3>1
        <4>2. /\ u \in Term /\ u.cells = t.cells /\ u.screen = t.screen
              /\ u.x = Cols - 1 /\ u.y = t.y - 1
          BY <2>1, <3>1, <4>1 DEF Term
        <4>3. Index(u) = (t.y - 1) * Cols + (Cols - 1)
          BY <4>2 DEF Index
        <4>4. Index(u) = Index(t) - 1
          BY <4>3, <4>1, <1>1, <3>1, RowFacts, Sizes
        <4> QED
          BY <4>2, <4>4
      <3>2. CASE t.x # 0
        <4>1. t.x - 1 \in 0..(Cols - 1)
          BY <1>a, <3>2
        <4>2. /\ u \in Term /\ u.cells = t.cells /\ u.screen = t.screen
              /\ u.x = t.x - 1 /\ u.y = t.y
          BY <2>1, <3>2, <4>1 DEF Term
        <4>3. Index(u) = t.y * Cols + (t.x - 1)
          BY <4>2 DEF Index
        <4>4. ASSUME NEW k \in Nat, NEW x \in Nat, NEW j, j = k + (x - 1)
              PROVE  j = (k + x) - 1
          BY <4>4
        <4>5. Index(u) = Index(t) - 1
          BY <4>3, <4>4, <1>1, <1>a
        <4> QED
          BY <4>2, <4>5
      <3> QED
        BY <3>1, <3>2
    <2>3. PICK d : d = [t.cells EXCEPT ![Index(u)] = Blank]
      OBVIOUS
    <2>4. Index(u) \in Cells /\ d \in [Cells -> Drawn]
      BY <1>1, <2>2, <2>3, IndexFacts DEF Drawn
    <2>5. PICK w : w = [u EXCEPT !.cells = d]
      OBVIOUS
    <2>6. w \in Term /\ w.cells = d /\ w.screen = t.screen /\ w.x = u.x /\ w.y = u.y
      BY <2>2, <2>4, <2>5 DEF Term
    <2>7. tty_backspace(t) = flush_cells(w, {Index(u)})
      <3>1. w = [u EXCEPT !.cells[Index(u)] = Blank]
        BY <2>2, <2>3, <2>5 DEF Term
      <3> QED
        BY <3>1, <1>3, <2>1 DEF tty_backspace
    <2>8. PICK v : v = flush_cells(w, {Index(u)})
      OBVIOUS
    <2>9. /\ v \in Term /\ v.cells = d /\ v.x = u.x /\ v.y = u.y
          /\ Stale(v) = Stale(w) \ {Index(u)}
      BY <2>6, <2>8, FlushFacts
    <2>10. Index(v) = Index(t) - 1 /\ Index(u) = Index(t) - 1
      BY <2>2, <2>9 DEF Index
    <2>11. \A i \in Cells : i # Index(u) => d[i] = t.cells[i]
      BY <1>1, <2>3
    <2>12. Stale(v) \subseteq Stale(t)
      BY <2>6, <2>9, <2>11 DEF Stale
    <2>13. Clean(v)
      <3>1. d[Index(u)] = Blank
        BY <1>1, <2>3, <2>4
      <3>2. \A i \in Cells : i >= Index(v) => i = Index(u) \/ i >= Index(t)
        BY <1>1, <2>10, Sizes
      <3>3. \A i \in Cells : i >= Index(v) => d[i] = Blank
        BY <3>1, <3>2, <2>11 DEF Clean
      <3>4. ASSUME NEW i \in Cells PROVE v.screen[i] = v.cells[i] \/ v.screen[i] = Blank
        <4>1. v.screen[i] = IF i = Index(u) THEN d[i] ELSE t.screen[i]
          BY <2>6, <2>8 DEF flush_cells, Term
        <4> QED
          BY <4>1, <2>9, <2>11 DEF Clean, ShowsCells
      <3> QED
        BY <3>3, <3>4, <2>9 DEF Clean, ShowsCells
    <2>14. \A i \in Cells : i + 1 < Index(t) => v.cells[i] = t.cells[i]
      BY <1>1, <2>9, <2>10, <2>11, Sizes
    <2> QED
      BY <2>7, <2>8, <2>9, <2>10, <2>12, <2>13, <2>14
  <1> QED
    BY <1>2, <1>3

LEMMA ClearFacts ==
    ASSUME NEW t
    PROVE  tty_clear(t) \in Term /\ Clean(tty_clear(t))
  <1>1. 0 \in 0..(Cols - 1) /\ 0 \in 0..(Rows - 1)
    BY Sizes
  <1> QED
    BY <1>1 DEF tty_clear, Term, Clean, ShowsCells, Drawn

-----------------------------------------------------------------------------
(* The line that is typed *)

\* The cells before the cursor hold the line b.
Echoed(t, b) ==
    \A n \in 1..Len(b) : /\ Index(t) - Len(b) + n - 1 \in Cells
                         /\ t.cells[Index(t) - Len(b) + n - 1] = b[n]

LEMMA EchoFlush ==
    ASSUME NEW t \in Term, NEW I, NEW b, Echoed(t, b)
    PROVE  Echoed(flush_cells(t, I), b)
  <1>1. flush_cells(t, I).cells = t.cells /\ Index(flush_cells(t, I)) = Index(t)
    BY FlushFacts DEF Index
  <1> QED
    BY <1>1 DEF Echoed

\* A key's character is echoed at the end of the line.  When the screen moves up
\* the line moves with it, and there is room for the line above the last row.
LEMMA EchoPut ==
    ASSUME NEW t \in Term, Clean(t), NEW b \in Seq(Glyphs), Echoed(t, b), NEW c \in Glyphs,
           Len(b) + 1 < STDIN_BUF_MAX
    PROVE  Echoed(tty_putchar(t, c), Append(b, c))
  <1>1. PICK u : u = tty_putchar(t, c)
    OBVIOUS
  <1>2. u \in Term /\ Moved(t, c, u)
    BY <1>1, GlyphFacts
  <1>3. PICK e : e = Append(b, c)
    OBVIOUS
  <1>4. /\ Len(b) \in Nat /\ Len(e) = Len(b) + 1 /\ e[Len(b) + 1] = c
        /\ \A n \in 1..Len(b) : e[n] = b[n]
    BY <1>3
  <1>5. STDIN_BUF_MAX \in Nat /\ STDIN_BUF_MAX <= Cols * (Rows - 1)
    BY TtyAssumption
  <1>6. /\ Index(t) \in Cells /\ Index(u) \in Cells /\ Index(t) \in Nat /\ Index(u) \in Nat
        /\ t.cells \in [Cells -> Drawn]
    BY <1>2, IndexFacts, Sizes DEF Term
  <1>7. PICK d : d = [t.cells EXCEPT ![Index(t)] = c]
    OBVIOUS
  <1>8. ASSUME NEW n \in 1..Len(e)
        PROVE  /\ Index(t) - Len(b) + n - 1 \in Cells
               /\ d[Index(t) - Len(b) + n - 1] = e[n]
    <2>1. CASE n = Len(b) + 1
      <3>1. Index(t) - Len(b) + n - 1 = Index(t)
        BY <2>1, <1>4, <1>6
      <3> QED
        BY <3>1, <2>1, <1>4, <1>6, <1>7
    <2>2. CASE n # Len(b) + 1
      <3>1. n \in 1..Len(b)
        BY <1>4, <2>2
      <3>2. PICK i : i = Index(t) - Len(b) + n - 1
        OBVIOUS
      <3>3. i \in Cells /\ t.cells[i] = b[n]
        BY <3>1, <3>2 DEF Echoed
      <3>4. i # Index(t)
        BY <3>1, <3>2, <1>4, <1>6
      <3>5. d[i] = b[n]
        BY <3>3, <3>4, <1>6, <1>7
      <3> QED
        BY <3>1, <3>2, <3>3, <3>5, <1>4
    <2> QED
      BY <2>1, <2>2
  <1>9. ASSUME NEW n \in 1..Len(e)
        PROVE  /\ Index(u) - Len(e) + n - 1 \in Cells
               /\ u.cells[Index(u) - Len(e) + n - 1] = e[n]
    <2>1. CASE Index(u) = Index(t) + 1 /\ u.cells = d
      <3>1. Index(u) - Len(e) + n - 1 = Index(t) - Len(b) + n - 1
        BY <2>1, <1>4, <1>6
      <3> QED
        BY <3>1, <2>1, <1>8
    <2>2. CASE /\ Index(t) + 1 = Cols * Rows /\ Index(u) = Cols * (Rows - 1)
               /\ \A i \in Cells : i < Cols * (Rows - 1) => u.cells[i] = d[i + Cols]
      <3>1. PICK i : i = Index(u) - Len(e) + n - 1
        OBVIOUS
      <3>2. i + Cols = Index(t) - Len(b) + n - 1
        BY <3>1, <2>2, <1>4, <1>6, Sizes
      <3>3. i \in Nat /\ i < Cols * (Rows - 1)
        BY <3>1, <2>2, <1>4, <1>5, <1>6, Sizes
      <3>4. i \in Cells
        BY <3>3, Sizes
      <3> QED
        BY <3>1, <3>2, <3>3, <3>4, <2>2, <1>8
    <2> QED
      BY <2>1, <2>2, <1>2, <1>7 DEF Moved
  <1> QED
    BY <1>1, <1>3, <1>9 DEF Echoed

\* The line without its last character.
LEMMA FrontFacts ==
    ASSUME NEW b \in Seq(Glyphs), b # <<>>
    PROVE  /\ Front(b) \in Seq(Glyphs) /\ Len(Front(b)) = Len(b) - 1
           /\ \A n \in 1..Len(Front(b)) : Front(b)[n] = b[n]
  <1>1. Len(b) \in Nat /\ Len(b) # 0 /\ \A n \in 1..(Len(b) - 1) : b[n] \in Glyphs
    OBVIOUS
  <1>2. PICK m : m = Len(b) - 1
    OBVIOUS
  <1>3. m \in Nat /\ \A n \in 1..m : b[n] \in Glyphs
    BY <1>1, <1>2
  <1>4. /\ SubSeq(b, 1, m) \in Seq(Glyphs) /\ Len(SubSeq(b, 1, m)) = IF 1 <= m THEN m - 1 + 1 ELSE 0
        /\ \A n \in 1..(m - 1 + 1) : SubSeq(b, 1, m)[n] = b[1 + n - 1]
    BY <1>3, SubSeqProperties
  <1>5. Len(SubSeq(b, 1, m)) = m /\ \A n \in 1..m : SubSeq(b, 1, m)[n] = b[n]
    BY <1>3, <1>4
  <1>6. Front(b) = SubSeq(b, 1, m)
    BY <1>2 DEF Front
  <1> QED
    BY <1>2, <1>4, <1>5, <1>6

LEMMA EchoPop ==
    ASSUME NEW t \in Term, Clean(t), NEW b \in Seq(Glyphs), Echoed(t, b), b # <<>>
    PROVE  Echoed(tty_backspace(t), Front(b))
  <1>1. PICK u : u = tty_backspace(t)
    OBVIOUS
  <1>2. PICK e : e = Front(b)
    OBVIOUS
  <1>3. Len(b) \in Nat /\ Len(b) # 0
    OBVIOUS
  <1>4. Len(e) = Len(b) - 1 /\ \A n \in 1..Len(e) : e[n] = b[n]
    BY <1>2, FrontFacts
  <1>5. Index(t) \in Nat /\ Index(t) > 0
    <2>1. Index(t) \in Nat /\ Index(t) - Len(b) \in Cells
      BY <1>3, IndexFacts, Sizes DEF Echoed
    <2> QED
      BY <2>1, <1>3, Sizes
  <1>6. Index(u) = Index(t) - 1 /\ \A i \in Cells : i + 1 < Index(t) => u.cells[i] = t.cells[i]
    BY <1>1, <1>5, BackspaceFacts
  <1>7. ASSUME NEW n \in 1..Len(e)
        PROVE  /\ Index(u) - Len(e) + n - 1 \in Cells
               /\ u.cells[Index(u) - Len(e) + n - 1] = e[n]
    <2>1. PICK i : i = Index(t) - Len(b) + n - 1
      OBVIOUS
    <2>2. n \in 1..Len(b) /\ i = Index(u) - Len(e) + n - 1 /\ i + 1 < Index(t)
      BY <2>1, <1>3, <1>4, <1>5, <1>6
    <2>3. i \in Cells /\ t.cells[i] = b[n]
      BY <2>1, <2>2 DEF Echoed
    <2> QED
      BY <2>2, <2>3, <1>4, <1>6
  <1> QED
    BY <1>1, <1>2, <1>7 DEF Echoed

-----------------------------------------------------------------------------
(* The invariant *)

IInv == /\ tty \in Term
        /\ stdin_buf \in Seq(Glyphs) /\ Len(stdin_buf) < STDIN_BUF_MAX
        /\ quiet \in BOOLEAN
        /\ Clean(tty)
        /\ quiet => Echoed(tty, stdin_buf)

LEMMA IInvGives == IInv => TypeOK /\ AppendsOnly /\ EchoIsLine
  <1> SUFFICES ASSUME IInv PROVE TypeOK /\ AppendsOnly /\ EchoIsLine
    OBVIOUS
  <1>1. TypeOK
    BY DEF IInv, Term, TypeOK, Drawn
  <1>2. AppendsOnly
    BY DEF IInv, Clean, ShowsCells, AppendsOnly
  <1>3. EchoIsLine
    BY DEF IInv, Echoed, EchoIsLine
  <1> QED
    BY <1>1, <1>2, <1>3

LEMMA InitIInv == Init => IInv
  <1> SUFFICES ASSUME Init PROVE IInv
    OBVIOUS
  <1>1. 0 \in 0..(Cols - 1) /\ 0 \in 0..(Rows - 1) /\ STDIN_BUF_MAX \in Nat \ {0}
    BY Sizes, TtyAssumption
  <1>2. tty \in Term /\ Clean(tty)
    BY <1>1 DEF Init, Term, Clean, ShowsCells, Drawn
  <1>3. stdin_buf = <<>> /\ quiet = TRUE
    BY DEF Init
  <1>4. stdin_buf \in Seq(Glyphs) /\ Len(stdin_buf) = 0
    BY <1>3
  <1>5. Echoed(tty, stdin_buf)
    BY <1>4 DEF Echoed
  <1> QED
    BY <1>1, <1>2, <1>3, <1>4, <1>5 DEF IInv

\* What prints leaves the line alone, and is between it and the cursor unless
\* there is no line.
LEMMA PrintedIInv ==
    ASSUME IInv, Printed, UNCHANGED stdin_buf, tty' \in Term, Clean(tty')
    PROVE  IInv'
  <1>1. quiet' \in BOOLEAN /\ (quiet' => stdin_buf = <<>>)
    BY DEF Printed
  <1>2. quiet' => Echoed(tty', stdin_buf')
    <2>1. ASSUME stdin_buf' = <<>> PROVE Echoed(tty', stdin_buf')
      <3>1. Len(stdin_buf') = 0
        BY <2>1
      <3> QED
        BY <3>1 DEF Echoed
    <2> QED
      BY <1>1, <2>1
  <1> QED
    BY <1>1, <1>2 DEF IInv

LEMMA WriteStep ==
    ASSUME IInv, NEW s \in Writes, syscall_write(s)
    PROVE  /\ IInv'
           /\ \A i \in Stale(tty') : i < tty.y * Cols /\ i \in Stale(tty)
  <1>1. tty \in Term /\ Clean(tty) /\ s \in Texts
    BY TtyAssumption DEF IInv
  <1>2. PICK u : u = tty_puts(tty, s)
    OBVIOUS
  <1>3. u \in Term /\ Clean(u) /\ Above(tty, u)
    BY <1>1, <1>2, PutsFacts
  <1>4. PICK I : I = (tty.y * Cols)..((u.y + 1) * Cols - 1)
    OBVIOUS
  <1>5. tty' = flush_cells(u, I)
    BY <1>2, <1>4 DEF syscall_write, Shown, tty_flush_from
  <1>6. tty' \in Term /\ Clean(tty') /\ Stale(tty') = Stale(u) \ I
    BY <1>3, <1>5, FlushFacts, FlushClean
  <1>7. IInv'
    BY <1>6, PrintedIInv DEF syscall_write
  <1>8. ASSUME NEW i \in Stale(tty') PROVE i < tty.y * Cols /\ i \in Stale(tty)
    <2>1. i \in Cells /\ i \in Stale(u) /\ i \notin I
      BY <1>6 DEF Stale
    <2>2. tty.y \in 0..(Rows - 1) /\ u.y \in 0..(Rows - 1)
      BY <1>1, <1>3 DEF Term
    <2>3. /\ tty.y * Cols \in Nat /\ u.y * Cols \in Nat /\ (u.y + 1) * Cols = u.y * Cols + Cols
      BY <2>2, RowFacts
    <2>4. i < u.y * Cols + Cols
      <3>1. SUFFICES ASSUME i >= u.y * Cols + Cols PROVE FALSE
        BY <2>1, <2>3, Sizes
      <3>2. Index(u) < u.y * Cols + Cols /\ Index(u) \in Nat
        BY <1>3, IndexFacts, Sizes
      <3>3. i >= Index(u)
        BY <3>1, <3>2, <2>1, <2>3, Sizes
      <3>4. u.cells[i] = Blank /\ u.screen[i] = Blank
        BY <3>3, <2>1, <1>3 DEF Clean, ShowsCells
      <3> QED
        BY <3>4, <2>1 DEF Stale
    <2>5. i < tty.y * Cols
      BY <1>4, <2>1, <2>3, <2>4, Sizes
    <2> QED
      BY <2>1, <2>5, <1>3 DEF Above
  <1> QED
    BY <1>7, <1>8

LEMMA SinkFacts ==
    ASSUME NEW t \in Term, Clean(t), NEW s \in Texts
    PROVE  /\ tty_log_sink(t, s) \in Term /\ Clean(tty_log_sink(t, s))
           /\ Stale(tty_log_sink(t, s)) = {}
  <1>1. PICK u : u = tty_puts(t, s)
    OBVIOUS
  <1>2. u \in Term /\ Clean(u)
    BY <1>1, PutsFacts
  <1>3. tty_log_sink(t, s) = flush_cells(u, Cells)
    BY <1>1 DEF tty_log_sink, tty_flush
  <1>4. Stale(flush_cells(u, Cells)) = Stale(u) \ Cells
    BY <1>2, FlushFacts
  <1>5. Stale(u) \ Cells = {}
    BY DEF Stale
  <1> QED
    BY <1>2, <1>3, <1>4, <1>5, FlushClean

LEMMA LogStep ==
    ASSUME IInv, NEW s \in Logs, log_write(s) \/ kernel_panic(s)
    PROVE  IInv' /\ Stale(tty') = {}
  <1>1. tty \in Term /\ Clean(tty) /\ s \in Texts
    BY TtyAssumption DEF IInv
  <1>2. tty' \in Term /\ Clean(tty') /\ Stale(tty') = {}
    <2>1. CASE log_write(s)
      BY <2>1, <1>1, SinkFacts DEF log_write
    <2>2. CASE kernel_panic(s)
      BY <2>2, <1>1, SinkFacts, ClearFacts DEF kernel_panic
    <2> QED
      BY <2>1, <2>2
  <1> QED
    BY <1>2, PrintedIInv DEF log_write, kernel_panic

LEMMA WarnStep ==
    ASSUME IInv, NEW s \in Warnings, tty_printf(s)
    PROVE  IInv'
  <1>1. tty \in Term /\ Clean(tty) /\ s \in Texts
    BY TtyAssumption DEF IInv
  <1>2. tty' \in Term /\ Clean(tty')
    BY <1>1, PutsFacts DEF tty_printf
  <1> QED
    BY <1>2, PrintedIInv DEF tty_printf

\* A key: the invariant, and what may be left undrawn.
LEMMA KeyStep ==
    ASSUME IInv, NEW k, kb_handle_interrupt(k)
    PROVE  /\ IInv'
           /\ \A i \in Stale(tty') : i \in Stale(tty) \/ i = Index(tty)
  <1>1. /\ tty \in Term /\ Clean(tty) /\ stdin_buf \in Seq(Glyphs) /\ quiet \in BOOLEAN
        /\ (quiet => Echoed(tty, stdin_buf)) /\ Len(stdin_buf) < STDIN_BUF_MAX
        /\ STDIN_BUF_MAX \in Nat \ {0} /\ Len(stdin_buf) \in Nat
    BY TtyAssumption DEF IInv
  <1>2. CASE k = Backspace
    <2>1. /\ stdin_buf # <<>> /\ stdin_buf' = Front(stdin_buf) /\ tty' = tty_backspace(tty)
          /\ quiet' = (quiet \/ stdin_buf' = <<>>)
      BY <1>2 DEF kb_handle_interrupt, stdin_pop
    <2>2. tty' \in Term /\ Clean(tty') /\ Stale(tty') \subseteq Stale(tty)
      BY <1>1, <2>1, BackspaceFacts
    <2>3. stdin_buf' \in Seq(Glyphs) /\ Len(stdin_buf') < STDIN_BUF_MAX
      <3>1. stdin_buf' \in Seq(Glyphs) /\ Len(stdin_buf') = Len(stdin_buf) - 1
        BY <1>1, <2>1, FrontFacts
      <3> QED
        BY <3>1, <1>1
    <2>4. quiet' => Echoed(tty', stdin_buf')
      <3>1. CASE quiet
        BY <3>1, <1>1, <2>1, EchoPop
      <3>2. CASE stdin_buf' = <<>>
        <4>1. Len(stdin_buf') = 0
          BY <3>2
        <4> QED
          BY <4>1 DEF Echoed
      <3> QED
        BY <3>1, <3>2, <2>1
    <2> QED
      BY <2>1, <2>2, <2>3, <2>4, <1>1 DEF IInv
  <1>3. CASE k # Backspace /\ k = Enter
    <2>1. stdin_buf' = <<>> /\ quiet' = TRUE /\ tty' = tty
      BY <1>3 DEF kb_handle_interrupt, stdin_flush
    <2>2. stdin_buf' \in Seq(Glyphs) /\ Len(stdin_buf') = 0
      BY <2>1
    <2>3. Echoed(tty', stdin_buf')
      BY <2>2 DEF Echoed
    <2> QED
      BY <2>1, <2>2, <2>3, <1>1 DEF IInv
  <1>4. CASE k # Backspace /\ k # Enter
    <2>1. PICK c : c = kb_map(k)
      OBVIOUS
    <2>2. c # Blank /\ stdin_put(c)
      BY <1>4, <2>1 DEF kb_handle_interrupt
    <2>3. c \in Glyphs
      BY <2>1, <2>2 DEF kb_map
    <2>4. /\ Len(stdin_buf) + 1 < STDIN_BUF_MAX /\ stdin_buf' = Append(stdin_buf, c)
          /\ quiet' = quiet
      BY <2>2 DEF stdin_put
    <2>5. PICK u : u = tty_putchar(tty, c)
      OBVIOUS
    <2>6. u \in Term /\ Clean(u) /\ Moved(tty, c, u)
      BY <1>1, <2>3, <2>5, GlyphFacts
    <2>7. PICK I : I = (u.y * Cols)..((u.y + 1) * Cols - 1)
      OBVIOUS
    <2>8. tty' = flush_cells(u, I)
      BY <2>2, <2>5, <2>7 DEF stdin_put, tty_flush_current_line, flush_line
    <2>9. tty' \in Term /\ Clean(tty') /\ Stale(tty') = Stale(u) \ I
      BY <2>6, <2>8, FlushFacts, FlushClean
    <2>10. quiet' => Echoed(tty', stdin_buf')
      <3>1. ASSUME quiet PROVE Echoed(u, stdin_buf')
        BY <3>1, <1>1, <2>3, <2>4, <2>5, EchoPut
      <3> QED
        BY <3>1, <2>4, <2>6, <2>8, EchoFlush
    <2>11. stdin_buf' \in Seq(Glyphs) /\ Len(stdin_buf') < STDIN_BUF_MAX
      BY <1>1, <2>3, <2>4
    <2>12. ASSUME NEW i \in Stale(u) PROVE i \in Stale(tty) \/ i = Index(tty)
      <3>1. CASE u.cells = [tty.cells EXCEPT ![Index(tty)] = c] /\ u.screen = tty.screen
        <4>1. i \in Cells /\ u.screen[i] # u.cells[i]
          BY DEF Stale
        <4>2. tty.cells \in [Cells -> Drawn]
          BY <1>1 DEF Term
        <4>3. i # Index(tty) => u.cells[i] = tty.cells[i]
          BY <3>1, <4>1, <4>2
        <4> QED
          BY <3>1, <4>1, <4>3 DEF Stale
      <3>2. CASE Stale(u) = {}
        BY <3>2
      <3> QED
        BY <3>1, <3>2, <2>6 DEF Moved
    <2> QED
      BY <1>1, <2>4, <2>9, <2>10, <2>11, <2>12 DEF IInv
  <1> QED
    BY <1>2, <1>3, <1>4

LEMMA StepIInv == IInv /\ [Next]_vars => IInv'
  <1> SUFFICES ASSUME IInv, [Next]_vars PROVE IInv'
    OBVIOUS
  <1>1. ASSUME NEW s \in Writes, syscall_write(s) PROVE IInv'
    BY <1>1, WriteStep
  <1>2. ASSUME NEW s \in Logs, log_write(s) \/ kernel_panic(s) PROVE IInv'
    BY <1>2, LogStep
  <1>3. ASSUME NEW s \in Warnings, tty_printf(s) PROVE IInv'
    BY <1>3, WarnStep
  <1>4. ASSUME NEW k, kb_handle_interrupt(k) PROVE IInv'
    BY <1>4, KeyStep
  <1>5. CASE UNCHANGED vars
    BY <1>5 DEF vars, IInv
  <1> QED
    BY <1>1, <1>2, <1>3, <1>4, <1>5 DEF Next

LEMMA Always == Spec => []IInv
  BY InitIInv, StepIInv, PTL DEF Spec

\* The cursor stays on the screen and the line within its buffer, on a screen of
\* any size and whatever is printed.
THEOREM TypeCorrect == Spec => []TypeOK
  BY Always, IInvGives, PTL

\* tty_putchar, scrolling and Backspace never overwrite what was printed: from the
\* cursor on everything is blank, and the screen shows nothing but the buffer.
THEOREM NothingOverwritten == Spec => []AppendsOnly
  BY Always, IInvGives, PTL

\* The echo of stdin_put and stdin_pop is the line that Enter hands over, as long
\* as nothing else was printed since the line was begun.
THEOREM EchoCorrect == Spec => []EchoIsLine
  BY Always, IInvGives, PTL

\* The flushes of __syscall_write, of the log's sink and of the echo draw all that
\* the call printed, from the row where it began.
THEOREM FlushesEnough == Spec => OutputShown
  <1>1. ASSUME IInv, [Next]_vars
        PROVE  [/\ (\E s \in Writes : syscall_write(s)) =>
                      \A i \in Stale(tty') : i < tty.y * Cols /\ i \in Stale(tty)
                /\ (\E s \in Logs : log_write(s)) => Stale(tty') = {}
                /\ (stdin_buf' # stdin_buf) =>
                      \A i \in Stale(tty') : i \in Stale(tty) \/ i = Index(tty)]_vars
    <2>1. (\E s \in Writes : syscall_write(s)) =>
              \A i \in Stale(tty') : i < tty.y * Cols /\ i \in Stale(tty)
      BY <1>1, WriteStep
    <2>2. (\E s \in Logs : log_write(s)) => Stale(tty') = {}
      BY <1>1, LogStep
    <2>3. ASSUME stdin_buf' # stdin_buf
          PROVE  \A i \in Stale(tty') : i \in Stale(tty) \/ i = Index(tty)
      <3>1. \E k : kb_handle_interrupt(k)
        BY <1>1, <2>3 DEF Next, vars, syscall_write, log_write, kernel_panic, tty_printf
      <3> QED
        BY <3>1, <1>1, KeyStep
    <2> QED
      BY <2>1, <2>2, <2>3
  <1> QED
    BY <1>1, Always, PTL DEF Spec, OutputShown
=============================================================================
