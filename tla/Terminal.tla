----------------------------- MODULE Terminal -----------------------------
(***************************************************************************)
(* What the text display promises the kernel: a page of CRT_ROWS lines of  *)
(* CRT_COLS characters and a cursor (row, col) always on the page.  A line *)
(* that is full continues on the next; below the last line the page moves  *)
(* up by one and a blank line appears.                                     *)
(***************************************************************************)
EXTENDS Naturals, Sequences

CONSTANTS CRT_ROWS, CRT_COLS, Glyph, Blank

VARIABLES page, row, col    \* row and col count from 0

BlankLine == [k \in 1 .. CRT_COLS |-> Blank]

Init ==
  /\ page \in [1 .. CRT_ROWS -> [1 .. CRT_COLS -> Glyph]]
  /\ row \in 0 .. CRT_ROWS - 1 /\ col \in 0 .. CRT_COLS - 1

\* The cursor goes to the start of the line below, on the page p.
LineFeed(p) ==
  /\ col' = 0
  /\ IF row + 1 < CRT_ROWS
     THEN page' = p /\ row' = row + 1
     ELSE page' = Append(Tail(p), BlankLine) /\ row' = row

Show(g) ==
  LET p == [page EXCEPT ![row + 1][col + 1] = g]
  IN  IF col + 1 < CRT_COLS
      THEN page' = p /\ col' = col + 1 /\ UNCHANGED row
      ELSE LineFeed(p)

NewLine == LineFeed(page)

Return == col' = 0 /\ UNCHANGED <<page, row>>

Erase ==
  \/ /\ col > 0
     /\ col' = col - 1
     /\ page' = [page EXCEPT ![row + 1][col] = Blank]
     /\ UNCHANGED row
  \/ /\ col = 0 /\ row > 0
     /\ row' = row - 1 /\ col' = CRT_COLS - 1
     /\ page' = [page EXCEPT ![row][CRT_COLS] = Blank]

Next == (\E g \in Glyph : Show(g)) \/ NewLine \/ Return \/ Erase

Spec == Init /\ [][Next]_<<page, row, col>>
===========================================================================
