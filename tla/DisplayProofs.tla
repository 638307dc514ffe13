--------------------------- MODULE DisplayProofs ---------------------------
(***************************************************************************)
(* cga_putc() never writes beside the page, for every size of the page and *)
(* wherever the cursor was when the kernel took the display over.          *)
(***************************************************************************)
EXTENDS ConsoleOutput, SequenceTheorems, TLAPS

\* The assumptions on the page, without its being made of whole lines.
LEMMA PageSize ==
  /\ CRT_COLS \in Nat \ {0} /\ CRT_SIZE \in Nat
  /\ CRT_COLS <= CRT_SIZE
  /\ CRT_SIZE + CRT_COLS <= 65536
BY DisplayAssumption

\* Characters that are shown, from the assumptions.
LEMMA Glyphs == Space \in Glyph /\ Glyph \cap {BS, TAB, NL, CR} = {}
BY DisplayAssumption

\* A value of 16 bits is not changed by its type.
LEMMA Fits16 == \A x \in Nat : x < 65536 => U16(x) = x
BY DEF U16

USE PageSize

\* The start of the line that holds position p.
LEMMA LineStartBounds ==
  ASSUME NEW p \in Nat
  PROVE  LineStart(p) \in 0 .. p
<1>1. p % CRT_COLS \in 0 .. CRT_COLS - 1
  OBVIOUS
<1>2. CASE p < CRT_COLS
  <2>1. p % CRT_COLS = p
    BY <1>2
  <2> QED
    BY <2>1 DEF LineStart
<1>3. CASE p >= CRT_COLS
  BY <1>1, <1>3 DEF LineStart
<1> QED
  BY <1>2, <1>3

(* No character moves the position further than one line past the page,    *)
(* and it does not wrap around its 16 bits.                                *)
LEMMA PosBounds ==
  ASSUME NEW p \in Cells, NEW ch \in Glyph \cup Control
  PROVE  PosAfter(p, ch) \in 0 .. CRT_SIZE - 1 + CRT_COLS
<1>1. p \in Nat /\ p < CRT_SIZE /\ p + CRT_COLS \in Nat /\ p + 1 \in Nat
  BY DEF Cells
<1>2. p + CRT_COLS < 65536 /\ p + 1 < 65536
  BY <1>1
<1>3. U16(p + CRT_COLS) = p + CRT_COLS /\ U16(p + 1) = p + 1
  BY <1>1, <1>2, Fits16
<1>4. LineStart(p) \in 0 .. p /\ LineStart(p + CRT_COLS) \in 0 .. p + CRT_COLS
  BY <1>1, LineStartBounds
<1> QED
  BY <1>1, <1>3, <1>4 DEF PosAfter

\* A character is stored on the page.
LEMMA BufBounds ==
  ASSUME NEW b \in [Cells -> Glyph], NEW p \in Cells, NEW ch \in Glyph \cup Control
  PROVE  BufAfter(b, p, ch) \in [Cells -> Glyph]
<1>1. ch \notin Glyph => ch \in {BS, NL, CR}
  BY DEF Control
<1>2. p > 0 => p - 1 \in Cells
  BY DEF Cells
<1> QED
  BY <1>1, <1>2, Glyphs DEF BufAfter

\* The end of cga_putc() brings buffer and position back onto the page.
LEMMA FinishBounds ==
  ASSUME NEW b \in [Cells -> Glyph], NEW p \in 0 .. CRT_SIZE - 1 + CRT_COLS,
         Finish(b, p)
  PROVE  DisplayTypeOK'
<1>1. ScrolledBuf(b) \in [Cells -> Glyph]
  <2>1. \A k \in Cells : k < CRT_SIZE - CRT_COLS => k + CRT_COLS \in Cells
    BY DEF Cells
  <2> QED
    BY <2>1, Glyphs DEF ScrolledBuf
<1>2. crt_buf' \in [Cells -> Glyph]
  BY <1>1 DEF Finish
<1>3. crt_pos' \in Cells /\ cursor' \in Cells
  BY DEF Finish, Cells
<1> QED
  BY <1>2, <1>3 DEF DisplayTypeOK

(* The position stays on the page between calls of cga_putc(), and with it *)
(* every cell that is written: one scroll by one line is always enough.    *)
THEOREM DisplayTypeCorrect == DisplaySpec => []DisplayTypeOK
<1>1. DisplayInit => DisplayTypeOK
  BY DEF DisplayInit, DisplayTypeOK
<1>2. DisplayTypeOK /\ [DisplayNext]_crtVars => DisplayTypeOK'
  <2> SUFFICES ASSUME DisplayTypeOK, [DisplayNext]_crtVars
               PROVE  DisplayTypeOK'
    OBVIOUS
  <2>1. crt_buf \in [Cells -> Glyph] /\ crt_pos \in Cells
    BY DEF DisplayTypeOK
  <2>2. ASSUME NEW ch \in Glyph \cup Control, CgaPutc(ch)
        PROVE  DisplayTypeOK'
    <3>1. PosAfter(crt_pos, ch) \in 0 .. CRT_SIZE - 1 + CRT_COLS
      BY <2>1, PosBounds
    <3>2. BufAfter(crt_buf, crt_pos, ch) \in [Cells -> Glyph]
      BY <2>1, BufBounds
    <3> QED
      BY <2>2, <3>1, <3>2, FinishBounds DEF CgaPutc
  <2>3. CASE CgaTabEnd
    <3>1. crt_pos \in 0 .. CRT_SIZE - 1 + CRT_COLS
      BY <2>1 DEF Cells
    <3> QED
      BY <2>1, <2>3, <3>1, FinishBounds DEF CgaTabEnd
  <2>4. CASE UNCHANGED crtVars
    BY <2>4 DEF crtVars, DisplayTypeOK
  <2> QED
    BY <2>2, <2>3, <2>4 DEF DisplayNext
<1> QED
  BY <1>1, <1>2, PTL DEF DisplaySpec

---------------------------------------------------------------------------
\* Positions and lines.

\* Facts on products that the provers do not find by themselves.
LEMMA Products ==
  /\ \A a, b \in Nat : a * b \in Nat
  /\ \A a, b, k \in Nat : a < b => a * k + k <= b * k
  /\ \A a, k \in Nat : (a + 1) * k = a * k + k
<1>1. \A a, b \in Nat : a * b \in Nat
  OBVIOUS
<1>2. \A a, k \in Nat : (a + 1) * k = a * k + k
  OBVIOUS
<1>3. ASSUME NEW a \in Nat, NEW b \in Nat, NEW k \in Nat, a < b PROVE a * k + k <= b * k
  <2>1. b - a - 1 \in Nat
    BY <1>3
  <2>2. (b - a - 1) * k \in Nat
    BY <1>1, <2>1
  <2>3. (b - a - 1) * k = b * k - (a * k + k)
    BY <1>3
  <2> QED
    BY <1>1, <2>2, <2>3
<1> QED
  BY <1>1, <1>2, <1>3

\* The line and the column of a position make it up.
LEMMA DivMod ==
  ASSUME NEW p \in Nat
  PROVE  /\ p \div CRT_COLS \in Nat /\ p % CRT_COLS \in 0 .. CRT_COLS - 1
         /\ p = (p \div CRT_COLS) * CRT_COLS + (p % CRT_COLS)
OBVIOUS

Splits(p, q, r) == q \in Nat /\ r \in 0 .. CRT_COLS - 1 /\ p = q * CRT_COLS + r

\* And only one line and one column do.
LEMMA DivModUnique ==
  ASSUME NEW p, NEW q, NEW r, Splits(p, q, r)
  PROVE  p \div CRT_COLS = q /\ p % CRT_COLS = r
<1>0. q \in Nat /\ r \in 0 .. CRT_COLS - 1 /\ p = q * CRT_COLS + r
  BY DEF Splits
<1>1. p \in Nat
  BY <1>0, Products
<1> DEFINE d == p \div CRT_COLS
           m == p % CRT_COLS
<1>2. d \in Nat /\ m \in 0 .. CRT_COLS - 1 /\ p = d * CRT_COLS + m
  BY <1>1, DivMod
<1> HIDE DEF d, m
<1>3. ~(d < q)
  <2> SUFFICES ASSUME d < q PROVE FALSE
    OBVIOUS
  <2>1. d * CRT_COLS + CRT_COLS <= q * CRT_COLS
    BY <1>0, <1>2, Products
  <2> QED
    BY <1>0, <1>2, <2>1, Products
<1>4. ~(q < d)
  <2> SUFFICES ASSUME q < d PROVE FALSE
    OBVIOUS
  <2>1. q * CRT_COLS + CRT_COLS <= d * CRT_COLS
    BY <1>0, <1>2, Products
  <2> QED
    BY <1>0, <1>2, <2>1, Products
<1>5. d = q
  BY <1>0, <1>2, <1>3, <1>4
<1>6. m = r
  BY <1>0, <1>2, <1>5, Products
<1> QED
  BY <1>5, <1>6 DEF d, m

\* The page is made of whole lines.
LEMMA Rows == CRT_ROWS \in Nat \ {0} /\ CRT_ROWS * CRT_COLS = CRT_SIZE
<1>1. /\ CRT_ROWS \in Nat
      /\ CRT_SIZE = CRT_ROWS * CRT_COLS + (CRT_SIZE % CRT_COLS)
  BY DivMod DEF CRT_ROWS
<1>2. CRT_SIZE % CRT_COLS = 0
  BY DisplayAssumption
<1>3. CRT_ROWS * CRT_COLS = CRT_SIZE
  BY <1>1, <1>2, Products
<1>4. CRT_ROWS # 0
  BY <1>3
<1> QED
  BY <1>1, <1>3, <1>4

\* The k-th cell of line r is a cell of the page, and only of that line.
CellAt(r, k) == (r - 1) * CRT_COLS + k - 1

\* The cell of a line and a column.
LEMMA CellOfLine ==
  ASSUME NEW r \in 1 .. CRT_ROWS, NEW k \in 1 .. CRT_COLS
  PROVE  /\ CellAt(r, k) \in Cells
         /\ CellAt(r, k) \div CRT_COLS = r - 1
         /\ CellAt(r, k) % CRT_COLS = k - 1
<1>1. r - 1 \in Nat /\ r - 1 < CRT_ROWS /\ k - 1 \in 0 .. CRT_COLS - 1
  BY Rows
<1>2. (r - 1) * CRT_COLS \in Nat /\ (r - 1) * CRT_COLS + CRT_COLS <= CRT_SIZE
  BY <1>1, Rows, Products
<1> DEFINE x == CellAt(r, k)
           q == r - 1
           m == k - 1
<1>3. x = q * CRT_COLS + m
  BY <1>1, <1>2 DEF CellAt
<1>4. x \in Cells
  BY <1>1, <1>2 DEF Cells, CellAt
<1>5. q \in Nat /\ m \in 0 .. CRT_COLS - 1
  BY <1>1
<1> HIDE DEF x, q, m
<1>6. x \div CRT_COLS = q /\ x % CRT_COLS = m
  <2>1. Splits(x, q, m)
    BY <1>3, <1>5 DEF Splits
  <2> QED
    BY <2>1, DivModUnique
<1> QED
  BY <1>4, <1>6 DEF x, q, m

\* The line and the column of a cell.
LEMMA LineOfCell ==
  ASSUME NEW p \in Cells
  PROVE  /\ p \div CRT_COLS \in 0 .. CRT_ROWS - 1 /\ p % CRT_COLS \in 0 .. CRT_COLS - 1
         /\ p = (p \div CRT_COLS) * CRT_COLS + (p % CRT_COLS)
<1>1. p \in Nat /\ p < CRT_SIZE
  BY DEF Cells
<1> DEFINE d == p \div CRT_COLS
           m == p % CRT_COLS
<1>2. d \in Nat /\ m \in 0 .. CRT_COLS - 1 /\ p = d * CRT_COLS + m
  BY <1>1, DivMod
<1> HIDE DEF d, m
<1>3. d < CRT_ROWS
  <2> SUFFICES ASSUME d >= CRT_ROWS PROVE FALSE
    BY <1>2, Rows
  <2>1. CRT_ROWS * CRT_COLS <= d * CRT_COLS
    BY <1>2, Rows, Products
  <2> QED
    BY <1>1, <1>2, <2>1, Rows, Products
<1>4. d \in 0 .. CRT_ROWS - 1
  BY <1>2, <1>3, Rows
<1> QED
  BY <1>2, <1>4 DEF d, m

---------------------------------------------------------------------------
\* The buffer as a page.

Line(b, r) == [k \in 1 .. CRT_COLS |-> b[CellAt(r, k)]]
PageOf(b) == [r \in 1 .. CRT_ROWS |-> Line(b, r)]

\* The buffer, seen as lines.
LEMMA PageType ==
  ASSUME NEW b \in [Cells -> Glyph]
  PROVE  PageOf(b) \in [1 .. CRT_ROWS -> [1 .. CRT_COLS -> Glyph]]
<1>1. ASSUME NEW r \in 1 .. CRT_ROWS, NEW k \in 1 .. CRT_COLS
      PROVE  b[CellAt(r, k)] \in Glyph
  BY CellOfLine
<1>2. \A r \in 1 .. CRT_ROWS : Line(b, r) \in [1 .. CRT_COLS -> Glyph]
  BY <1>1 DEF Line
<1> QED
  BY <1>2 DEF PageOf

\* A function that differs in one place.
LEMMA OnePlace ==
  ASSUME NEW S, NEW f, NEW h, NEW a, NEW g,
         f = [k \in S |-> f[k]], h = [k \in S |-> h[k]],
         \A k \in S : h[k] = IF k = a THEN g ELSE f[k]
  PROVE  h = [f EXCEPT ![a] = g]
<1>1. DOMAIN f = S
  OBVIOUS
<1>2. [f EXCEPT ![a] = g] = [k \in S |-> IF k = a THEN g ELSE f[k]]
  BY <1>1
<1> QED
  BY <1>2

Written(page, r, k, g) == [page EXCEPT ![r][k] = g]

WroteCell(B, b, p, g) == \A x \in Cells : B[x] = IF x = p THEN g ELSE b[x]

\* A cell written is a character of a line written.
LEMMA PageWrite ==
  ASSUME NEW b \in [Cells -> Glyph], NEW p \in Cells, NEW g, NEW B, WroteCell(B, b, p, g),
         NEW d, NEW m, Splits(p, d, m)
  PROVE  PageOf(B) = Written(PageOf(b), d + 1, m + 1, g)
<1>0. p \div CRT_COLS = d /\ p % CRT_COLS = m
  BY DivModUnique
<1>1. d \in 0 .. CRT_ROWS - 1 /\ m \in 0 .. CRT_COLS - 1 /\ p = d * CRT_COLS + m
  BY <1>0, LineOfCell
<1>2. ASSUME NEW r \in 1 .. CRT_ROWS, NEW k \in 1 .. CRT_COLS
      PROVE  /\ CellAt(r, k) \in Cells
             /\ CellAt(r, k) = p <=> (r = d + 1 /\ k = m + 1)
  <2> DEFINE x == CellAt(r, k)
  <2>1. x \in Cells /\ x \div CRT_COLS = r - 1 /\ x % CRT_COLS = k - 1
    BY CellOfLine
  <2>2. x = p => r - 1 = d /\ k - 1 = m
    BY <1>0, <2>1
  <2>3. r = d + 1 /\ k = m + 1 => x = p
    <3>1. SUFFICES ASSUME r = d + 1, k = m + 1 PROVE x = p
      OBVIOUS
    <3>2. r - 1 = d /\ k - 1 = m /\ d * CRT_COLS \in Nat
      BY <1>1, <3>1, Products, Rows
    <3> QED
      BY <1>1, <3>2 DEF CellAt
  <2> HIDE DEF x
  <2>4. r - 1 = d /\ k - 1 = m => r = d + 1 /\ k = m + 1
    BY <1>1, Rows
  <2> QED
    BY <2>1, <2>2, <2>3, <2>4 DEF x
<1>3. ASSUME NEW r \in 1 .. CRT_ROWS, NEW k \in 1 .. CRT_COLS
      PROVE  B[CellAt(r, k)] =
               IF r = d + 1 /\ k = m + 1 THEN g ELSE b[CellAt(r, k)]
  BY <1>2 DEF WroteCell
<1>4. \A r \in 1 .. CRT_ROWS :
        Line(B, r) = IF r = d + 1 THEN [Line(b, r) EXCEPT ![m + 1] = g] ELSE Line(b, r)
  <2>1. ASSUME NEW r \in 1 .. CRT_ROWS, r # d + 1 PROVE Line(B, r) = Line(b, r)
    BY <1>3, <2>1 DEF Line
  <2>2. ASSUME d + 1 \in 1 .. CRT_ROWS
        PROVE  Line(B, d + 1) = [Line(b, d + 1) EXCEPT ![m + 1] = g]
    <3>1. \A k \in 1 .. CRT_COLS : B[CellAt(d + 1, k)] = IF k = m + 1 THEN g ELSE b[CellAt(d + 1, k)]
      BY <1>3, <2>2
    <3> DEFINE f == Line(b, d + 1)
               h == Line(B, d + 1)
    <3>2. f = [k \in 1 .. CRT_COLS |-> f[k]] /\ h = [k \in 1 .. CRT_COLS |-> h[k]]
      BY DEF Line
    <3>3. \A k \in 1 .. CRT_COLS : h[k] = IF k = m + 1 THEN g ELSE f[k]
      BY <3>1 DEF Line
    <3> DEFINE a == m + 1
               S == 1 .. CRT_COLS
    <3>4. /\ f = [k \in S |-> f[k]] /\ h = [k \in S |-> h[k]]
          /\ \A k \in S : h[k] = IF k = a THEN g ELSE f[k]
      BY <3>2, <3>3
    <3> HIDE DEF f, h, a, S
    <3>5. h = [f EXCEPT ![a] = g]
      BY <3>4, OnePlace
    <3> QED
      BY <3>5 DEF f, h, a
  <2> QED
    BY <2>1, <2>2
<1>5. PageOf(B) = [PageOf(b) EXCEPT ![d + 1][m + 1] = g]
  <2> DEFINE f == PageOf(b)
             h == PageOf(B)
  <2>1. f = [r \in 1 .. CRT_ROWS |-> f[r]] /\ h = [r \in 1 .. CRT_ROWS |-> h[r]]
    BY DEF PageOf
  <2>2. \A r \in 1 .. CRT_ROWS : h[r] = IF r = d + 1 THEN [f[r] EXCEPT ![m + 1] = g] ELSE f[r]
    BY <1>4 DEF PageOf
  <2> DEFINE a == d + 1
             v == [f[a] EXCEPT ![m + 1] = g]
             S == 1 .. CRT_ROWS
  <2>3. /\ f = [r \in S |-> f[r]] /\ h = [r \in S |-> h[r]]
        /\ \A r \in S : h[r] = IF r = a THEN v ELSE f[r]
    BY <2>1, <2>2
  <2> HIDE DEF f, h, a, v, S
  <2>4. h = [f EXCEPT ![a] = v]
    BY <2>3, OnePlace
  <2> QED
    BY <2>4 DEF f, h, a, v
<1> QED
  BY <1>5 DEF Written

\* A buffer moved up by a line is a page without its first and with a blank line.
LEMMA PageScroll ==
  ASSUME NEW b \in [Cells -> Glyph]
  PROVE  PageOf(ScrolledBuf(b)) = Append(Tail(PageOf(b)), Term!BlankLine)
<1> DEFINE pg == PageOf(b)
           B == ScrolledBuf(b)
<1>1. ASSUME NEW r \in 1 .. CRT_ROWS, NEW k \in 1 .. CRT_COLS
      PROVE  B[CellAt(r, k)] =
               IF r < CRT_ROWS THEN b[CellAt(r + 1, k)] ELSE Space
  <2> DEFINE x == (r - 1) * CRT_COLS
  <2>0. CellAt(r, k) \in Cells
    BY CellOfLine
  <2>1. CellAt(r, k) \in Cells /\ CellAt(r, k) = x + k - 1
    BY <2>0 DEF CellAt
  <2>2. r - 1 \in Nat /\ x \in Nat /\ k \in Nat /\ k >= 1 /\ k <= CRT_COLS /\ r <= CRT_ROWS /\ r \in Nat
    BY Rows, Products
  <2>3. CellAt(r + 1, k) = x + CRT_COLS + k - 1
    BY <2>2 DEF CellAt
  <2>4. CASE r < CRT_ROWS
    <3>1. ((r - 1) + 1) * CRT_COLS + CRT_COLS <= CRT_SIZE
      <4>1. (r - 1) + 1 = r
        BY <2>2
      <4> QED
        BY <2>2, <2>4, <4>1, Rows, Products
    <3>2. x + CRT_COLS + CRT_COLS <= CRT_SIZE
      BY <2>2, <3>1, Products
    <3> HIDE DEF x
    <3>3. x + k - 1 < CRT_SIZE - CRT_COLS /\ x + k - 1 + CRT_COLS = x + CRT_COLS + k - 1
      BY <2>2, <3>2
    <3>4. B[x + k - 1] = b[x + CRT_COLS + k - 1]
      BY <2>1, <3>3 DEF ScrolledBuf
    <3> QED
      BY <2>1, <2>3, <2>4, <3>4
  <2>5. CASE r = CRT_ROWS
    <3>1. x + CRT_COLS = CRT_SIZE
      BY <2>2, <2>5, Rows, Products
    <3> HIDE DEF x
    <3>2. ~(x + k - 1 < CRT_SIZE - CRT_COLS)
      BY <2>2, <3>1
    <3>3. B[x + k - 1] = Space
      BY <2>1, <3>2 DEF ScrolledBuf
    <3> QED
      BY <2>1, <2>2, <2>5, <3>3, Rows
  <2> QED
    BY <2>2, <2>4, <2>5, Rows
<1> HIDE DEF B
<1>2. \A r \in 1 .. CRT_ROWS : Line(B, r) = IF r < CRT_ROWS THEN Line(b, r + 1) ELSE Term!BlankLine
  <2>1. ASSUME NEW r \in 1 .. CRT_ROWS, r < CRT_ROWS PROVE Line(B, r) = Line(b, r + 1)
    <3>1. \A k \in 1 .. CRT_COLS : B[CellAt(r, k)] = b[CellAt(r + 1, k)]
      BY <1>1, <2>1
    <3> QED
      BY <3>1 DEF Line
  <2>2. ASSUME NEW r \in 1 .. CRT_ROWS, ~(r < CRT_ROWS) PROVE Line(B, r) = Term!BlankLine
    <3>1. \A k \in 1 .. CRT_COLS : B[CellAt(r, k)] = Space
      BY <1>1, <2>2
    <3> QED
      BY <3>1 DEF Line, Term!BlankLine
  <2> QED
    BY <2>1, <2>2
<1>3. \A r \in 1 .. CRT_ROWS : r < CRT_ROWS => r + 1 \in 1 .. CRT_ROWS
  BY Rows
<1>4. PageOf(B) = [r \in 1 .. CRT_ROWS |-> IF r < CRT_ROWS THEN pg[r + 1] ELSE Term!BlankLine]
  BY <1>2, <1>3 DEF PageOf
<1>5. pg \in Seq([1 .. CRT_COLS -> Glyph]) /\ Len(pg) = CRT_ROWS /\ pg # << >>
  BY PageType, Rows
<1> HIDE DEF pg
<1>6. /\ Tail(pg) \in Seq([1 .. CRT_COLS -> Glyph]) /\ Len(Tail(pg)) = CRT_ROWS - 1
      /\ \A r \in 1 .. CRT_ROWS - 1 : Tail(pg)[r] = pg[r + 1]
  BY <1>5, Rows
<1>7. Term!BlankLine \in [1 .. CRT_COLS -> Glyph]
  BY Glyphs DEF Term!BlankLine
<1> DEFINE t == Tail(pg)
           z == Term!BlankLine
<1> HIDE DEF t, z
<1>8. /\ Append(t, z) \in Seq([1 .. CRT_COLS -> Glyph]) /\ Len(Append(t, z)) = CRT_ROWS
      /\ \A r \in 1 .. CRT_ROWS : Append(t, z)[r] = IF r < CRT_ROWS THEN t[r] ELSE z
  BY <1>6, <1>7, Rows DEF t, z
<1> DEFINE u == Append(t, z)
<1> HIDE DEF u
<1>9. u = [r \in 1 .. CRT_ROWS |-> IF r < CRT_ROWS THEN pg[r + 1] ELSE z]
  <2>1. \A r \in 1 .. CRT_ROWS : r < CRT_ROWS => r \in 1 .. CRT_ROWS - 1
    BY Rows
  <2>2. u \in Seq([1 .. CRT_COLS -> Glyph]) /\ Len(u) = CRT_ROWS
    BY <1>8 DEF u
  <2>3. \A r \in 1 .. CRT_ROWS : u[r] = IF r < CRT_ROWS THEN t[r] ELSE z
    BY <1>8 DEF u
  <2>4. \A r \in 1 .. CRT_ROWS : u[r] = IF r < CRT_ROWS THEN pg[r + 1] ELSE z
    BY <1>6, <2>1, <2>3 DEF t
  <2>5. u = [r \in 1 .. CRT_ROWS |-> u[r]]
    BY <2>2
  <2> QED
    BY <2>4, <2>5
<1> QED
  BY <1>4, <1>9 DEF t, u, z, B, pg

---------------------------------------------------------------------------
\* cga_putc() as a step of the terminal.

\* The line and the column of the position.
AtRow == crt_pos \div CRT_COLS
AtCol == crt_pos % CRT_COLS
termVars == <<Page, AtRow, AtCol>>

\* The terminal's page is the buffer, before and after a step.
LEMMA PageIs == Page = PageOf(crt_buf) /\ Page' = PageOf(crt_buf')
BY DEF Page, PageOf, Line, CellAt

\* The terminal's row and column from the position.
LEMMA PositionIs ==
  ASSUME NEW q, NEW r, Splits(crt_pos', q, r)
  PROVE  AtRow' = q /\ AtCol' = r
<1>1. crt_pos' \div CRT_COLS = q /\ crt_pos' % CRT_COLS = r
  BY DivModUnique
<1> QED
  BY <1>1 DEF AtRow, AtCol

\* They are on the page.
LEMMA PositionOn ==
  ASSUME DisplayTypeOK
  PROVE  /\ AtRow \in 0 .. CRT_ROWS - 1 /\ AtCol \in 0 .. CRT_COLS - 1
         /\ crt_pos = AtRow * CRT_COLS + AtCol
         /\ AtRow * CRT_COLS \in Nat /\ AtRow * CRT_COLS + CRT_COLS <= CRT_SIZE
<1>1. /\ AtRow \in 0 .. CRT_ROWS - 1 /\ AtCol \in 0 .. CRT_COLS - 1
      /\ crt_pos = AtRow * CRT_COLS + AtCol
  BY LineOfCell DEF DisplayTypeOK, AtRow, AtCol
<1>2. AtRow \in Nat /\ AtRow < CRT_ROWS
  BY <1>1, Rows
<1> QED
  BY <1>1, <1>2, Rows, Products

(* The position at the start of the line below, whether that is on the     *)
(* page or the page has to be scrolled.                                    *)
LEMMA LineFeeds ==
  ASSUME DisplayTypeOK, NEW b \in [Cells -> Glyph],
         NEW p, p = AtRow * CRT_COLS + CRT_COLS, Finish(b, p)
  PROVE  Term!LineFeed(PageOf(b))
<1> DEFINE d == AtRow
<1>1. d \in Nat /\ d < CRT_ROWS /\ d * CRT_COLS \in Nat /\ p = d * CRT_COLS + CRT_COLS
  BY PositionOn, Rows
<1>2. Page' = PageOf(crt_buf')
  BY PageIs
<1>3. CASE d + 1 < CRT_ROWS
  <2>1. d + 1 \in Nat /\ (d + 1) * CRT_COLS + CRT_COLS <= CRT_SIZE
    BY <1>1, <1>3, Products, Rows
  <2>2. p = (d + 1) * CRT_COLS
    BY <1>1, Products
  <2>3. p \in Nat /\ p < CRT_SIZE
    BY <1>1, <2>1, <2>2
  <2>4. crt_pos' = p /\ crt_buf' = b
    BY <2>3 DEF Finish
  <2>5. Splits(crt_pos', d + 1, 0)
    BY <2>1, <2>2, <2>3, <2>4 DEF Splits
  <2>6. AtRow' = d + 1 /\ AtCol' = 0
    BY <2>5, PositionIs
  <2> QED
    BY <1>2, <1>3, <2>4, <2>6 DEF Term!LineFeed, AtRow, AtCol
<1>4. CASE ~(d + 1 < CRT_ROWS)
  <2>1. CRT_ROWS = d + 1
    BY <1>1, <1>4, Rows
  <2>2. p = CRT_SIZE
    BY <1>1, <2>1, Products, Rows
  <2>3. crt_pos' = d * CRT_COLS /\ crt_buf' = ScrolledBuf(b)
    BY <1>1, <2>2 DEF Finish
  <2>4. Splits(crt_pos', d, 0)
    BY <1>1, <2>3 DEF Splits
  <2>5. AtRow' = d /\ AtCol' = 0
    BY <2>4, PositionIs
  <2>6. Page' = Append(Tail(PageOf(b)), Term!BlankLine)
    BY <1>2, <2>3, PageScroll
  <2> QED
    BY <1>4, <2>5, <2>6 DEF Term!LineFeed, AtRow, AtCol
<1> QED
  BY <1>3, <1>4

\* A character that is shown is the terminal's Show.
LEMMA ShowStep ==
  ASSUME DisplayTypeOK, NEW ch \in Glyph, CgaPutc(ch)
  PROVE  Term!Show(ch)
<1> DEFINE b == [crt_buf EXCEPT ![crt_pos] = ch]
           d == AtRow
           m == AtCol
<1>1. crt_buf \in [Cells -> Glyph] /\ crt_pos \in Cells /\ crt_pos \in Nat /\ crt_pos < CRT_SIZE
  BY DEF DisplayTypeOK, Cells
<1>2. ch \notin {BS, NL, CR}
  BY Glyphs
<1>3. crt_pos + 1 < 65536
  BY <1>1
<1>4. U16(crt_pos + 1) = crt_pos + 1
  BY <1>1, <1>3, Fits16
<1>5. Finish(b, crt_pos + 1)
  BY <1>2, <1>4 DEF CgaPutc, BufAfter, PosAfter
<1>6. b \in [Cells -> Glyph]
  BY <1>1
<1>7. PageOf(b) = [Page EXCEPT ![AtRow + 1][AtCol + 1] = ch]
  <2>1. Splits(crt_pos, AtRow, AtCol)
    BY PositionOn, Rows DEF Splits
  <2>2. WroteCell(b, crt_buf, crt_pos, ch)
    BY <1>1 DEF WroteCell
  <2> HIDE DEF b
  <2>3. PageOf(b) = Written(PageOf(crt_buf), AtRow + 1, AtCol + 1, ch)
    BY <1>1, <2>1, <2>2, PageWrite
  <2> QED
    BY <2>3, PageIs DEF Written
<1> HIDE DEF b
<1>8. /\ d \in Nat /\ m \in 0 .. CRT_COLS - 1 /\ d * CRT_COLS \in Nat
      /\ crt_pos = d * CRT_COLS + m /\ d * CRT_COLS + CRT_COLS <= CRT_SIZE
  BY PositionOn, Rows
<1>9. CASE m + 1 < CRT_COLS
  <2>1. crt_pos + 1 < CRT_SIZE /\ crt_pos + 1 = d * CRT_COLS + (m + 1) /\ m + 1 \in 0 .. CRT_COLS - 1
    BY <1>8, <1>9
  <2>2. crt_pos' = crt_pos + 1 /\ crt_buf' = b
    BY <1>1, <1>5, <2>1 DEF Finish
  <2>3. Splits(crt_pos', d, m + 1)
    BY <1>8, <2>1, <2>2 DEF Splits
  <2>4. AtRow' = d /\ AtCol' = m + 1
    BY <2>3, PositionIs
  <2>5. Page' = [Page EXCEPT ![AtRow + 1][AtCol + 1] = ch]
    BY <1>7, <2>2, PageIs
  <2> QED
    BY <1>9, <2>4, <2>5 DEF Term!Show, AtRow, AtCol
<1>10. CASE ~(m + 1 < CRT_COLS)
  <2>1. crt_pos + 1 = d * CRT_COLS + CRT_COLS
    BY <1>8, <1>10
  <2>2. Term!LineFeed(PageOf(b))
    BY <1>5, <1>6, <2>1, LineFeeds
  <2>3. Term!LineFeed([Page EXCEPT ![AtRow + 1][AtCol + 1] = ch])
    BY <1>7, <2>2
  <2> QED
    BY <1>10, <2>3 DEF Term!Show, AtRow, AtCol
<1> QED
  BY <1>9, <1>10

\* The start of a line.
LEMMA StartOfLine ==
  ASSUME NEW p, NEW q, NEW r, Splits(p, q, r), q * CRT_COLS \in Nat
  PROVE  LineStart(p) = q * CRT_COLS
<1>1. p % CRT_COLS = r /\ p = q * CRT_COLS + r /\ r \in 0 .. CRT_COLS - 1
  BY DivModUnique DEF Splits
<1> QED
  BY <1>1 DEF LineStart

\* The terminal's Erase, by cases.
LEMMA EraseIs ==
  Term!Erase <=>
    \/ /\ AtCol > 0
       /\ AtCol' = AtCol - 1
       /\ Page' = Written(Page, AtRow + 1, AtCol, Space)
       /\ AtRow' = AtRow
    \/ /\ AtCol = 0 /\ AtRow > 0
       /\ AtRow' = AtRow - 1 /\ AtCol' = CRT_COLS - 1
       /\ Page' = Written(Page, AtRow, CRT_COLS, Space)
BY DEF Term!Erase, AtRow, AtCol, Written

\* A control character is the terminal's step of that name.
LEMMA ControlStep ==
  ASSUME DisplayTypeOK, NEW ch \in Control, CgaPutc(ch)
  PROVE  Term!NewLine \/ Term!Return \/ Term!Erase \/ UNCHANGED termVars
<1> DEFINE d == AtRow
           m == AtCol
<1>1. crt_buf \in [Cells -> Glyph] /\ crt_pos \in Cells /\ crt_pos \in Nat /\ crt_pos < CRT_SIZE
  BY DEF DisplayTypeOK, Cells
<1>2. /\ d \in Nat /\ d < CRT_ROWS /\ m \in 0 .. CRT_COLS - 1 /\ d * CRT_COLS \in Nat
      /\ crt_pos = d * CRT_COLS + m /\ d * CRT_COLS + CRT_COLS <= CRT_SIZE
  BY PositionOn, Rows
<1>3. Page = PageOf(crt_buf) /\ Page' = PageOf(crt_buf')
  BY PageIs
<1>4. CASE ch = NL
  <2>1. U16(crt_pos + CRT_COLS) = crt_pos + CRT_COLS
    BY <1>1, Fits16
  <2>2. Splits(crt_pos + CRT_COLS, d + 1, m) /\ (d + 1) * CRT_COLS = d * CRT_COLS + CRT_COLS
    BY <1>2, Products DEF Splits
  <2>3. LineStart(crt_pos + CRT_COLS) = d * CRT_COLS + CRT_COLS
    BY <1>2, <2>2, StartOfLine
  <2>4. Finish(crt_buf, d * CRT_COLS + CRT_COLS)
    BY <1>4, <2>1, <2>3 DEF CgaPutc, BufAfter, PosAfter, BS, NL, CR
  <2>5. Term!LineFeed(PageOf(crt_buf))
    BY <1>1, <2>4, LineFeeds
  <2> QED
    BY <1>3, <2>5 DEF Term!NewLine
<1>5. CASE ch = CR
  <2>1. Splits(crt_pos, d, m)
    BY <1>2 DEF Splits
  <2>2. LineStart(crt_pos) = d * CRT_COLS
    BY <1>2, <2>1, StartOfLine
  <2>3. Finish(crt_buf, d * CRT_COLS)
    BY <1>5, <2>2 DEF CgaPutc, BufAfter, PosAfter, BS, NL, CR
  <2>4. crt_pos' = d * CRT_COLS /\ crt_buf' = crt_buf
    BY <1>2, <2>3 DEF Finish
  <2>5. Splits(crt_pos', d, 0)
    BY <1>2, <2>4 DEF Splits
  <2>6. AtRow' = d /\ AtCol' = 0
    BY <2>5, PositionIs
  <2> QED
    BY <1>3, <2>4, <2>6 DEF Term!Return, AtRow, AtCol
<1>6. CASE ch = BS
  <2>1. CASE crt_pos = 0
    <3>1. Finish(crt_buf, crt_pos)
      BY <1>6, <2>1 DEF CgaPutc, BufAfter, PosAfter, BS, NL, CR
    <3>2. crt_pos' = crt_pos /\ crt_buf' = crt_buf
      BY <1>1, <3>1 DEF Finish
    <3> QED
      BY <1>3, <3>2 DEF termVars, AtRow, AtCol
  <2>2. CASE crt_pos > 0
    <3> DEFINE p == crt_pos - 1
               b == [crt_buf EXCEPT ![p] = Space]
    <3>1. Finish(b, p)
      BY <1>6, <2>2 DEF CgaPutc, BufAfter, PosAfter, BS, NL, CR
    <3>2. p \in Cells /\ p \in Nat /\ p < CRT_SIZE
      BY <1>1, <2>2 DEF Cells
    <3>3. crt_pos' = p /\ crt_buf' = b
      BY <3>1, <3>2 DEF Finish
    <3>0. WroteCell(b, crt_buf, p, Space)
      BY <1>1 DEF WroteCell
    <3> HIDE DEF p, b
    <3>4. ASSUME NEW q, NEW r, Splits(p, q, r)
          PROVE  Page' = Written(Page, q + 1, r + 1, Space) /\ AtRow' = q /\ AtCol' = r
      <4>1. PageOf(b) = Written(PageOf(crt_buf), q + 1, r + 1, Space)
        BY <1>1, <3>0, <3>2, <3>4, PageWrite
      <4> QED
        BY <1>3, <3>3, <3>4, <4>1, PositionIs
    <3>5. CASE m > 0
      <4>1. m - 1 \in 0 .. CRT_COLS - 1 /\ p = d * CRT_COLS + (m - 1)
        BY <1>2, <3>5 DEF p
      <4>2. Splits(p, d, m - 1)
        BY <1>2, <4>1 DEF Splits
      <4>3. AtRow' = d /\ AtCol' = m - 1 /\ Page' = Written(Page, d + 1, (m - 1) + 1, Space)
        BY <3>4, <4>2
      <4>4. (m - 1) + 1 = m
        BY <1>2
      <4>5. Page' = Written(Page, d + 1, m, Space)
        BY <4>3, <4>4
      <4>6. Term!Erase
        BY <3>5, <4>3, <4>5, EraseIs
      <4> QED
        BY <4>6
    <3>6. CASE m = 0
      <4>1. d > 0
        <5> SUFFICES ASSUME d = 0 PROVE FALSE
          BY <1>2
        <5> QED
          BY <1>2, <2>2, <3>6
      <4>2. d - 1 \in Nat /\ (d - 1) + 1 = d
        BY <1>2, <4>1
      <4>3. d * CRT_COLS = (d - 1) * CRT_COLS + CRT_COLS
        BY <4>2, Products
      <4>4. CRT_COLS - 1 \in 0 .. CRT_COLS - 1 /\ (d - 1) * CRT_COLS \in Nat
        BY <4>2, Products
      <4>5. p = (d - 1) * CRT_COLS + (CRT_COLS - 1)
        BY <1>2, <3>6, <4>3, <4>4 DEF p
      <4>6. Splits(p, d - 1, CRT_COLS - 1)
        BY <4>2, <4>4, <4>5 DEF Splits
      <4>7. /\ AtRow' = d - 1 /\ AtCol' = CRT_COLS - 1
            /\ Page' = Written(Page, (d - 1) + 1, (CRT_COLS - 1) + 1, Space)
        BY <3>4, <4>6
      <4>8. (CRT_COLS - 1) + 1 = CRT_COLS
        OBVIOUS
      <4>9. Page' = Written(Page, d, CRT_COLS, Space)
        BY <4>2, <4>7, <4>8
      <4>10. Term!Erase
        BY <3>6, <4>1, <4>7, <4>9, EraseIs
      <4> QED
        BY <4>10
    <3> QED
      BY <1>2, <3>5, <3>6
  <2> QED
    BY <1>1, <2>1, <2>2
<1> QED
  BY <1>4, <1>5, <1>6 DEF Control

(* The linear buffer and its 16-bit position implement a terminal: for     *)
(* every size of the page, every call of cga_putc() is one step of it, or  *)
(* none, the wrap at the end of a line and the scroll included.            *)
THEOREM DisplayIsTerminal == DisplaySpec => TerminalSpec
<1>1. DisplayInit => Term!Init
  <2> SUFFICES ASSUME DisplayInit PROVE Term!Init
    OBVIOUS
  <2>1. DisplayTypeOK
    BY DEF DisplayInit, DisplayTypeOK
  <2>2. Page \in [1 .. CRT_ROWS -> [1 .. CRT_COLS -> Glyph]]
    BY <2>1, PageIs, PageType DEF DisplayTypeOK
  <2> QED
    BY <2>1, <2>2, PositionOn DEF Term!Init, AtRow, AtCol
<1>2. DisplayTypeOK /\ [DisplayNext]_crtVars => [Term!Next]_termVars
  <2> SUFFICES ASSUME DisplayTypeOK, [DisplayNext]_crtVars PROVE [Term!Next]_termVars
    OBVIOUS
  <2>1. ASSUME NEW ch \in Glyph \cup Control, CgaPutc(ch) PROVE [Term!Next]_termVars
    <3>1. CASE ch \in Glyph
      BY <2>1, <3>1, ShowStep DEF Term!Next
    <3>2. CASE ch \in Control
      BY <2>1, <3>2, ControlStep DEF Term!Next
    <3> QED
      BY <2>1, <3>1, <3>2
  <2>2. CASE CgaTabEnd
    <3>1. crt_pos' = crt_pos /\ crt_buf' = crt_buf
      BY <2>2 DEF CgaTabEnd, Finish, DisplayTypeOK, Cells
    <3> QED
      BY <3>1, PageIs DEF termVars, AtRow, AtCol
  <2>3. CASE UNCHANGED crtVars
    BY <2>3, PageIs DEF crtVars, termVars, AtRow, AtCol
  <2> QED
    BY <2>1, <2>2, <2>3 DEF DisplayNext
<1> QED
  BY <1>1, <1>2, DisplayTypeCorrect, PTL DEF DisplaySpec, TerminalSpec, Term!Spec, termVars, AtRow, AtCol

---------------------------------------------------------------------------
\* cons_putc(): the ports and the display.

HIDE PageSize

OutputTypes ==
  /\ pc \in {"idle", "serial", "lpt", "cga", "tabend"}
  /\ c \in Char /\ spaces \in 0 .. 4 /\ timedOut \in BOOLEAN
  /\ thr \in Char \cup {NoByte} /\ latch \in Char \cup {NoByte}
  /\ wire \in Seq(Char) /\ paper \in Seq(Char) /\ expected \in Seq(Char)

(* Spaces are owed only while a tab is at work, which is a call of its own *)
(* and never one inside another tab.                                       *)
TabCalls ==
  /\ c = TAB => spaces = 0
  /\ pc \in {"idle", "tabend"} => spaces = 0 /\ c # TAB

\* What a port was given, and what it is to get behind the character c.
Sent == wire \o Pending(thr)
Printed == paper \o Pending(latch)
Behind == IF c = TAB THEN Spaces(5) ELSE Spaces(spaces)

ToSend == IF pc = "serial" THEN <<c>> \o Behind
          ELSE IF pc \in {"lpt", "cga"} THEN Behind ELSE << >>
ToPrint == IF pc \in {"serial", "lpt"} THEN <<c>> \o Behind
           ELSE IF pc = "cga" THEN Behind ELSE << >>

InStep == Sent \o ToSend = expected /\ Printed \o ToPrint = expected

OutputInv == OutputTypes /\ TabCalls /\ (~timedOut => InStep)

\* The characters, from the assumptions.
LEMMA CharIs == NoByte \notin Char /\ Space \in Char /\ TAB # Space
<1>1. NoByte \notin Glyph
  BY OutputAssumption
<1> QED
  BY <1>1, Glyphs DEF Char, Control, NoByte, BS, TAB, NL, CR, Space

\* The spaces that a tab is written as.
LEMMA SpacesAre ==
  /\ Spaces(0) = << >>
  /\ \A k \in 0 .. 5 : Spaces(k) \in Seq(Char)
  /\ \A k \in 1 .. 5 : <<Space>> \o Spaces(k - 1) = Spaces(k)
<1>1. Spaces(0) = << >>
  BY DEF Spaces
<1>2. \A k \in 0 .. 5 : Spaces(k) \in Seq(Char) /\ Len(Spaces(k)) = k
  BY CharIs DEF Spaces
<1>3. ASSUME NEW k \in 1 .. 5 PROVE <<Space>> \o Spaces(k - 1) = Spaces(k)
  <2> DEFINE t == Spaces(k - 1)
             u == Spaces(k)
  <2>0. k \in 0 .. 5 /\ k - 1 \in 0 .. 5
    OBVIOUS
  <2>1. t \in Seq(Char) /\ Len(t) = k - 1 /\ u \in Seq(Char) /\ Len(u) = k
    BY <1>2, <2>0
  <2>2. /\ \A x \in 1 .. k - 1 : t[x] = Space
        /\ \A x \in 1 .. k : u[x] = Space
    BY DEF Spaces
  <2> HIDE DEF t, u
  <2>3. <<Space>> \in Seq(Char) /\ Len(<<Space>>) = 1 /\ <<Space>>[1] = Space
    BY CharIs
  <2>4. /\ <<Space>> \o t \in Seq(Char) /\ Len(<<Space>> \o t) = k
        /\ \A x \in 1 .. k : (<<Space>> \o t)[x] = IF x <= 1 THEN <<Space>>[x] ELSE t[x - 1]
    BY <2>1, <2>3, ConcatProperties
  <2>5. \A x \in 1 .. k : (<<Space>> \o t)[x] = u[x]
    BY <2>2, <2>3, <2>4
  <2>6. <<Space>> \o t = u
    BY <2>1, <2>4, <2>5, SeqEqual
  <2> QED
    BY <2>6 DEF t, u
<1>4. \A k \in 0 .. 5 : Spaces(k) \in Seq(Char)
  BY <1>2
<1> QED
  BY <1>1, <1>3, <1>4, Zenon

\* The bytes in a port's register: none or one.
LEMMA PendingIs ==
  /\ Pending(NoByte) = << >>
  /\ \A b \in Char : Pending(b) = <<b>>
  /\ \A b \in Char \cup {NoByte} : Pending(b) \in Seq(Char)
BY CharIs DEF Pending

\* What was given is the same before and after the device has taken it.
LEMMA TakenIs ==
  ASSUME NEW s \in Seq(Char), NEW b \in Char
  PROVE  Append(s, b) \o Pending(NoByte) = s \o Pending(b)
<1>1. Append(s, b) \in Seq(Char) /\ Append(s, b) = s \o <<b>>
  BY AppendIsConcat
<1>2. Append(s, b) \o << >> = Append(s, b)
  BY <1>1, ConcatEmptySeq
<1>3. Pending(NoByte) = << >> /\ Pending(b) = <<b>>
  BY PendingIs
<1> QED
  BY <1>1, <1>2, <1>3, Zenon

\* A byte given to a device that is ready.
LEMMA GivenIs ==
  ASSUME NEW s \in Seq(Char), NEW b \in Char, NEW t \in Seq(Char)
  PROVE  (s \o Pending(b)) \o t = (s \o Pending(NoByte)) \o (<<b>> \o t)
<1>1. s \o << >> = s /\ <<b>> \in Seq(Char)
  BY ConcatEmptySeq
<1>2. (s \o <<b>>) \o t = s \o (<<b>> \o t)
  BY <1>1, ConcatAssociative
<1>3. Pending(NoByte) = << >> /\ Pending(b) = <<b>>
  BY PendingIs
<1> QED
  BY <1>1, <1>2, <1>3, Zenon

\* Nothing has been written at first.
LEMMA OutputStart == Init => OutputInv
<1> SUFFICES ASSUME Init PROVE OutputInv
  OBVIOUS
<1>1. OutputTypes
  <2>1. << >> \in Seq(Char) /\ 0 \in 0 .. 4
    OBVIOUS
  <2> QED
    BY <2>1, CharIs, Zenon DEF Init, OutputTypes
<1>2. TabCalls
  BY CharIs DEF Init, TabCalls
<1>3. Sent = << >> /\ Printed = << >>
  <2>1. Pending(thr) = << >> /\ Pending(latch) = << >>
    BY PendingIs DEF Init
  <2> QED
    BY <2>1 DEF Init, Sent, Printed
<1>4. ToSend = << >> /\ ToPrint = << >>
  BY DEF Init, ToSend, ToPrint
<1>5. InStep
  BY <1>3, <1>4 DEF InStep, Init
<1> QED
  BY <1>1, <1>2, <1>5 DEF OutputInv

\* A call of cputchar().
LEMMA CallStep ==
  ASSUME OutputInv, NEW ch \in Char, CPutchar(ch)
  PROVE  OutputInv'
<1>1. /\ pc = "idle" /\ pc' = "serial" /\ c' = ch /\ spaces' = spaces
      /\ thr' = thr /\ wire' = wire /\ latch' = latch /\ paper' = paper
      /\ timedOut' = timedOut /\ expected' = expected \o PortBytes(ch)
  BY DEF CPutchar, Call, portVars
<1>2. spaces = 0
  BY <1>1 DEF OutputInv, TabCalls
<1>3. PortBytes(ch) = <<ch>> \o Behind'
  <2>1. Behind' = IF ch = TAB THEN Spaces(5) ELSE Spaces(0)
    BY <1>1, <1>2 DEF Behind, Spaces
  <2>2. <<ch>> \o << >> = <<ch>>
    OBVIOUS
  <2> QED
    BY <2>1, <2>2, SpacesAre DEF PortBytes
<1>4. PortBytes(ch) \in Seq(Char)
  <2>1. Spaces(5) \in Seq(Char) /\ TAB \in Char
    BY SpacesAre DEF Char
  <2>2. <<TAB>> \in Seq(Char) /\ <<ch>> \in Seq(Char)
    BY <2>1
  <2>3. <<TAB>> \o Spaces(5) \in Seq(Char)
    BY <2>1, <2>2, ConcatProperties
  <2> QED
    BY <2>2, <2>3 DEF PortBytes
<1>5. expected' \in Seq(Char)
  BY <1>1, <1>4, ConcatProperties DEF OutputInv, OutputTypes
<1>6. OutputTypes' /\ TabCalls'
  BY <1>1, <1>2, <1>5 DEF OutputInv, OutputTypes, TabCalls
<1>7. ASSUME ~timedOut PROVE InStep'
  <2>1. Sent' = Sent /\ Printed' = Printed
    BY <1>1 DEF Sent, Printed, Pending
  <2>2. Sent \o << >> = expected /\ Printed \o << >> = expected
    BY <1>1, <1>7 DEF OutputInv, InStep, ToSend, ToPrint
  <2>3. Sent = expected /\ Printed = expected
    <3>1. Sent \in Seq(Char) /\ Printed \in Seq(Char)
      BY PendingIs, ConcatProperties DEF OutputInv, OutputTypes, Sent, Printed
    <3> QED
      BY <2>2, <3>1, ConcatEmptySeq
  <2>4. ToSend' = PortBytes(ch) /\ ToPrint' = PortBytes(ch)
    BY <1>1, <1>3 DEF ToSend, ToPrint
  <2> QED
    BY <1>1, <2>1, <2>3, <2>4, Zenon DEF InStep
<1> QED
  BY <1>1, <1>6, <1>7 DEF OutputInv

\* The bytes that the ports are still to get are characters.
LEMMA BehindType == OutputInv => Behind \in Seq(Char) /\ <<c>> \o Behind \in Seq(Char)
<1> SUFFICES ASSUME OutputInv PROVE Behind \in Seq(Char) /\ <<c>> \o Behind \in Seq(Char)
  OBVIOUS
<1>1. spaces \in 0 .. 5 /\ 5 \in 0 .. 5 /\ c \in Char
  BY DEF OutputInv, OutputTypes
<1>2. Spaces(5) \in Seq(Char) /\ Spaces(spaces) \in Seq(Char)
  BY <1>1, SpacesAre
<1>3. Behind \in Seq(Char) /\ <<c>> \in Seq(Char)
  BY <1>1, <1>2 DEF Behind
<1> QED
  BY <1>3, ConcatProperties

\* serial_putc() writes the character, ready or not.
LEMMA SerialStep ==
  ASSUME OutputInv, SerialPutc
  PROVE  OutputInv'
<1>1. /\ pc = "serial" /\ pc' = "lpt" /\ c' = c /\ spaces' = spaces
      /\ thr' = c /\ wire' = wire /\ latch' = latch /\ paper' = paper
      /\ ((thr = NoByte /\ timedOut' = timedOut) \/ timedOut' = TRUE) /\ expected' = expected
  BY DEF SerialPutc, callVars, askVars
<1>2. OutputTypes' /\ TabCalls'
  BY <1>1 DEF OutputInv, OutputTypes, TabCalls
<1>3. ASSUME ~timedOut' PROVE InStep'
  <2>1. ~timedOut /\ thr = NoByte
    BY <1>1, <1>3
  <2>2. Behind' = Behind /\ Printed' = Printed
    BY <1>1 DEF Behind, Spaces, Printed, Pending
  <2>3. Sent \o (<<c>> \o Behind) = expected /\ Printed \o (<<c>> \o Behind) = expected
    BY <1>1, <2>1 DEF OutputInv, InStep, ToSend, ToPrint
  <2>4. Sent = wire \o Pending(NoByte) /\ Sent' = wire \o Pending(c)
    BY <1>1, <2>1 DEF Sent, Pending
  <2>5. (wire \o Pending(c)) \o Behind = (wire \o Pending(NoByte)) \o (<<c>> \o Behind)
    BY GivenIs, BehindType DEF OutputInv, OutputTypes
  <2>6. ToSend' = Behind /\ ToPrint' = <<c>> \o Behind
    BY <1>1, <2>2 DEF ToSend, ToPrint
  <2> QED
    BY <1>1, <2>2, <2>3, <2>4, <2>5, <2>6, Zenon DEF InStep
<1> QED
  BY <1>2, <1>3 DEF OutputInv

\* lpt_putc() writes the same character.
LEMMA LptStep ==
  ASSUME OutputInv, LptPutc
  PROVE  OutputInv'
<1>1. /\ pc = "lpt" /\ pc' = "cga" /\ c' = c /\ spaces' = spaces
      /\ latch' = c /\ wire' = wire /\ thr' = thr /\ paper' = paper
      /\ ((latch = NoByte /\ timedOut' = timedOut) \/ timedOut' = TRUE) /\ expected' = expected
  BY DEF LptPutc, callVars, askVars
<1>2. OutputTypes' /\ TabCalls'
  BY <1>1 DEF OutputInv, OutputTypes, TabCalls
<1>3. ASSUME ~timedOut' PROVE InStep'
  <2>1. ~timedOut /\ latch = NoByte
    BY <1>1, <1>3
  <2>2. Behind' = Behind /\ Sent' = Sent
    BY <1>1 DEF Behind, Spaces, Sent, Pending
  <2>3. Sent \o Behind = expected /\ Printed \o (<<c>> \o Behind) = expected
    BY <1>1, <2>1 DEF OutputInv, InStep, ToSend, ToPrint
  <2>4. Printed = paper \o Pending(NoByte) /\ Printed' = paper \o Pending(c)
    BY <1>1, <2>1 DEF Printed, Pending
  <2>5. (paper \o Pending(c)) \o Behind = (paper \o Pending(NoByte)) \o (<<c>> \o Behind)
    BY GivenIs, BehindType DEF OutputInv, OutputTypes
  <2>6. ToSend' = Behind /\ ToPrint' = Behind
    BY <1>1, <2>2 DEF ToSend, ToPrint
  <2> QED
    BY <1>1, <2>2, <2>3, <2>4, <2>5, <2>6, Zenon DEF InStep
<1> QED
  BY <1>2, <1>3 DEF OutputInv

\* cga_putc() calls cons_putc() for the next space of a tab.
LEMMA SpaceStep ==
  ASSUME OutputInv, pc = "cga", pc' = "serial", c' = Space, NEW k \in 1 .. 5,
         Behind = Spaces(k), spaces' = k - 1, UNCHANGED <<portVars, timedOut, expected>>
  PROVE  OutputInv'
<1>1. thr' = thr /\ wire' = wire /\ latch' = latch /\ paper' = paper
  BY DEF portVars
<1>2. spaces' \in 0 .. 4
  OBVIOUS
<1>3. OutputTypes' /\ TabCalls'
  BY <1>1, <1>2, CharIs DEF OutputInv, OutputTypes, TabCalls
<1>4. ASSUME ~timedOut PROVE InStep'
  <2>1. Sent' = Sent /\ Printed' = Printed
    BY <1>1 DEF Sent, Printed, Pending
  <2>2. Sent \o Behind = expected /\ Printed \o Behind = expected
    BY <1>4 DEF OutputInv, InStep, ToSend, ToPrint
  <2>3. Behind' = Spaces(k - 1)
    BY CharIs DEF Behind, Spaces
  <2>4. <<Space>> \o Spaces(k - 1) = Spaces(k)
    BY SpacesAre
  <2>5. ToSend' = <<Space>> \o Spaces(k - 1) /\ ToPrint' = <<Space>> \o Spaces(k - 1)
    BY <2>3 DEF ToSend, ToPrint
  <2> QED
    BY <2>1, <2>2, <2>4, <2>5, Zenon DEF InStep
<1> QED
  BY <1>3, <1>4 DEF OutputInv

\* The innermost call of cons_putc() is over and there are no spaces to come.
LEMMA EndStep ==
  ASSUME OutputInv, pc \in {"cga", "tabend"}, pc' \in {"idle", "tabend"}, c # TAB, spaces = 0,
         UNCHANGED <<c, spaces, portVars, timedOut, expected>>
  PROVE  OutputInv'
<1>1. thr' = thr /\ wire' = wire /\ latch' = latch /\ paper' = paper
  BY DEF portVars
<1>2. OutputTypes' /\ TabCalls'
  BY <1>1 DEF OutputInv, OutputTypes, TabCalls
<1>3. ASSUME ~timedOut PROVE InStep'
  <2>1. Sent' = Sent /\ Printed' = Printed
    BY <1>1 DEF Sent, Printed, Pending
  <2>2. Behind = << >>
    BY SpacesAre DEF Behind
  <2>3. ToSend = << >> /\ ToPrint = << >> /\ ToSend' = << >> /\ ToPrint' = << >>
    BY <2>2 DEF ToSend, ToPrint
  <2>4. Sent \o ToSend = expected /\ Printed \o ToPrint = expected
    BY <1>3 DEF OutputInv, InStep
  <2> QED
    BY <2>1, <2>3, <2>4, Zenon DEF InStep
<1> QED
  BY <1>2, <1>3 DEF OutputInv

\* A device takes the byte it was given.
LEMMA SerialReadyStep ==
  ASSUME OutputInv, SerialReady
  PROVE  OutputInv'
<1>1. /\ pc' = pc /\ c' = c /\ spaces' = spaces /\ latch' = latch /\ paper' = paper
      /\ timedOut' = timedOut /\ expected' = expected
      /\ thr # NoByte /\ thr' = NoByte /\ wire' = IF timedOut THEN wire ELSE Append(wire, thr)
  BY DEF SerialReady, callVars, askVars
<1>2. thr \in Char /\ wire \in Seq(Char)
  BY <1>1 DEF OutputInv, OutputTypes
<1>3. wire' \in Seq(Char)
  BY <1>1, <1>2
<1>4. OutputTypes' /\ TabCalls'
  BY <1>1, <1>3 DEF OutputInv, OutputTypes, TabCalls
<1>5. ASSUME ~timedOut PROVE InStep'
  <2>1. Append(wire, thr) \o Pending(NoByte) = wire \o Pending(thr)
    BY <1>2, TakenIs
  <2>2. Sent' = wire' \o Pending(NoByte) /\ Sent = wire \o Pending(thr) /\ Printed' = Printed
    BY <1>1 DEF Sent, Printed, Pending
  <2>3. ToSend' = ToSend /\ ToPrint' = ToPrint
    BY <1>1 DEF ToSend, ToPrint, Behind, Spaces
  <2>4. InStep
    BY <1>5 DEF OutputInv
  <2> QED
    BY <1>1, <1>5, <2>1, <2>2, <2>3, <2>4, Zenon DEF InStep
<1> QED
  BY <1>1, <1>4, <1>5 DEF OutputInv

\* The printer takes the byte in its latch.
LEMMA PrinterReadyStep ==
  ASSUME OutputInv, PrinterReady
  PROVE  OutputInv'
<1>1. /\ pc' = pc /\ c' = c /\ spaces' = spaces /\ thr' = thr /\ wire' = wire
      /\ timedOut' = timedOut /\ expected' = expected
      /\ latch # NoByte /\ latch' = NoByte
      /\ paper' = IF timedOut THEN paper ELSE Append(paper, latch)
  BY DEF PrinterReady, callVars, askVars
<1>2. latch \in Char /\ paper \in Seq(Char)
  BY <1>1 DEF OutputInv, OutputTypes
<1>3. paper' \in Seq(Char)
  BY <1>1, <1>2
<1>4. OutputTypes' /\ TabCalls'
  BY <1>1, <1>3 DEF OutputInv, OutputTypes, TabCalls
<1>5. ASSUME ~timedOut PROVE InStep'
  <2>1. Append(paper, latch) \o Pending(NoByte) = paper \o Pending(latch)
    BY <1>2, TakenIs
  <2>2. Printed' = paper' \o Pending(NoByte) /\ Printed = paper \o Pending(latch) /\ Sent' = Sent
    BY <1>1 DEF Sent, Printed, Pending
  <2>3. ToSend' = ToSend /\ ToPrint' = ToPrint
    BY <1>1 DEF ToSend, ToPrint, Behind, Spaces
  <2>4. InStep
    BY <1>5 DEF OutputInv
  <2> QED
    BY <1>1, <1>5, <2>1, <2>2, <2>3, <2>4, Zenon DEF InStep
<1> QED
  BY <1>1, <1>4, <1>5 DEF OutputInv

\* Every step keeps the two ports in step.
LEMMA OutputStep == OutputInv /\ [Next]_vars => OutputInv'
<1> SUFFICES ASSUME OutputInv, [Next]_vars PROVE OutputInv'
  OBVIOUS
<1>1. ASSUME NEW ch \in Char, CPutchar(ch) PROVE OutputInv'
  BY <1>1, CallStep
<1>2. CASE Tab
  <2>1. Behind = Spaces(5) /\ 5 \in 1 .. 5 /\ 5 - 1 = 4
    BY <1>2 DEF Tab, Behind
  <2>2. /\ pc = "cga" /\ pc' = "serial" /\ c' = Space /\ spaces' = 5 - 1
        /\ UNCHANGED <<portVars, timedOut, expected>>
    BY <1>2, <2>1 DEF Tab, Call, askVars
  <2> QED
    BY <2>1, <2>2, SpaceStep
<1>3. CASE Cga
  <2>1. pc = "cga" /\ c # TAB /\ UNCHANGED <<portVars, timedOut, expected>> /\ spaces \in 0 .. 4
    BY <1>3 DEF Cga, askVars, OutputInv, OutputTypes
  <2>2. CASE spaces > 0
    <3>1. pc' = "serial" /\ c' = Space /\ spaces' = spaces - 1
      BY <1>3, <2>2 DEF Cga, Call
    <3>2. spaces \in 1 .. 5 /\ Behind = Spaces(spaces)
      BY <2>1, <2>2 DEF Behind
    <3> QED
      BY <2>1, <3>1, <3>2, SpaceStep
  <2>3. CASE spaces = 0
    <3>1. pc' \in {"idle", "tabend"} /\ UNCHANGED <<c, spaces>>
      BY <1>3, <2>3 DEF Cga
    <3> QED
      BY <2>1, <2>3, <3>1, EndStep
  <2> QED
    BY <2>1, <2>2, <2>3
<1>4. CASE TabEnd
  <2>1. pc = "tabend" /\ pc' = "idle" /\ UNCHANGED <<c, spaces, portVars, timedOut, expected>>
    BY <1>4 DEF TabEnd, askVars
  <2>2. spaces = 0 /\ c # TAB
    BY <2>1 DEF OutputInv, TabCalls
  <2> QED
    BY <2>1, <2>2, EndStep
<1>5. ASSUME UNCHANGED <<pc, c, spaces, portVars, timedOut, expected>> PROVE OutputInv'
  BY <1>5 DEF OutputInv, OutputTypes, TabCalls, InStep, Sent, Printed, ToSend, ToPrint,
              Behind, portVars, Pending, Spaces
<1>6. CASE SerialWait \/ LptWait \/ UNCHANGED vars
  BY <1>5, <1>6 DEF SerialWait, LptWait, vars, callVars, askVars
<1> QED
  BY <1>1, <1>2, <1>3, <1>4, <1>6, SerialStep, LptStep, SerialReadyStep, PrinterReadyStep
     DEF Next, Kernel

(* Both ports get every character once, in the order of the calls, and the *)
(* spaces of a tab behind it, whatever their speeds and however the calls  *)
(* of cons_putc() nest, as long as none was too slow for SPINS looks.      *)
THEOREM PortsAlike == Spec => []PortsInStep
<1>1. OutputInv => PortsInStep
  <2> SUFFICES ASSUME OutputInv, pc = "idle", ~timedOut
               PROVE  Sent = expected /\ Printed = expected
    BY DEF PortsInStep, Sent, Printed
  <2>1. Sent \o << >> = expected /\ Printed \o << >> = expected
    BY DEF OutputInv, InStep, ToSend, ToPrint
  <2>2. Sent \in Seq(Char) /\ Printed \in Seq(Char)
    BY PendingIs, ConcatProperties DEF OutputInv, OutputTypes, Sent, Printed
  <2> QED
    BY <2>1, <2>2, ConcatEmptySeq
<1> QED
  BY <1>1, OutputStart, OutputStep, PTL DEF Spec

(* The display under cons_putc(), the calls from inside cga_putc()         *)
(* included, is that terminal.                                             *)
THEOREM OutputIsTerminal == Spec => TerminalSpec
<1>1. Init => DisplayInit
  BY DEF Init
<1>2. OutputInv /\ [Next]_vars => [DisplayNext]_crtVars
  <2> SUFFICES ASSUME OutputInv, [Next]_vars PROVE [DisplayNext]_crtVars
    OBVIOUS
  <2>1. CASE Cga
    <3>1. c \in Glyph \cup Control /\ CgaPutc(c)
      BY <2>1 DEF Cga, OutputInv, OutputTypes, Char
    <3> QED
      BY <3>1 DEF DisplayNext
  <2>2. CASE TabEnd
    BY <2>2 DEF TabEnd, DisplayNext
  <2>3. CASE SerialWait \/ LptWait \/ SerialPutc \/ LptPutc \/ Tab \/ SerialReady \/ PrinterReady
    BY <2>3 DEF SerialWait, LptWait, SerialPutc, LptPutc, Tab, SerialReady, PrinterReady, crtVars
  <2>4. CASE (\E ch \in Char : CPutchar(ch)) \/ UNCHANGED vars
    BY <2>4 DEF CPutchar, vars, crtVars
  <2> QED
    BY <2>1, <2>2, <2>3, <2>4 DEF Next, Kernel
<1>3. Spec => DisplaySpec
  BY <1>1, <1>2, OutputStart, OutputStep, PTL DEF Spec, DisplaySpec
<1> QED
  BY <1>3, DisplayIsTerminal
=============================================================================
