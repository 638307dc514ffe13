------------------------------ MODULE Display ------------------------------
(***************************************************************************)
(* The text display of kern/console.c: cga_putc() on a linear buffer of    *)
(* CRT_SIZE cells with one 16-bit position.  The attribute byte of a cell  *)
(* is left out.  A tab does nothing here by itself: it makes cga_putc()    *)
(* call cons_putc() for five spaces (module ConsoleOutput).                *)
(***************************************************************************)
EXTENDS Integers, Sequences

CONSTANTS
  CRT_COLS,     (* 80 in the code                                          *)
  CRT_SIZE,     (* cells of the page, 25 lines                             *)
  Glyph         (* the characters that are displayed as they are           *)

BS == 8
TAB == 9
NL == 10
CR == 13
Space == 32

ASSUME DisplayAssumption ==
  /\ CRT_COLS \in Nat \ {0} /\ CRT_SIZE \in Nat
  /\ CRT_COLS <= CRT_SIZE /\ CRT_SIZE % CRT_COLS = 0
  /\ CRT_SIZE + CRT_COLS <= 65536
  /\ Space \in Glyph /\ Glyph \cap {BS, TAB, NL, CR} = {}

VARIABLES
  crt_buf,      (* the cells, from 0                                       *)
  crt_pos,      (* where the next character goes, a uint16_t               *)
  cursor        (* external: the cursor registers of the 6845              *)

crtVars == <<crt_buf, crt_pos, cursor>>

Cells == 0 .. CRT_SIZE - 1

Control == {BS, NL, CR}

U16(x) == x % 65536

\* cga_init() takes over the position the hardware has.
DisplayInit ==
  /\ crt_buf \in [Cells -> Glyph]
  /\ cursor \in Cells
  /\ crt_pos = cursor

---------------------------------------------------------------------------
(* The switch of cga_putc(): the buffer and position after the character c *)
(* is put at position p of the buffer b.                                   *)
LineStart(p) == p - (p % CRT_COLS)

PosAfter(p, c) ==
  CASE c = BS -> IF p > 0 THEN p - 1 ELSE p
    [] c = NL -> LineStart(U16(p + CRT_COLS))
    [] c = CR -> LineStart(p)
    [] OTHER  -> U16(p + 1)

BufAfter(b, p, c) ==
  CASE c = BS         -> IF p > 0 THEN [b EXCEPT ![p - 1] = Space] ELSE b
    [] c \in {NL, CR} -> b
    [] OTHER          -> [b EXCEPT ![p] = c]

\* Faulty variant: the last line is not cleared.
MovedBuf(b) ==
  [k \in Cells |-> IF k < CRT_SIZE - CRT_COLS THEN b[k + CRT_COLS] ELSE b[k]]

(* The end of cga_putc(): a position past the page scrolls it by a line,   *)
(* and the hardware cursor follows.                                        *)
ScrolledBuf(b) ==
  [k \in Cells |-> IF k < CRT_SIZE - CRT_COLS THEN b[k + CRT_COLS] ELSE Space]

Finish(b, p) ==
  /\ crt_buf' = IF p >= CRT_SIZE THEN ScrolledBuf(b) ELSE b
  /\ crt_pos' = IF p >= CRT_SIZE THEN p - CRT_COLS ELSE p
  /\ cursor' = crt_pos'

\* cga_putc() for anything but a tab, and what follows a tab's spaces.
CgaPutc(c) == Finish(BufAfter(crt_buf, crt_pos, c), PosAfter(crt_pos, c))

CgaTabEnd == Finish(crt_buf, crt_pos)

DisplayNext == (\E c \in Glyph \cup Control : CgaPutc(c)) \/ CgaTabEnd

DisplaySpec == DisplayInit /\ [][DisplayNext]_crtVars

---------------------------------------------------------------------------
DisplayTypeOK ==
  /\ crt_buf \in [Cells -> Glyph]
  /\ crt_pos \in Cells
  /\ cursor \in Cells

(* The linear buffer is a page of lines and the position its cursor: every *)
(* call of cga_putc(), on any line and column, does what a terminal does   *)
(* with the character, the scroll included.                                *)
CRT_ROWS == CRT_SIZE \div CRT_COLS

Page == [r \in 1 .. CRT_ROWS |->
           [k \in 1 .. CRT_COLS |-> crt_buf[(r - 1) * CRT_COLS + k - 1]]]

Term == INSTANCE Terminal WITH
  Blank <- Space, page <- Page,
  row <- crt_pos \div CRT_COLS, col <- crt_pos % CRT_COLS

TerminalSpec == Term!Spec
===========================================================================
