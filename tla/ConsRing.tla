----------------------------- MODULE ConsRing -----------------------------
(***************************************************************************)
(* The circular console input buffer `cons' of kern/console.c: an array    *)
(* with a read and a write position, both wrapped by hand.  cons_intr()    *)
(* stores without looking at rpos; cons_getc() takes rpos = wpos to mean   *)
(* empty.                                                                  *)
(***************************************************************************)
EXTENDS Integers, Sequences

CONSTANTS
  CONSBUFSIZE,   (* slots of the buffer, 512 in the code                   *)
  Char           (* the characters stored: bytes other than 0              *)

ASSUME RingAssumption == CONSBUFSIZE \in Nat \ {0}

VARIABLES
  buf,           (* cons.buf, indexed from 0                               *)
  rpos,          (* cons.rpos, the next slot to read                       *)
  wpos,          (* cons.wpos, the next slot to write                      *)
  got            (* the value returned by the last cons_getc()             *)

ringVars == <<buf, rpos, wpos, got>>

Slots == 0 .. CONSBUFSIZE - 1

\* BSS is zeroed before the console is used.
RingInit ==
  /\ buf = [s \in Slots |-> 0]
  /\ rpos = 0
  /\ wpos = 0
  /\ got = 0

\* Faulty variant: one slot early.
AdvanceEarly(pos) == IF pos + 2 >= CONSBUFSIZE THEN 0 ELSE pos + 1

\* A position is advanced and, at the end of the buffer, reset to 0.
Advance(pos) == IF pos + 1 = CONSBUFSIZE THEN 0 ELSE pos + 1

\* The body of cons_intr()'s loop for a character other than 0.
Put(c) ==
  /\ buf' = [buf EXCEPT ![wpos] = c]
  /\ wpos' = Advance(wpos)
  /\ UNCHANGED <<rpos, got>>

\* Faulty variants: the position stays; all that waits is taken at once.
GetStays == rpos # wpos /\ got' = buf[rpos] /\ UNCHANGED <<buf, rpos, wpos>>

GetFlushes ==
  rpos # wpos /\ got' = buf[rpos] /\ rpos' = wpos /\ UNCHANGED <<buf, wpos>>

\* cons_getc() after polling, with a character waiting.
Get ==
  /\ rpos # wpos
  /\ got' = buf[rpos]
  /\ rpos' = Advance(rpos)
  /\ UNCHANGED <<buf, wpos>>

\* cons_getc() after polling, with none waiting.
GetNone ==
  /\ rpos = wpos
  /\ got' = 0
  /\ UNCHANGED <<buf, rpos, wpos>>

RingNext == (\E c \in Char : Put(c)) \/ Get \/ GetNone

RingSpec == RingInit /\ [][RingNext]_ringVars

---------------------------------------------------------------------------
RingTypeOK ==
  /\ buf \in [Slots -> Char \cup {0}]
  /\ rpos \in Slots
  /\ wpos \in Slots
  /\ got \in Char \cup {0}

(* The characters waiting between positions r and w of a buffer b, oldest  *)
(* first: the slots from r up to but not including w, around the end of    *)
(* the buffer if need be.                                                  *)
CountOf(r, w) == IF r <= w THEN w - r ELSE w + CONSBUFSIZE - r

SlotAt(r, k) ==   \* the slot of the k-th waiting character, k >= 1
  IF r + k - 1 < CONSBUFSIZE THEN r + k - 1 ELSE r + k - 1 - CONSBUFSIZE

ContentsOf(b, r, w) == [k \in 1 .. CountOf(r, w) |-> b[SlotAt(r, k)]]

Contents == ContentsOf(buf, rpos, wpos)

Fifo == INSTANCE LossyFifo WITH Capacity <- CONSBUFSIZE - 1, queue <- Contents

(* The ring implements the queue that forgets everything when it overruns: *)
(* cons_intr() and cons_getc() together neither lose, repeat nor reorder a *)
(* character in any other way, wherever the two positions stand.           *)
FifoSpec == Fifo!Spec
===========================================================================
