--------------------------- MODULE ConsoleOutput ---------------------------
(***************************************************************************)
(* Console output of kern/console.c: cons_putc() sends a character to the  *)
(* serial port, the parallel port and the display, in this order.  The two *)
(* ports are slow devices beside the kernel; each is waited for, but not   *)
(* for ever: after SPINS looks the byte is written ready or not.  A tab    *)
(* makes the display call cons_putc() again, for five spaces, from inside  *)
(* the call that shows the tab.                                            *)
(***************************************************************************)
EXTENDS Display

CONSTANTS
  SPINS,      (* 12800 in the code: how often a port is looked at          *)
  MaxChars    (* bound: characters given to cputchar()                     *)

NoByte == -1

ASSUME OutputAssumption == SPINS \in Nat /\ MaxChars \in Nat /\ NoByte \notin Glyph

VARIABLES
  pc,         (* "idle", or the device being served: "serial", "lpt",      *)
              (* "cga"; "tabend": back in the cga_putc() that met a tab    *)
  c,          (* the argument of the innermost cons_putc()                 *)
  spins,      (* the loop counter of serial_putc() and lpt_putc()          *)
  spaces,     (* spaces still to be put by the cga_putc() that met a tab   *)
  inTab,      (* that cga_putc() is waiting for them                       *)
  thr,        (* external: byte the serial port has yet to send, or NoByte *)
  wire,       (* external: what it has sent, up to a timeout                *)
  latch,      (* external: byte the printer has yet to take, or NoByte     *)
  paper,      (* external: what it has printed, up to a timeout             *)
  timedOut,   (* a byte was written to a port that was not ready           *)
  calls,      (* how often cputchar() was called                           *)
  expected    (* ghost: the bytes that a port is to get for these calls    *)

callVars == <<c, spaces, inTab>>
portVars == <<thr, wire, latch, paper>>
askVars == <<calls, expected>>
vars == <<crtVars, callVars, portVars, pc, spins, timedOut, askVars>>

Char == Glyph \cup Control \cup {TAB}

Init ==
  /\ DisplayInit
  /\ pc = "idle" /\ c = Space /\ spins = 0 /\ spaces = 0 /\ inTab = FALSE
  /\ thr = NoByte /\ wire = << >> /\ latch = NoByte /\ paper = << >>
  /\ timedOut = FALSE /\ calls = 0 /\ expected = << >>

\* The call cons_putc(ch).
Call(ch) == pc' = "serial" /\ c' = ch /\ spins' = 0

\* The bytes a port is to get for one character.
Spaces(k) == [x \in 1 .. k |-> Space]
PortBytes(ch) == IF ch = TAB THEN <<TAB>> \o Spaces(5) ELSE <<ch>>

CPutchar(ch) ==
  /\ pc = "idle" /\ calls < MaxChars
  /\ Call(ch)
  /\ calls' = calls + 1 /\ expected' = expected \o PortBytes(ch)
  /\ UNCHANGED <<crtVars, spaces, inTab, portVars, timedOut>>

---------------------------------------------------------------------------
\* Faulty variants: no limit on the looks; no looks at all.
SerialWaitForever ==
  /\ pc = "serial" /\ thr # NoByte
  /\ UNCHANGED vars

SerialPutcAtOnce ==
  /\ pc = "serial"
  /\ thr' = c
  /\ pc' = "lpt" /\ spins' = 0
  /\ UNCHANGED <<crtVars, callVars, wire, latch, paper, timedOut, askVars>>

SerialWait ==
  /\ pc = "serial" /\ thr # NoByte /\ spins < SPINS
  /\ spins' = spins + 1
  /\ UNCHANGED <<crtVars, callVars, portVars, pc, timedOut, askVars>>

SerialPutc ==
  /\ pc = "serial"
  /\ \/ thr = NoByte /\ UNCHANGED timedOut
     \/ thr # NoByte /\ spins = SPINS /\ timedOut' = TRUE
  /\ thr' = c
  /\ pc' = "lpt" /\ spins' = 0
  /\ UNCHANGED <<crtVars, callVars, wire, latch, paper, askVars>>

LptWait ==
  /\ pc = "lpt" /\ latch # NoByte /\ spins < SPINS
  /\ spins' = spins + 1
  /\ UNCHANGED <<crtVars, callVars, portVars, pc, timedOut, askVars>>

LptPutc ==
  /\ pc = "lpt"
  /\ \/ latch = NoByte /\ UNCHANGED timedOut
     \/ latch # NoByte /\ spins = SPINS /\ timedOut' = TRUE
  /\ latch' = c
  /\ pc' = "cga" /\ spins' = 0
  /\ UNCHANGED <<crtVars, callVars, thr, wire, paper, askVars>>

---------------------------------------------------------------------------
(* cga_putc('\t'): the first of five calls cons_putc(' ').                 *)
Tab ==
  /\ pc = "cga" /\ c = TAB
  /\ inTab' = TRUE /\ spaces' = 4
  /\ Call(Space)
  /\ UNCHANGED <<crtVars, portVars, timedOut, askVars>>

(* cga_putc() for another character; cons_putc() returns, to its caller or *)
(* to the cga_putc() that is putting spaces.                               *)
Cga ==
  /\ pc = "cga" /\ c # TAB
  /\ CgaPutc(c)
  /\ \/ /\ spaces > 0
        /\ spaces' = spaces - 1
        /\ Call(Space)
     \/ /\ spaces = 0
        /\ pc' = IF inTab THEN "tabend" ELSE "idle"
        /\ UNCHANGED <<c, spins, spaces>>
  /\ UNCHANGED <<inTab, portVars, timedOut, askVars>>

TabEnd ==
  /\ pc = "tabend"
  /\ CgaTabEnd
  /\ inTab' = FALSE /\ pc' = "idle"
  /\ UNCHANGED <<c, spins, spaces, portVars, timedOut, askVars>>

Kernel ==
  SerialWait \/ SerialPutc \/ LptWait \/ LptPutc \/ Tab \/ Cga \/ TabEnd

---------------------------------------------------------------------------
SerialReady ==
  /\ thr # NoByte
  /\ wire' = IF timedOut THEN wire ELSE Append(wire, thr)
  /\ thr' = NoByte
  /\ UNCHANGED <<crtVars, callVars, pc, spins, latch, paper, timedOut, askVars>>

PrinterReady ==
  /\ latch # NoByte
  /\ paper' = IF timedOut THEN paper ELSE Append(paper, latch)
  /\ latch' = NoByte
  /\ UNCHANGED <<crtVars, callVars, pc, spins, thr, wire, timedOut, askVars>>

Next == (\E ch \in Char : CPutchar(ch)) \/ Kernel \/ SerialReady \/ PrinterReady

(* The kernel runs on; the ports may stop working at any time.             *)
Spec == Init /\ [][Next]_vars /\ WF_vars(Kernel)

---------------------------------------------------------------------------
TypeOK ==
  /\ DisplayTypeOK
  /\ pc \in {"idle", "serial", "lpt", "cga", "tabend"}
  /\ c \in Char /\ spins \in 0 .. SPINS
  /\ spaces \in 0 .. 4 /\ inTab \in BOOLEAN /\ timedOut \in BOOLEAN
  /\ thr \in Char \cup {NoByte} /\ latch \in Char \cup {NoByte}
  /\ wire \in Seq(Char) /\ paper \in Seq(Char) /\ expected \in Seq(Char)
  /\ calls \in 0 .. MaxChars

Pending(b) == IF b = NoByte THEN << >> ELSE <<b>>

(* When a cputchar() has returned, both ports have been given the same     *)
(* bytes in the same order, whatever their speeds, unless one of them was  *)
(* too slow for SPINS looks: the spaces of a tab come after the tab and    *)
(* before the next character.                                              *)
PortsInStep ==
  pc = "idle" /\ ~timedOut =>
    /\ wire \o Pending(thr) = expected
    /\ paper \o Pending(latch) = expected

(* Every cputchar() returns, even if both ports are dead.                  *)
PutcReturns == (pc # "idle") ~> (pc = "idle")
===========================================================================
