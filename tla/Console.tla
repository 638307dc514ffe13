------------------------------ MODULE Console ------------------------------
(***************************************************************************)
(* Console input of kern/console.c as a whole: getchar() polling two       *)
(* devices into the ring buffer.  The kernel is one thread with interrupts *)
(* off; the keyboard (module Keyboard) and the serial line run beside it   *)
(* and may deliver between any two of its steps.  A step of the kernel is  *)
(* one call of a device's proc_data function, with what cons_intr() does   *)
(* with the answer.                                                        *)
(*                                                                         *)
(* The characters the other end of the serial line sends are 1, 2, 3, ...  *)
(* in this order, so that a character says which one it is.                *)
(***************************************************************************)
EXTENDS Keyboard, ConsRing

CONSTANT MaxSerial   (* bound: characters sent over the serial line        *)

ASSUME ConsoleAssumption == Char \subseteq 1 .. 255 /\ MaxSerial \in 0 .. 64

NoByte == -1

VARIABLES
  pc,             (* where the kernel is: "boot" before cons_init();       *)
                  (* "serial", "kbd", "take": in cons_getc(); "out": not   *)
                  (* asking for input                                      *)
  serial_exists,
  uart,           (* external: whether there is a serial port              *)
  rx,             (* external: its receive register, or NoByte             *)
  sent,           (* external: characters sent so far                      *)
  lost,           (* a serial character was overwritten or thrown away     *)
  delivered       (* what getchar() has returned, oldest first             *)

serialVars == <<uart, rx, sent>>
vars == <<ringVars, kbdVars, serialVars, pc, serial_exists, lost, delivered>>

Init ==
  /\ RingInit /\ KbdInit
  /\ pc = "boot" /\ serial_exists = FALSE /\ delivered = << >>
  /\ uart \in BOOLEAN /\ rx = NoByte /\ sent = 0 /\ lost = FALSE

---------------------------------------------------------------------------
(* The serial port.  Its FIFO is turned off by serial_init(), so a byte    *)
(* that arrives before the last one is read replaces it.  A line at rest   *)
(* may also produce a NUL (a break condition).                             *)
SerialArrives(c) ==
  /\ uart
  /\ rx' = c
  /\ lost' = (lost \/ rx \notin {NoByte, 0})
  /\ UNCHANGED <<ringVars, kbdVars, uart, pc, serial_exists, delivered>>

SerialSends == sent < MaxSerial /\ sent' = sent + 1 /\ SerialArrives(sent + 1)

SerialBreak == sent < MaxSerial /\ UNCHANGED sent /\ rx # 0 /\ SerialArrives(0)

\* The ports of an absent device read as FF: data ready, for ever.
DataReady == ~uart \/ rx # NoByte

ReadRX == IF uart THEN rx ELSE 255

---------------------------------------------------------------------------
(* serial_init(): the port is there unless its status reads FF; whatever   *)
(* it holds is read and thrown away.                                       *)
ConsInit ==
  /\ pc = "boot"
  /\ serial_exists' = uart
  /\ rx' = NoByte
  /\ lost' = (lost \/ rx \notin {NoByte, 0})
  /\ pc' = "out"
  /\ UNCHANGED <<ringVars, kbdVars, uart, sent, delivered>>

(* getchar() is called, and calls cons_getc().                             *)
CallGetchar ==
  /\ pc = "out"
  /\ pc' = "serial"
  /\ UNCHANGED <<ringVars, kbdVars, serialVars, serial_exists, lost, delivered>>

(* cons_intr() with a character: 0 is skipped, any other is stored, room   *)
(* or no room.                                                             *)
Store(c) == IF c = 0 THEN UNCHANGED ringVars ELSE Put(c)

Overruns(c) == c # 0 /\ Advance(wpos) = rpos

\* Faulty variant: the device is polled whether or not it exists.
SerialIntrAnyway ==
  /\ pc = "serial"
  /\ IF DataReady
     THEN /\ Store(ReadRX)
          /\ rx' = NoByte
          /\ lost' = (lost \/ Overruns(ReadRX))
          /\ UNCHANGED <<uart, sent, pc>>
     ELSE pc' = "kbd" /\ UNCHANGED <<ringVars, serialVars, lost>>
  /\ UNCHANGED <<kbdVars, serial_exists, delivered>>

SerialIntr ==
  /\ pc = "serial"
  /\ IF serial_exists /\ DataReady
     THEN /\ Store(ReadRX)
          /\ rx' = NoByte
          /\ lost' = (lost \/ Overruns(ReadRX))
          /\ UNCHANGED <<uart, sent, pc>>
     ELSE pc' = "kbd" /\ UNCHANGED <<ringVars, serialVars, lost>>
  /\ UNCHANGED <<kbdVars, serial_exists, delivered>>

KbdIntr ==
  /\ pc = "kbd"
  /\ \/ /\ KbdProcData
        /\ Store(kbd_c')
        /\ lost' = (lost \/ Overruns(kbd_c'))
        /\ UNCHANGED pc
     \/ /\ KbdNoData
        /\ pc' = "take"
        /\ UNCHANGED <<ringVars, lost>>
  /\ UNCHANGED <<serialVars, serial_exists, delivered>>

\* Faulty variant: the serial line is polled at the first call only.
TakeThenKbd ==
  /\ pc = "take"
  /\ \/ Get /\ delivered' = Append(delivered, got') /\ pc' = "out"
     \/ GetNone /\ pc' = "kbd" /\ UNCHANGED delivered
  /\ UNCHANGED <<kbdVars, serialVars, serial_exists, lost>>

(* The end of cons_getc(); on 0, getchar() calls it again.                 *)
Take ==
  /\ pc = "take"
  /\ \/ Get /\ delivered' = Append(delivered, got') /\ pc' = "out"
     \/ GetNone /\ pc' = "serial" /\ UNCHANGED delivered
  /\ UNCHANGED <<kbdVars, serialVars, serial_exists, lost>>

Kernel == ConsInit \/ CallGetchar \/ SerialIntr \/ KbdIntr \/ Take

TypeKey ==
  /\ KeyboardStep
  /\ UNCHANGED <<ringVars, serialVars, pc, serial_exists, lost, delivered>>

Next == Kernel \/ TypeKey \/ SerialSends \/ SerialBreak

(* The kernel keeps running, and its monitor always asks for more input:   *)
(* there is one thread and nothing preempts it.  The devices promise       *)
(* nothing.                                                                *)
Spec == Init /\ [][Next]_vars /\ WF_vars(Kernel)

---------------------------------------------------------------------------
TypeOK ==
  /\ RingTypeOK /\ KbdTypeOK
  /\ pc \in {"boot", "out", "serial", "kbd", "take"}
  /\ serial_exists \in BOOLEAN /\ uart \in BOOLEAN /\ lost \in BOOLEAN
  /\ rx \in Byte \cup {NoByte}
  /\ sent \in 0 .. MaxSerial
  /\ delivered \in Seq(Char)

IsSerial(c) == c \in 1 .. MaxSerial

\* The serial characters of a sequence are in the order of the line, each once.
InOrder(s) ==
  \A i, j \in DOMAIN s : i < j /\ IsSerial(s[i]) /\ IsSerial(s[j]) => s[i] < s[j]

(* What getchar() returns of the serial line is in the order of the line,  *)
(* each character at most once, even when characters are lost to an        *)
(* overrun of the port or of the ring.                                     *)
SerialInOrder == InOrder(delivered)

(* And nothing disappears but by one of these overruns: what was returned, *)
(* what waits in the ring and what waits in the port make up what was      *)
(* sent, in its order.                                                     *)
NothingElseLost ==
  ~lost => LET all == delivered \o Contents \o <<rx>>
           IN  /\ InOrder(all)
               /\ \A n \in 1 .. sent : \E i \in DOMAIN all : all[i] = n

(* cons_intr() stays in its loop for as long as its device has data, so a  *)
(* serial line that never falls silent keeps the kernel from everything    *)
(* else.  The two properties below are about lines that do.                *)
SerialFallsSilent == <>[][~(SerialSends \/ SerialBreak)]_vars

(* The keyboard is always served in the end, and an absent serial port,    *)
(* whose status claims data for ever, does not keep the kernel from it.    *)
KeyboardServed ==
  SerialFallsSilent => ((kbdq # << >>) ~> (kbdq = << >>))

(* A character sent over the serial line reaches a caller of getchar(),    *)
(* unless one was lost.                                                    *)
SerialServed ==
  SerialFallsSilent =>
    \A n \in 1 .. MaxSerial :
      (sent >= n) ~> (lost \/ \E i \in DOMAIN delivered : delivered[i] = n)
===========================================================================
