----------------------------- MODULE Keyboard -----------------------------
(***************************************************************************)
(* kbd_proc_data() of kern/console.c: the state machine that turns the     *)
(* byte stream of a PS/2 keyboard (scan code set 1) into characters.  The  *)
(* kernel sees one byte per call and keeps one word of state, `shift'; the *)
(* keyboard in front of it is external and modelled by what such keyboards *)
(* send: a key press (repeated while the key is held) or a release is one  *)
(* or several bytes, E0 and fake shifts included.                          *)
(*                                                                         *)
(* A key is named by the index the code's tables use for it: its scan      *)
(* code, with the top bit set for the keys whose code is preceded by E0.   *)
(***************************************************************************)
EXTENDS Integers, Sequences

CONSTANTS
  Keys,          (* the keys of the keyboard that are pressed              *)
  KbdRoom,       (* bytes the keyboard holds for a kernel that is not      *)
                 (* reading them; further ones are dropped                 *)
  MaxKeyEvents   (* bound: presses, repeats and releases                   *)

(* The byte E0 is the prefix, so no key has the scan code 0x60, whose      *)
(* release would send it, with or without a prefix.                        *)
ASSUME KeyboardAssumption ==
  /\ Keys \subseteq (0 .. 255) \ {96, 224}
  /\ KbdRoom \in Nat /\ MaxKeyEvents \in Nat

LCTL == 29        \* 0x1D
LSHIFT == 42      \* 0x2A
RSHIFT == 54      \* 0x36
LALT == 56        \* 0x38
CAPS == 58        \* 0x3A
RCTL == 157       \* E0 0x1D
RALT == 184       \* E0 0x38
HOME == 199       \* E0 0x47
DEL == 211        \* E0 0x53
PAUSE == 225      \* sends E1 0x1D 0x45, E1 0x9D 0xC5
LETTER_A == 30    \* 0x1E
ENTER == 28       \* 0x1C
KP_DOT == 83      \* 0x53, Delete without its E0

KEY_HOME == 224   \* 0xE0, inc/kbdreg.h
KEY_DEL == 233    \* 0xE9

Byte == 0 .. 255

Modifier == {"SHIFT", "CTL", "ALT"}
Flag == Modifier \cup {"CAPSLOCK", "NUMLOCK", "SCROLLLOCK", "E0ESC"}

VARIABLES
  shift,      (* the static `shift' of kbd_proc_data(): a set of flags     *)
  kbd_c,      (* the value its last call returned                          *)
  reboots,    (* times it wrote 3 to port 0x92 (a reset)                   *)
  kbdq,       (* external: bytes the kernel has not read; each with the    *)
              (* keys down once it is sent, and whether it ends a sequence *)
  held,       (* external: the keys down                                   *)
  dropped,    (* external: a key's bytes were dropped for want of room     *)
  events      (* external: presses, repeats and releases so far            *)

VARIABLES     (* of the last byte read, for the properties only            *)
  seen,       (* the keys down when it was sent                            *)
  whole       (* whether it ended a key's sequence                         *)

kernelVars == <<shift, kbd_c, reboots>>
keyboardVars == <<kbdq, held, dropped, events>>
kbdVars == <<shift, kbd_c, reboots, kbdq, held, dropped, events, seen, whole>>

KbdInit ==
  /\ shift = {} /\ kbd_c = 0 /\ reboots = 0
  /\ kbdq = << >> /\ held = {} /\ dropped = FALSE /\ events = 0
  /\ seen = {} /\ whole = TRUE

---------------------------------------------------------------------------
\* The code's tables.  Of the character maps, the keys modelled.

shiftcode(d) ==
  CASE d \in {LSHIFT, RSHIFT} -> {"SHIFT"}
    [] d \in {LCTL, RCTL}     -> {"CTL"}
    [] d \in {LALT, RALT}     -> {"ALT"}
    [] OTHER                  -> {}

togglecode(d) ==
  CASE d = CAPS -> {"CAPSLOCK"}
    [] d = 69   -> {"NUMLOCK"}
    [] d = 70   -> {"SCROLLLOCK"}
    [] OTHER    -> {}

normalmap(d) ==
  CASE d = LETTER_A -> 97   [] d = ENTER -> 10      [] d = KP_DOT -> 46
    [] d = HOME -> KEY_HOME [] d = DEL -> KEY_DEL   [] OTHER -> 0

shiftmap(d) == IF d = LETTER_A THEN 65 ELSE normalmap(d)

\* KEY_HOME stands at index 0x97 of ctlmap, which is no key: Ctrl-Home is 0.
ctlmap(d) ==
  CASE d = LETTER_A -> 1 [] d = ENTER -> 13 [] d = DEL -> KEY_DEL [] OTHER -> 0

charcode(s, d) ==
  IF "CTL" \in s THEN ctlmap(d)
  ELSE IF "SHIFT" \in s THEN shiftmap(d)
  ELSE normalmap(d)

SwapCase(c) ==
  CASE c \in 97 .. 122 -> c - 32
    [] c \in 65 .. 90  -> c + 32
    [] OTHER           -> c

---------------------------------------------------------------------------
(* What one call does with the byte `data' when the flags are s: the next  *)
(* flags and the value returned.                                           *)
Prefix(s) == [shift |-> s \cup {"E0ESC"}, c |-> 0]

\* Faulty variants: the top bit kept, or cleared, whatever came before; the
\* prefix not consumed.
ReleaseRaw(s, data) ==
  [shift |-> s \ (shiftcode(data) \cup {"E0ESC"}), c |-> 0]

ReleaseStripped(s, data) ==
  [shift |-> s \ (shiftcode(data - 128) \cup {"E0ESC"}), c |-> 0]

ReleaseInPrefix(s, data) ==
  [shift |-> s \ shiftcode(IF "E0ESC" \in s THEN data ELSE data - 128), c |-> 0]

Release(s, data) ==
  LET d == IF "E0ESC" \in s THEN data ELSE data - 128
  IN  [shift |-> s \ (shiftcode(d) \cup {"E0ESC"}), c |-> 0]

Press(s, data) ==
  LET d  == IF "E0ESC" \in s THEN data + 128 ELSE data
      s1 == (s \ {"E0ESC"}) \cup shiftcode(d)
      s2 == (s1 \ togglecode(d)) \cup (togglecode(d) \ s1)
      c  == charcode(s2, d)
  IN  [shift |-> s2, c |-> IF "CAPSLOCK" \in s2 THEN SwapCase(c) ELSE c]

Decode(s, data) ==
  IF data = 224 THEN Prefix(s)
  ELSE IF data >= 128 THEN Release(s, data)
  ELSE Press(s, data)

\* Faulty variant: one of the two modifiers will do.
IsRebootAny(r) == {"CTL", "ALT"} \cap r.shift # {} /\ r.c = KEY_DEL

\* Special keys; only a key press can return one.
IsReboot(r) == {"CTL", "ALT"} \subseteq r.shift /\ r.c = KEY_DEL

(* A call that finds a byte in the controller.                             *)
KbdProcData ==
  /\ kbdq # << >>
  /\ LET in == Head(kbdq)
         r  == Decode(shift, in.byte)
     IN  /\ shift' = r.shift
         /\ kbd_c' = r.c
         /\ reboots' = IF IsReboot(r) THEN reboots + 1 ELSE reboots
         /\ seen' = in.held
         /\ whole' = in.last
  /\ kbdq' = Tail(kbdq)
  /\ UNCHANGED <<held, dropped, events>>

(* A call that finds none returns -1.                                      *)
KbdNoData ==
  /\ kbdq = << >>
  /\ kbd_c' = -1
  /\ UNCHANGED <<shift, reboots, keyboardVars, seen, whole>>

---------------------------------------------------------------------------
(* The keyboard.  A key of the cursor block pressed or released while a    *)
(* left shift is down is wrapped in a fake release and press of it.        *)
E0(k) == k >= 128 /\ k # PAUSE

Wrapped(k) == k \in {HOME, DEL} /\ LSHIFT \in held

MakeBytes(k) ==
  CASE k = PAUSE             -> <<225, 29, 69, 225, 157, 197>>
    [] Wrapped(k)            -> <<224, 170, 224, k - 128>>
    [] E0(k) /\ ~Wrapped(k)  -> <<224, k - 128>>
    [] k < 128               -> <<k>>

BreakBytes(k) ==
  CASE k = PAUSE             -> << >>
    [] Wrapped(k)            -> <<224, k, 224, 42>>
    [] E0(k) /\ ~Wrapped(k)  -> <<224, k>>
    [] k < 128               -> <<k + 128>>

Send(bytes, down) ==
  IF Len(kbdq) + Len(bytes) <= KbdRoom
  THEN /\ kbdq' = kbdq \o
            [i \in 1 .. Len(bytes) |->
               [byte |-> bytes[i], held |-> down, last |-> i = Len(bytes)]]
       /\ UNCHANGED dropped
  ELSE /\ dropped' = TRUE
       /\ UNCHANGED kbdq

KeyDown(k) ==   \* also the repeats of a key that stays down
  /\ events < MaxKeyEvents /\ events' = events + 1
  /\ k = PAUSE => held \cap {LCTL, RCTL} = {}
  /\ held' = held \cup {k}
  /\ Send(MakeBytes(k), held \cup {k})
  /\ UNCHANGED <<kernelVars, seen, whole>>

KeyUp(k) ==
  /\ k \in held
  /\ events < MaxKeyEvents /\ events' = events + 1
  /\ held' = held \ {k}
  /\ Send(BreakBytes(k), held \ {k})
  /\ UNCHANGED <<kernelVars, seen, whole>>

KeyboardStep == \E k \in Keys : KeyDown(k) \/ KeyUp(k)

KbdNext == KeyboardStep \/ KbdProcData \/ KbdNoData

KbdSpec == KbdInit /\ [][KbdNext]_kbdVars

---------------------------------------------------------------------------
KbdTypeOK ==
  /\ shift \in SUBSET Flag
  /\ kbd_c \in -1 .. 255
  /\ reboots \in 0 .. MaxKeyEvents
  /\ kbdq \in Seq([byte : Byte, held : SUBSET Keys, last : BOOLEAN])
  /\ Len(kbdq) <= KbdRoom
  /\ held \in SUBSET Keys /\ seen \in SUBSET Keys
  /\ dropped \in BOOLEAN /\ whole \in BOOLEAN
  /\ events \in 0 .. MaxKeyEvents

KeysOf(m) == {k \in Keys : shiftcode(k) = {m}}

(* A modifier flag never outlives its keys: once the bytes of a key have   *)
(* been read, SHIFT, CTL or ALT is on only if a key of that modifier was   *)
(* down.  Fake shifts, E0 prefixes, the unknown prefix E1 of the Pause key *)
(* and auto-repeat in between do not leave one on, short of a dropped      *)
(* byte.                                                                   *)
NoStuckModifier ==
  whole /\ ~dropped =>
    \A m \in Modifier \cap shift : KeysOf(m) \cap seen # {}

(* A held modifier is never forgotten, where the keyboard has one key for  *)
(* it.  (With two, letting go of either turns the flag off.)               *)
HeldModifierKnown ==
  whole /\ ~dropped =>
    \A m \in Modifier, k \in seen : KeysOf(m) = {k} => m \in shift

(* The E0 state lasts one byte: between keys none is pending, so the next  *)
(* key is not mistaken for its E0 namesake.                                *)
PrefixConsumed == whole => "E0ESC" \notin shift

(* kern/console.c: "Ctrl-Alt-Del: reboot".  The machine is reset only at a *)
(* press of Delete with a Ctrl and an Alt key down, however the keys were  *)
(* interleaved and however late the kernel reads them; the keypad's `.',   *)
(* which has the same code without E0, never does it.                      *)
RebootOnlyOnCtrlAltDel ==
  [][reboots' # reboots /\ ~dropped =>
       /\ DEL \in seen'
       /\ seen' \cap {LCTL, RCTL} # {}
       /\ seen' \cap {LALT, RALT} # {}]_kbdVars
===========================================================================
