--------------------------- MODULE ConsoleProofs ---------------------------
(***************************************************************************)
(* Console input, for every ring size, every keyboard, every size of its   *)
(* buffer and any number of keys.                                          *)
(*                                                                         *)
(* First the keyboard decoder by itself: the flags follow the keys.  What  *)
(* waits in the keyboard's buffer is cut into the bytes of whole keys; for *)
(* each byte there is a mode the decoder will be in when it gets there,    *)
(* and the set of modifier keys that its flags will then stand for.  Then  *)
(* the ring buffer: its positions never leave the array, and it implements *)
(* LossyFifo.  Then the whole: what the kernel and the two devices do to   *)
(* each is a behaviour of it by itself.                                    *)
(***************************************************************************)
EXTENDS Console, SequenceTheorems, TLAPS

---------------------------------------------------------------------------
(* The keyboard.                                                           *)

Mode == {"idle", "e0", "pause"}
ModKeys == {LCTL, RCTL, LSHIFT, RSHIFT, LALT, RALT}
Mods(H) == H \cap ModKeys

(* The index that the code's tables are asked for.                         *)
Index(mode, b) ==
  IF mode = "e0" THEN (IF b < 128 THEN b + 128 ELSE b)
                 ELSE (IF b < 128 THEN b ELSE b - 128)

(* The flags s stand for the modifier keys w: none is on without a key,    *)
(* and one with a single key is on with it.                                *)
Agrees(s, w) ==
  \A m \in Modifier :
    /\ m \in s => KeysOf(m) \cap w # {}
    /\ \A k \in w : KeysOf(m) = {k} => m \in s

(* The decoder between two bytes.  In the middle of Pause it has Ctrl on,  *)
(* which is no key.  With ok false a key was dropped and the flags may     *)
(* stand for anything.                                                     *)
Rel(s, mode, w, ok) ==
  /\ "E0ESC" \in s <=> mode = "e0"
  /\ ok => Agrees(IF mode = "pause" THEN s \ {"CTL"} ELSE s, w)

(* What a byte of the keyboard can be: from mode and keys m, w to n, v.    *)
IsMute(e, m, w, n, v, ok) ==
  /\ e.byte # 224 /\ shiftcode(Index(m, e.byte)) = {}
  /\ n = IF m = "e0" THEN "idle" ELSE m
  /\ ok => v = w
  /\ e.byte < 128 /\ Index(m, e.byte) = DEL => DEL \in e.held /\ e.last

IsPrefix(e, m, w, n, v, ok) ==
  e.byte = 224 /\ m = "idle" /\ n = "e0" /\ (ok => v = w)

IsPress(e, m, w, n, v, ok) ==
  /\ e.byte < 128 /\ m # "pause" /\ n = "idle"
  /\ Index(m, e.byte) \in Mods(Keys)
  /\ ok => v = w \cup {Index(m, e.byte)}

IsRelease(e, m, w, n, v, ok) ==
  /\ e.byte >= 128 /\ e.byte # 224 /\ m # "pause" /\ n = "idle"
  /\ Index(m, e.byte) \in Mods(Keys)
  /\ ok => v = w \ {Index(m, e.byte)}

IsPauseOn(e, m, w, n, v, ok) ==
  /\ e.byte = 29 /\ m = "idle" /\ n = "pause"
  /\ ok => v = w /\ w \cap {LCTL, RCTL} = {}

IsPauseOff(e, m, w, n, v, ok) ==
  e.byte = 157 /\ m = "pause" /\ n = "idle" /\ (ok => v = w)

Fits(e, m, w, n, v, ok) ==
  /\ \/ IsMute(e, m, w, n, v, ok) \/ IsPrefix(e, m, w, n, v, ok)
     \/ IsPress(e, m, w, n, v, ok) \/ IsRelease(e, m, w, n, v, ok)
     \/ IsPauseOn(e, m, w, n, v, ok) \/ IsPauseOff(e, m, w, n, v, ok)
  /\ e.last => n = "idle" /\ (ok => v = Mods(e.held))

---------------------------------------------------------------------------
(* The decoder.                                                            *)

\* The keys of the modifier flags, by the code's table.
LEMMA ShiftKeys ==
  ASSUME NEW d
  PROVE  /\ d \notin ModKeys <=> shiftcode(d) = {}
         /\ d \in {LSHIFT, RSHIFT} => shiftcode(d) = {"SHIFT"}
         /\ d \in {LCTL, RCTL} => shiftcode(d) = {"CTL"}
         /\ d \in {LALT, RALT} => shiftcode(d) = {"ALT"}
         /\ \A m \in shiftcode(d) : m \in Modifier /\ shiftcode(d) = {m}
BY DEF shiftcode, ModKeys, LSHIFT, RSHIFT, LCTL, RCTL, LALT, RALT, Modifier

\* The lock keys touch no flag but their own.
LEMMA Toggles ==
  ASSUME NEW d
  PROVE  \A f \in Modifier \cup {"E0ESC"} : f \notin togglecode(d)
BY DEF togglecode, Modifier, CAPS

\* What a byte other than the prefix does to the flags that matter.
LEMMA DecodeEffect ==
  ASSUME NEW s, NEW m \in Mode, NEW b \in Byte, b # 224, "E0ESC" \in s <=> m = "e0"
  PROVE  /\ "E0ESC" \notin Decode(s, b).shift
         /\ \A f \in Modifier :
              f \in Decode(s, b).shift <=>
                IF b < 128 THEN f \in s \/ f \in shiftcode(Index(m, b))
                           ELSE f \in s /\ f \notin shiftcode(Index(m, b))
<1> DEFINE d == Index(m, b)
<1>1. \A f \in Modifier : f # "E0ESC" /\ f \in Modifier \cup {"E0ESC"}
  BY DEF Modifier
<1>2. "E0ESC" \notin shiftcode(d)
  BY ShiftKeys, <1>1
<1>3. CASE b < 128
  <2>1. Decode(s, b) = Press(s, b)
    BY <1>3 DEF Decode, Byte
  <2>2. d = IF "E0ESC" \in s THEN b + 128 ELSE b
    BY <1>3 DEF Index
  <2> DEFINE s1 == (s \ {"E0ESC"}) \cup shiftcode(d)
             s2 == (s1 \ togglecode(d)) \cup (togglecode(d) \ s1)
  <2> HIDE DEF d
  <2>3. Press(s, b).shift = s2
    BY <2>2 DEF Press
  <2>4. \A f \in Modifier \cup {"E0ESC"} : f \in s2 <=> f \in s1
    BY Toggles
  <2> QED
    BY <2>1, <2>3, <2>4, <1>1, <1>2, <1>3 DEF d
<1>4. CASE ~(b < 128)
  <2>1. Decode(s, b) = Release(s, b)
    BY <1>4 DEF Decode, Byte
  <2>2. d = IF "E0ESC" \in s THEN b ELSE b - 128
    BY <1>4 DEF Index
  <2> HIDE DEF d
  <2>3. Decode(s, b).shift = s \ (shiftcode(d) \cup {"E0ESC"})
    BY <2>1, <2>2 DEF Release
  <2> QED
    BY <2>3, <1>1, <1>4 DEF d
<1> QED
  BY <1>3, <1>4

\* A modifier flag that stays, comes or goes with its key keeps agreeing.
LEMMA AgreesKept ==
  ASSUME NEW s, NEW t, NEW w, Agrees(s, w), \A f \in Modifier : f \in t <=> f \in s
  PROVE  Agrees(t, w)
BY DEF Agrees

\* A modifier key goes down and its flags are set.
LEMMA AgreesPress ==
  ASSUME NEW s, NEW t, NEW w, NEW d \in Mods(Keys), Agrees(s, w),
         \A f \in Modifier : f \in t <=> f \in s \/ f \in shiftcode(d)
  PROVE  Agrees(t, w \cup {d})
<1> SUFFICES ASSUME NEW m \in Modifier
             PROVE  /\ m \in t => KeysOf(m) \cap (w \cup {d}) # {}
                    /\ \A k \in w \cup {d} : KeysOf(m) = {k} => m \in t
  BY DEF Agrees
<1>1. m \in shiftcode(d) => d \in KeysOf(m)
  BY ShiftKeys DEF KeysOf, Mods
<1>2. d \in KeysOf(m) => m \in shiftcode(d)
  BY DEF KeysOf
<1> QED
  BY <1>1, <1>2 DEF Agrees

\* A modifier key goes up and its flags are cleared.
LEMMA AgreesRelease ==
  ASSUME NEW s, NEW t, NEW w, NEW d \in Mods(Keys), Agrees(s, w),
         \A f \in Modifier : f \in t <=> f \in s /\ f \notin shiftcode(d)
  PROVE  Agrees(t, w \ {d})
<1> SUFFICES ASSUME NEW m \in Modifier
             PROVE  /\ m \in t => KeysOf(m) \cap (w \ {d}) # {}
                    /\ \A k \in w \ {d} : KeysOf(m) = {k} => m \in t
  BY DEF Agrees
<1>1. d \in KeysOf(m) => m \in shiftcode(d)
  BY DEF KeysOf
<1>2. m \in shiftcode(d) => d \in KeysOf(m)
  BY ShiftKeys DEF KeysOf, Mods
<1>3. ASSUME m \in t PROVE KeysOf(m) \cap (w \ {d}) # {}
  BY <1>1, <1>3 DEF Agrees
<1>4. ASSUME NEW k \in w \ {d}, KeysOf(m) = {k} PROVE m \in t
  <2>1. m \in s
    BY <1>4 DEF Agrees
  <2>2. m \notin shiftcode(d)
    BY <1>2, <1>4
  <2> QED
    BY <2>1, <2>2
<1> QED
  BY <1>3, <1>4

(* The decoder keeps up: after a byte it is in the mode, and its flags     *)
(* stand for the keys, that the byte leads to.                             *)
LEMMA DecodeKeepsUp ==
  ASSUME NEW e, e.byte \in Byte, NEW m \in Mode, NEW n \in Mode, NEW s, NEW w, NEW v,
         NEW ok \in BOOLEAN, Rel(s, m, w, ok), Fits(e, m, w, n, v, ok)
  PROVE  Rel(Decode(s, e.byte).shift, n, v, ok)
<1> DEFINE t == Decode(s, e.byte).shift
           d == Index(m, e.byte)
<1>e. "E0ESC" \in s <=> m = "e0"
  BY DEF Rel
<1>c. "CTL" \in Modifier /\ "pause" # "idle" /\ "e0" # "idle" /\ "e0" # "pause"
  BY DEF Modifier
<1>1. CASE IsPrefix(e, m, w, n, v, ok)
  <2>1. t = s \cup {"E0ESC"}
    BY <1>1 DEF IsPrefix, Decode, Prefix
  <2>2. \A f \in Modifier : f \in t <=> f \in s
    BY <2>1 DEF Modifier
  <2>3. ok => Agrees(s, w) /\ v = w /\ n = "e0" /\ m = "idle"
    BY <1>1, <1>c DEF IsPrefix, Rel
  <2>4. ok => Agrees(t, v)
    BY <2>2, <2>3, AgreesKept
  <2> QED
    BY <1>1, <2>1, <2>4, <1>c DEF IsPrefix, Rel
<1>2. ASSUME e.byte # 224
      PROVE  /\ "E0ESC" \notin t
             /\ \A f \in Modifier : f \in t <=>
                  IF e.byte < 128 THEN f \in s \/ f \in shiftcode(d)
                                  ELSE f \in s /\ f \notin shiftcode(d)
  BY <1>2, <1>e, DecodeEffect
<1> HIDE DEF t, d
<1>3. CASE IsMute(e, m, w, n, v, ok)
  <2>1. e.byte # 224 /\ shiftcode(d) = {} /\ n # "e0" /\ (n = "pause" <=> m = "pause")
    BY <1>3, <1>c DEF IsMute, d, Mode
  <2>2. "E0ESC" \notin t /\ \A f \in Modifier : f \in t <=> f \in s
    BY <1>2, <2>1
  <2>3. ok => v = w
    BY <1>3 DEF IsMute
  <2>4. CASE m = "pause"
    <3>1. ok => Agrees(s \ {"CTL"}, w)
      BY <2>4 DEF Rel
    <3>2. \A f \in Modifier : f \in t \ {"CTL"} <=> f \in s \ {"CTL"}
      BY <2>2
    <3>3. ok => Agrees(t \ {"CTL"}, w)
      BY <3>1, <3>2, AgreesKept
    <3> QED
      BY <3>3, <2>1, <2>2, <2>3, <2>4 DEF Rel, t
  <2>5. CASE m # "pause"
    <3>1. ok => Agrees(s, w)
      BY <2>5 DEF Rel
    <3>2. ok => Agrees(t, w)
      BY <3>1, <2>2, AgreesKept
    <3> QED
      BY <3>2, <2>1, <2>2, <2>3, <2>5 DEF Rel, t
  <2> QED
    BY <2>4, <2>5
<1>4. CASE IsPress(e, m, w, n, v, ok)
  <2>1. e.byte < 128 /\ e.byte # 224 /\ m # "pause" /\ n = "idle" /\ d \in Mods(Keys)
    BY <1>4 DEF IsPress, d, Byte
  <2>2. "E0ESC" \notin t /\ \A f \in Modifier : f \in t <=> f \in s \/ f \in shiftcode(d)
    BY <1>2, <2>1
  <2>3. ok => Agrees(s, w) /\ v = w \cup {d}
    BY <2>1, <1>4 DEF Rel, IsPress, d
  <2>4. ok => Agrees(t, v)
    BY <2>1, <2>2, <2>3, AgreesPress
  <2> QED
    BY <2>1, <2>2, <2>4, <1>c DEF Rel, t
<1>5. CASE IsRelease(e, m, w, n, v, ok)
  <2>1. ~(e.byte < 128) /\ e.byte # 224 /\ m # "pause" /\ n = "idle" /\ d \in Mods(Keys)
    BY <1>5 DEF IsRelease, d, Byte
  <2>2. "E0ESC" \notin t /\ \A f \in Modifier : f \in t <=> f \in s /\ f \notin shiftcode(d)
    BY <1>2, <2>1
  <2>3. ok => Agrees(s, w) /\ v = w \ {d}
    BY <2>1, <1>5 DEF Rel, IsRelease, d
  <2>4. ok => Agrees(t, v)
    BY <2>1, <2>2, <2>3, AgreesRelease
  <2> QED
    BY <2>1, <2>2, <2>4, <1>c DEF Rel, t
<1>6. CASE IsPauseOn(e, m, w, n, v, ok)
  <2>1. e.byte = 29 /\ m = "idle" /\ n = "pause"
    BY <1>6 DEF IsPauseOn
  <2>2. d \in {LCTL, RCTL}
    BY <2>1, <1>c DEF d, Index, LCTL
  <2>3. shiftcode(d) = {"CTL"}
    BY <2>2, ShiftKeys
  <2>4. "E0ESC" \notin t /\ \A f \in Modifier : f \in t <=> f \in s \/ f = "CTL"
    BY <1>2, <2>1, <2>3
  <2>5. ok => Agrees(s, w) /\ v = w /\ w \cap {LCTL, RCTL} = {}
    BY <2>1, <1>6, <1>c DEF Rel, IsPauseOn
  <2>6. KeysOf("CTL") \subseteq {LCTL, RCTL}
    BY DEF KeysOf, shiftcode, Modifier
  <2>7. ok => "CTL" \notin s
    BY <2>5, <2>6, <1>c DEF Agrees
  <2>8. ok => \A f \in Modifier : f \in t \ {"CTL"} <=> f \in s
    BY <2>4, <2>7
  <2>9. ok => Agrees(t \ {"CTL"}, v)
    BY <2>5, <2>8, AgreesKept
  <2> QED
    BY <2>1, <2>4, <2>9, <1>c DEF Rel, t
<1>7. CASE IsPauseOff(e, m, w, n, v, ok)
  <2>1. e.byte = 157 /\ m = "pause" /\ n = "idle"
    BY <1>7 DEF IsPauseOff
  <2>2. d \in {LCTL, RCTL}
    BY <2>1, <1>c DEF d, Index, LCTL
  <2>3. shiftcode(d) = {"CTL"}
    BY <2>2, ShiftKeys
  <2>4. "E0ESC" \notin t /\ \A f \in Modifier : f \in t <=> f \in s \ {"CTL"}
    BY <1>2, <2>1, <2>3
  <2>5. ok => Agrees(s \ {"CTL"}, w) /\ v = w
    BY <2>1, <1>7, <1>c DEF Rel, IsPauseOff
  <2>6. ok => Agrees(t, v)
    BY <2>4, <2>5, AgreesKept
  <2> QED
    BY <2>1, <2>4, <2>6, <1>c DEF Rel, t
<1> QED
  BY <1>1, <1>3, <1>4, <1>5, <1>6, <1>7 DEF Fits, t

---------------------------------------------------------------------------
(* The keyboard.                                                           *)

Entry(bytes, down, p) == [byte |-> bytes[p], held |-> down, last |-> p = Len(bytes)]

Entries(bytes, down) == [p \in 1 .. Len(bytes) |-> Entry(bytes, down, p)]

(* The bytes of one key event, the modifier keys w being down before it    *)
(* and the keys `down' after it.                                           *)
Runs(bytes, w, down, ok) ==
  \E ms \in [1 .. Len(bytes) + 1 -> Mode], ws \in [1 .. Len(bytes) + 1 -> SUBSET ModKeys] :
    /\ ms[1] = "idle" /\ ws[1] = w
    /\ ms[Len(bytes) + 1] = "idle" /\ ws[Len(bytes) + 1] = Mods(down)
    /\ \A p \in 1 .. Len(bytes) :
         Fits(Entry(bytes, down, p), ms[p], ws[p], ms[p + 1], ws[p + 1], ok)

\* The keys that are not modifiers leave the modifiers as they are.
LEMMA OtherKeys ==
  ASSUME NEW k, NEW H, shiftcode(k) = {}
  PROVE  Mods(H \cup {k}) = Mods(H) /\ Mods(H \ {k}) = Mods(H)
BY ShiftKeys DEF Mods

\* The modifiers come and go with their keys.
LEMMA ModifierKeys ==
  ASSUME NEW k, NEW H, shiftcode(k) # {}
  PROVE  /\ k \in ModKeys
         /\ Mods(H \cup {k}) = Mods(H) \cup {k} /\ Mods(H \ {k}) = Mods(H) \ {k}
BY ShiftKeys DEF Mods

\* A key whose press or release is one byte.
LEMMA OneByte ==
  ASSUME NEW b, NEW w \in SUBSET ModKeys, NEW down, NEW ok \in BOOLEAN,
         Fits([byte |-> b, held |-> down, last |-> TRUE], "idle", w, "idle", Mods(down), ok)
  PROVE  Runs(<<b>>, w, down, ok)
<1> DEFINE ms == [p \in 1 .. 2 |-> "idle"]
           ws == [p \in 1 .. 2 |-> IF p = 1 THEN w ELSE Mods(down)]
<1>1. Len(<<b>>) = 1 /\ <<b>>[1] = b
  OBVIOUS
<1>2. ms \in [1 .. 2 -> Mode] /\ ws \in [1 .. 2 -> SUBSET ModKeys]
  BY DEF Mode, Mods
<1>3. ms[1] = "idle" /\ ms[2] = "idle" /\ ws[1] = w /\ ws[2] = Mods(down)
  OBVIOUS
<1>4. Entry(<<b>>, down, 1) = [byte |-> b, held |-> down, last |-> TRUE]
  BY <1>1 DEF Entry
<1> HIDE DEF ms, ws
<1>5. \A p \in 1 .. 1 : Fits(Entry(<<b>>, down, p), ms[p], ws[p], ms[p + 1], ws[p + 1], ok)
  BY <1>3, <1>4
<1> QED
  BY <1>1, <1>2, <1>3, <1>5 DEF Runs

\* A key whose code comes behind the prefix.
LEMMA TwoBytes ==
  ASSUME NEW b, NEW w \in SUBSET ModKeys, NEW down, NEW ok \in BOOLEAN,
         Fits([byte |-> b, held |-> down, last |-> TRUE], "e0", w, "idle", Mods(down), ok)
  PROVE  Runs(<<224, b>>, w, down, ok)
<1> DEFINE bs == <<224, b>>
           ms == [p \in 1 .. 3 |-> IF p = 2 THEN "e0" ELSE "idle"]
           ws == [p \in 1 .. 3 |-> IF p = 3 THEN Mods(down) ELSE w]
<1>1. Len(bs) = 2 /\ bs[1] = 224 /\ bs[2] = b
  OBVIOUS
<1>2. ms \in [1 .. 3 -> Mode] /\ ws \in [1 .. 3 -> SUBSET ModKeys]
  BY DEF Mode, Mods
<1>3. /\ ms[1] = "idle" /\ ms[2] = "e0" /\ ms[3] = "idle"
      /\ ws[1] = w /\ ws[2] = w /\ ws[3] = Mods(down)
  OBVIOUS
<1> HIDE DEF ms, ws, bs
<1>4. /\ Entry(bs, down, 1) = [byte |-> 224, held |-> down, last |-> FALSE]
      /\ Entry(bs, down, 2) = [byte |-> b, held |-> down, last |-> TRUE]
  <2>1. (1 = Len(bs)) = FALSE /\ (2 = Len(bs)) = TRUE
    BY <1>1
  <2> QED
    BY <1>1, <2>1, Zenon DEF Entry
<1>5. Fits(Entry(bs, down, 1), ms[1], ws[1], ms[2], ws[2], ok)
  BY <1>3, <1>4 DEF Fits, IsPrefix
<1>6. Fits(Entry(bs, down, 2), ms[2], ws[2], ms[3], ws[3], ok)
  BY <1>3, <1>4
<1>7. \A p \in 1 .. 2 : Fits(Entry(bs, down, p), ms[p], ws[p], ms[p + 1], ws[p + 1], ok)
  <2>1. \A p \in 1 .. 2 : (p = 1 /\ p + 1 = 2) \/ (p = 2 /\ p + 1 = 3)
    OBVIOUS
  <2> QED
    BY <1>5, <1>6, <2>1
<1>8. Runs(bs, w, down, ok)
  BY <1>1, <1>2, <1>3, <1>7 DEF Runs
<1> QED
  BY <1>8 DEF bs

\* A key of the cursor block, with a fake shift before or behind its code.
LEMMA FourBytes ==
  ASSUME NEW b \in Byte, NEW c \in Byte, NEW w \in SUBSET ModKeys, NEW down, NEW ok \in BOOLEAN,
         b # 224, c # 224, ok => w = Mods(down),
         shiftcode(Index("e0", b)) = {}, shiftcode(Index("e0", c)) = {},
         b < 128 => Index("e0", b) # DEL,
         c < 128 /\ Index("e0", c) = DEL => DEL \in down
  PROVE  Runs(<<224, b, 224, c>>, w, down, ok)
<1> DEFINE bs == <<224, b, 224, c>>
           ms == [p \in 1 .. 5 |-> IF p \in {2, 4} THEN "e0" ELSE "idle"]
           ws == [p \in 1 .. 5 |-> IF p = 5 THEN Mods(down) ELSE w]
<1>1. Len(bs) = 4 /\ bs[1] = 224 /\ bs[2] = b /\ bs[3] = 224 /\ bs[4] = c
  OBVIOUS
<1>2. ms \in [1 .. 5 -> Mode] /\ ws \in [1 .. 5 -> SUBSET ModKeys]
  BY DEF Mode, Mods
<1>3. /\ ms[1] = "idle" /\ ms[2] = "e0" /\ ms[3] = "idle" /\ ms[4] = "e0" /\ ms[5] = "idle"
      /\ ws[1] = w /\ ws[2] = w /\ ws[3] = w /\ ws[4] = w /\ ws[5] = Mods(down)
  OBVIOUS
<1> HIDE DEF ms, ws, bs
<1>4. /\ Entry(bs, down, 1) = [byte |-> 224, held |-> down, last |-> FALSE]
      /\ Entry(bs, down, 2) = [byte |-> b, held |-> down, last |-> FALSE]
      /\ Entry(bs, down, 3) = [byte |-> 224, held |-> down, last |-> FALSE]
      /\ Entry(bs, down, 4) = [byte |-> c, held |-> down, last |-> TRUE]
  <2>1. /\ (1 = Len(bs)) = FALSE /\ (2 = Len(bs)) = FALSE
        /\ (3 = Len(bs)) = FALSE /\ (4 = Len(bs)) = TRUE
    BY <1>1
  <2> QED
    BY <1>1, <2>1, Zenon DEF Entry
<1>5. Fits(Entry(bs, down, 1), ms[1], ws[1], ms[2], ws[2], ok)
  BY <1>3, <1>4 DEF Fits, IsPrefix
<1>6. Fits(Entry(bs, down, 2), ms[2], ws[2], ms[3], ws[3], ok)
  BY <1>3, <1>4 DEF Fits, IsMute
<1>7. Fits(Entry(bs, down, 3), ms[3], ws[3], ms[4], ws[4], ok)
  BY <1>3, <1>4 DEF Fits, IsPrefix
<1>8. Fits(Entry(bs, down, 4), ms[4], ws[4], ms[5], ws[5], ok)
  BY <1>3, <1>4 DEF Fits, IsMute
<1>9. \A p \in 1 .. 4 : Fits(Entry(bs, down, p), ms[p], ws[p], ms[p + 1], ws[p + 1], ok)
  <2>1. \A p \in 1 .. 4 : \/ p = 1 /\ p + 1 = 2
                          \/ p = 2 /\ p + 1 = 3
                          \/ p = 3 /\ p + 1 = 4
                          \/ p = 4 /\ p + 1 = 5
    OBVIOUS
  <2> QED
    BY <1>5, <1>6, <1>7, <1>8, <2>1
<1>10. Runs(bs, w, down, ok)
  BY <1>1, <1>2, <1>3, <1>9 DEF Runs
<1> QED
  BY <1>10 DEF bs

\* Pause, no Ctrl being down: Ctrl and NumLock come and go inside it.
LEMMA PauseBytes ==
  ASSUME NEW w \in SUBSET ModKeys, NEW down, NEW ok \in BOOLEAN,
         ok => w = Mods(down) /\ w \cap {LCTL, RCTL} = {}
  PROVE  Runs(<<225, 29, 69, 225, 157, 197>>, w, down, ok)
<1> DEFINE bs == <<225, 29, 69, 225, 157, 197>>
           ms == [p \in 1 .. 7 |-> IF p \in {3, 4, 5} THEN "pause" ELSE "idle"]
           ws == [p \in 1 .. 7 |-> IF p = 7 THEN Mods(down) ELSE w]
           e(b, last) == [byte |-> b, held |-> down, last |-> last]
<1>1. /\ Len(bs) = 6 /\ bs[1] = 225 /\ bs[2] = 29 /\ bs[3] = 69
      /\ bs[4] = 225 /\ bs[5] = 157 /\ bs[6] = 197
  OBVIOUS
<1>2. ms \in [1 .. 7 -> Mode] /\ ws \in [1 .. 7 -> SUBSET ModKeys]
  BY DEF Mode, Mods
<1>3. /\ ms[1] = "idle" /\ ms[2] = "idle" /\ ms[3] = "pause" /\ ms[4] = "pause"
      /\ ms[5] = "pause" /\ ms[6] = "idle" /\ ms[7] = "idle"
      /\ ws[1] = w /\ ws[2] = w /\ ws[3] = w /\ ws[4] = w /\ ws[5] = w /\ ws[6] = w
      /\ ws[7] = Mods(down)
  OBVIOUS
<1> HIDE DEF ms, ws, bs
<1>4. /\ Entry(bs, down, 1) = e(225, FALSE) /\ Entry(bs, down, 2) = e(29, FALSE)
      /\ Entry(bs, down, 3) = e(69, FALSE) /\ Entry(bs, down, 4) = e(225, FALSE)
      /\ Entry(bs, down, 5) = e(157, FALSE) /\ Entry(bs, down, 6) = e(197, TRUE)
  <2>1. /\ (1 = Len(bs)) = FALSE /\ (2 = Len(bs)) = FALSE
        /\ (3 = Len(bs)) = FALSE /\ (4 = Len(bs)) = FALSE
        /\ (5 = Len(bs)) = FALSE /\ (6 = Len(bs)) = TRUE
    BY <1>1
  <2> QED
    BY <1>1, <2>1, Zenon DEF Entry
<1>5. /\ Index("idle", 225) = 97 /\ Index("pause", 225) = 97
      /\ Index("pause", 69) = 69 /\ Index("idle", 197) = 69
  BY DEF Index
<1>6. shiftcode(97) = {} /\ shiftcode(69) = {}
  BY ShiftKeys DEF ModKeys, LCTL, RCTL, LSHIFT, RSHIFT, LALT, RALT
<1>7. Fits(e(225, FALSE), "idle", w, "idle", w, ok)
  BY <1>5, <1>6 DEF Fits, IsMute
<1>8. Fits(e(29, FALSE), "idle", w, "pause", w, ok)
  BY DEF Fits, IsPauseOn
<1>9. Fits(e(69, FALSE), "pause", w, "pause", w, ok)
  BY <1>5, <1>6 DEF Fits, IsMute, DEL
<1>10. Fits(e(225, FALSE), "pause", w, "pause", w, ok)
  BY <1>5, <1>6 DEF Fits, IsMute
<1>11. Fits(e(157, FALSE), "pause", w, "idle", w, ok)
  BY DEF Fits, IsPauseOff
<1>12. Fits(e(197, TRUE), "idle", w, "idle", Mods(down), ok)
  BY <1>5, <1>6 DEF Fits, IsMute
<1>13. \A p \in 1 .. 6 : Fits(Entry(bs, down, p), ms[p], ws[p], ms[p + 1], ws[p + 1], ok)
  <2>1. \A p \in 1 .. 6 : \/ p = 1 /\ p + 1 = 2
                          \/ p = 2 /\ p + 1 = 3
                          \/ p = 3 /\ p + 1 = 4
                          \/ p = 4 /\ p + 1 = 5
                          \/ p = 5 /\ p + 1 = 6
                          \/ p = 6 /\ p + 1 = 7
    OBVIOUS
  <2>2. Fits(Entry(bs, down, 1), ms[1], ws[1], ms[2], ws[2], ok)
    BY <1>3, <1>4, <1>7
  <2>3. Fits(Entry(bs, down, 2), ms[2], ws[2], ms[3], ws[3], ok)
    BY <1>3, <1>4, <1>8
  <2>4. Fits(Entry(bs, down, 3), ms[3], ws[3], ms[4], ws[4], ok)
    BY <1>3, <1>4, <1>9
  <2>5. Fits(Entry(bs, down, 4), ms[4], ws[4], ms[5], ws[5], ok)
    BY <1>3, <1>4, <1>10
  <2>6. Fits(Entry(bs, down, 5), ms[5], ws[5], ms[6], ws[6], ok)
    BY <1>3, <1>4, <1>11
  <2>7. Fits(Entry(bs, down, 6), ms[6], ws[6], ms[7], ws[7], ok)
    BY <1>3, <1>4, <1>12
  <2> QED
    BY <2>1, <2>2, <2>3, <2>4, <2>5, <2>6, <2>7
<1>14. Runs(bs, w, down, ok)
  BY <1>1, <1>2, <1>3, <1>13 DEF Runs
<1> QED
  BY <1>14 DEF bs

\* The keys of the cursor block are no modifiers, nor are the fake shifts.
LEMMA NoModifiers ==
  /\ shiftcode(HOME) = {} /\ shiftcode(DEL) = {} /\ shiftcode(PAUSE) = {}
  /\ shiftcode(170) = {}
BY ShiftKeys DEF HOME, DEL, PAUSE, ModKeys, LCTL, RCTL, LSHIFT, RSHIFT, LALT, RALT

(* The bytes of a press, or a repeat, are those of one key event.          *)
LEMMA MakeRuns ==
  ASSUME NEW k \in Keys, NEW w \in SUBSET ModKeys, NEW ok \in BOOLEAN,
         ok => w = Mods(held), k = PAUSE => held \cap {LCTL, RCTL} = {}
  PROVE  Runs(MakeBytes(k), w, held \cup {k}, ok)
<1> DEFINE down == held \cup {k}
<1>k. k \in 0 .. 255 /\ k # 96 /\ k # 224
  BY KeyboardAssumption
<1>1. CASE k = PAUSE
  <2>1. Mods(down) = Mods(held)
    BY <1>1, NoModifiers, OtherKeys
  <2>2. ok => w = Mods(down) /\ w \cap {LCTL, RCTL} = {}
    BY <2>1, <1>1 DEF Mods
  <2>3. MakeBytes(k) = <<225, 29, 69, 225, 157, 197>>
    BY <1>1 DEF MakeBytes, Wrapped, E0, PAUSE, HOME, DEL
  <2> HIDE DEF down
  <2>4. Runs(<<225, 29, 69, 225, 157, 197>>, w, down, ok)
    BY <2>2, PauseBytes
  <2> QED
    BY <2>3, <2>4 DEF down
<1>2. CASE Wrapped(k)
  <2>1. k \in {HOME, DEL} /\ shiftcode(k) = {}
    BY <1>2, NoModifiers DEF Wrapped
  <2>2. ok => w = Mods(down)
    BY <2>1, OtherKeys
  <2>3. MakeBytes(k) = <<224, 170, 224, k - 128>>
    BY <1>2 DEF MakeBytes, Wrapped, E0, PAUSE, HOME, DEL
  <2>4. k - 128 \in Byte /\ k - 128 < 128 /\ k - 128 # 224 /\ Index("e0", k - 128) = k
    BY <2>1 DEF Byte, HOME, DEL, Index
  <2>5. Index("e0", 170) = 170 /\ 170 \in Byte /\ 170 # 224 /\ ~(170 < 128)
    BY DEF Index, Byte
  <2>6. DEL = k => DEL \in down
    OBVIOUS
  <2> HIDE DEF down
  <2>7. Runs(<<224, 170, 224, k - 128>>, w, down, ok)
    BY <2>1, <2>2, <2>4, <2>5, <2>6, NoModifiers, FourBytes
  <2> QED
    BY <2>3, <2>7 DEF down
<1>3. CASE E0(k) /\ ~Wrapped(k)
  <2>1. k >= 128 /\ MakeBytes(k) = <<224, k - 128>>
    BY <1>3, <1>k DEF MakeBytes, E0
  <2> DEFINE b == k - 128
             e == [byte |-> b, held |-> down, last |-> TRUE]
  <2>2. b \in 0 .. 127 /\ Index("e0", b) = k
    BY <2>1, <1>k DEF Index
  <2>3. k \in down
    OBVIOUS
  <2> HIDE DEF b, down
  <2>4. CASE shiftcode(k) = {}
    <3>1. ok => Mods(down) = w
      BY <2>4, OtherKeys DEF down
    <3>2. IsMute(e, "e0", w, "idle", Mods(down), ok)
      BY <2>2, <2>3, <2>4, <3>1 DEF IsMute
    <3> QED
      BY <3>2, <2>1, TwoBytes DEF Fits, b, down
  <2>5. CASE shiftcode(k) # {}
    <3>1. k \in Mods(Keys) /\ (ok => Mods(down) = w \cup {k})
      BY <2>5, ModifierKeys DEF down, Mods
    <3>2. IsPress(e, "e0", w, "idle", Mods(down), ok)
      BY <2>2, <3>1 DEF IsPress
    <3> QED
      BY <3>2, <2>1, TwoBytes DEF Fits, b, down
  <2> QED
    BY <2>4, <2>5
<1>4. CASE k < 128
  <2>1. MakeBytes(k) = <<k>>
    BY <1>4 DEF MakeBytes, Wrapped, E0, PAUSE, HOME, DEL
  <2> DEFINE e == [byte |-> k, held |-> down, last |-> TRUE]
  <2>2. k \in 0 .. 127 /\ Index("idle", k) = k /\ k # DEL
    BY <1>4, <1>k DEF Index, DEL
  <2> HIDE DEF down
  <2>4. CASE shiftcode(k) = {}
    <3>1. ok => Mods(down) = w
      BY <2>4, OtherKeys DEF down
    <3>2. IsMute(e, "idle", w, "idle", Mods(down), ok)
      BY <2>2, <2>4, <3>1 DEF IsMute
    <3> QED
      BY <3>2, <2>1, OneByte DEF Fits, down
  <2>5. CASE shiftcode(k) # {}
    <3>1. k \in Mods(Keys) /\ (ok => Mods(down) = w \cup {k})
      BY <2>5, ModifierKeys DEF down, Mods
    <3>2. IsPress(e, "idle", w, "idle", Mods(down), ok)
      BY <2>2, <3>1 DEF IsPress
    <3> QED
      BY <3>2, <2>1, OneByte DEF Fits, down
  <2> QED
    BY <2>4, <2>5
<1> QED
  BY <1>1, <1>2, <1>3, <1>4, <1>k DEF E0

(* The bytes of a release, too.                                            *)
LEMMA BreakRuns ==
  ASSUME NEW k \in Keys, k # PAUSE, NEW w \in SUBSET ModKeys, NEW ok \in BOOLEAN,
         ok => w = Mods(held)
  PROVE  Runs(BreakBytes(k), w, held \ {k}, ok)
<1> DEFINE down == held \ {k}
<1>k. k \in 0 .. 255 /\ k # 96 /\ k # 224
  BY KeyboardAssumption
<1>2. CASE Wrapped(k)
  <2>1. k \in {HOME, DEL} /\ shiftcode(k) = {}
    BY <1>2, NoModifiers DEF Wrapped
  <2>2. ok => w = Mods(down)
    BY <2>1, OtherKeys
  <2>3. BreakBytes(k) = <<224, k, 224, 42>>
    BY <1>2 DEF BreakBytes, Wrapped, E0, PAUSE, HOME, DEL
  <2>4. k \in Byte /\ ~(k < 128) /\ k # 224 /\ Index("e0", k) = k
    BY <2>1 DEF Byte, HOME, DEL, Index
  <2>5. Index("e0", 42) = 170 /\ 42 \in Byte /\ 42 # 224 /\ 170 # DEL
    BY DEF Index, Byte, DEL
  <2> HIDE DEF down
  <2>7. Runs(<<224, k, 224, 42>>, w, down, ok)
    BY <2>1, <2>2, <2>4, <2>5, NoModifiers, FourBytes
  <2> QED
    BY <2>3, <2>7 DEF down
<1>3. CASE E0(k) /\ ~Wrapped(k)
  <2>1. k >= 128 /\ BreakBytes(k) = <<224, k>>
    BY <1>3, <1>k DEF BreakBytes, E0
  <2> DEFINE e == [byte |-> k, held |-> down, last |-> TRUE]
  <2>2. k \in 128 .. 255 /\ k # 224 /\ Index("e0", k) = k
    BY <2>1, <1>k DEF Index
  <2> HIDE DEF down
  <2>4. CASE shiftcode(k) = {}
    <3>1. ok => Mods(down) = w
      BY <2>4, OtherKeys DEF down
    <3>2. IsMute(e, "e0", w, "idle", Mods(down), ok)
      BY <2>2, <2>4, <3>1 DEF IsMute
    <3> QED
      BY ZenonT(60), <3>2, <2>1, TwoBytes DEF Fits, down
  <2>5. CASE shiftcode(k) # {}
    <3>1. k \in Mods(Keys) /\ (ok => Mods(down) = w \ {k})
      BY <2>5, ModifierKeys DEF down, Mods
    <3>2. IsRelease(e, "e0", w, "idle", Mods(down), ok)
      BY <2>2, <3>1 DEF IsRelease
    <3> QED
      BY <3>2, <2>1, TwoBytes DEF Fits, down
  <2> QED
    BY <2>4, <2>5
<1>4. CASE k < 128
  <2>1. BreakBytes(k) = <<k + 128>>
    BY <1>4 DEF BreakBytes, Wrapped, E0, PAUSE, HOME, DEL
  <2> DEFINE b == k + 128
             e == [byte |-> b, held |-> down, last |-> TRUE]
  <2>2. b \in 128 .. 255 /\ b # 224 /\ Index("idle", b) = k
    BY <1>4, <1>k DEF Index
  <2> HIDE DEF down, b
  <2>4. CASE shiftcode(k) = {}
    <3>1. ok => Mods(down) = w
      BY <2>4, OtherKeys DEF down
    <3>2. IsMute(e, "idle", w, "idle", Mods(down), ok)
      BY <2>2, <2>4, <3>1 DEF IsMute
    <3> QED
      BY <3>2, <2>1, OneByte DEF Fits, down, b
  <2>5. CASE shiftcode(k) # {}
    <3>1. k \in Mods(Keys) /\ (ok => Mods(down) = w \ {k})
      BY <2>5, ModifierKeys DEF down, Mods
    <3>2. IsRelease(e, "idle", w, "idle", Mods(down), ok)
      BY <2>2, <3>1 DEF IsRelease
    <3> QED
      BY <3>2, <2>1, OneByte DEF Fits, down, b
  <2> QED
    BY <2>4, <2>5
<1> QED
  BY <1>2, <1>3, <1>4, <1>k DEF E0

---------------------------------------------------------------------------
(* The keyboard's buffer.                                                  *)

Bytes == [byte : Byte, held : SUBSET Keys, last : BOOLEAN]

(* The modes ms and keys ws that the bytes q lead the decoder through, to  *)
(* the keys h.                                                             *)
Planned(q, ms, ws, h, ok) ==
  /\ ms \in [1 .. Len(q) + 1 -> Mode] /\ ws \in [1 .. Len(q) + 1 -> SUBSET ModKeys]
  /\ \A p \in 1 .. Len(q) : Fits(q[p], ms[p], ws[p], ms[p + 1], ws[p + 1], ok)
  /\ ms[Len(q) + 1] = "idle" /\ (ok => ws[Len(q) + 1] = Mods(h))

\* A key is dropped: nothing is said about the keys any more.
LEMMA FitsDropped ==
  ASSUME NEW e, NEW m, NEW w, NEW n, NEW v, NEW ok, Fits(e, m, w, n, v, ok)
  PROVE  Fits(e, m, w, n, v, FALSE)
BY DEF Fits, IsMute, IsPrefix, IsPress, IsRelease, IsPauseOn, IsPauseOff

\* So does a plan.
LEMMA PlanDropped ==
  ASSUME NEW q, NEW ms, NEW ws, NEW h, NEW g, NEW ok, Planned(q, ms, ws, h, ok)
  PROVE  Planned(q, ms, ws, g, FALSE)
BY FitsDropped DEF Planned

\* The first byte is taken.
LEMMA PlanShrinks ==
  ASSUME NEW q \in Seq(Bytes), q # << >>, NEW ms, NEW ws, NEW h, NEW ok,
         Planned(q, ms, ws, h, ok)
  PROVE  /\ Fits(Head(q), ms[1], ws[1], ms[2], ws[2], ok)
         /\ ms[1] \in Mode /\ ms[2] \in Mode
         /\ \E ns, vs : Planned(Tail(q), ns, vs, h, ok) /\ ns[1] = ms[2] /\ vs[1] = ws[2]
<1> DEFINE n == Len(q)
           ns == [p \in 1 .. n |-> ms[p + 1]]
           vs == [p \in 1 .. n |-> ws[p + 1]]
<1>1. n \in Nat \ {0} /\ Len(Tail(q)) = n - 1 /\ Head(q) = q[1]
      /\ \A p \in 1 .. n - 1 : Tail(q)[p] = q[p + 1]
  OBVIOUS
<1>2. Fits(Head(q), ms[1], ws[1], ms[2], ws[2], ok) /\ ms[1] \in Mode /\ ms[2] \in Mode
  <2>1. 1 \in 1 .. n /\ 1 \in 1 .. n + 1 /\ 2 \in 1 .. n + 1 /\ 1 + 1 = 2
    BY <1>1
  <2> HIDE DEF n
  <2>2. ms \in [1 .. n + 1 -> Mode] /\ Fits(q[1], ms[1], ws[1], ms[1 + 1], ws[1 + 1], ok)
    BY <2>1 DEF Planned, n
  <2> QED
    BY <1>1, <2>1, <2>2
<1>3. \A p \in 1 .. n : p + 1 \in 1 .. n + 1
  BY <1>1
<1>4. ns \in [1 .. n -> Mode] /\ vs \in [1 .. n -> SUBSET ModKeys]
  BY <1>3 DEF Planned
<1>5. ASSUME NEW p \in 1 .. n - 1
      PROVE  Fits(Tail(q)[p], ns[p], vs[p], ns[p + 1], vs[p + 1], ok)
  <2>1. p \in 1 .. n /\ p + 1 \in 1 .. n
    BY <1>1
  <2>2. ns[p] = ms[p + 1] /\ vs[p] = ws[p + 1]
        /\ ns[p + 1] = ms[(p + 1) + 1] /\ vs[p + 1] = ws[(p + 1) + 1]
    BY <2>1
  <2>3. Tail(q)[p] = q[p + 1]
    BY <1>1
  <2>4. Fits(q[p + 1], ms[p + 1], ws[p + 1], ms[(p + 1) + 1], ws[(p + 1) + 1], ok)
    BY <2>1 DEF Planned
  <2> HIDE DEF ns, vs
  <2> QED
    BY <2>2, <2>3, <2>4
<1>6. ns[n] = ms[n + 1] /\ vs[n] = ws[n + 1] /\ ns[1] = ms[2] /\ vs[1] = ws[2]
  BY <1>1
<1>7. ms[n + 1] = "idle" /\ (ok => ws[n + 1] = Mods(h))
  BY DEF Planned
<1> HIDE DEF ns, vs, n
<1>8. (n - 1) + 1 = n
  BY <1>1
<1>9. Planned(Tail(q), ns, vs, h, ok)
  BY <1>1, <1>4, <1>5, <1>6, <1>7, <1>8 DEF Planned
<1> QED
  BY <1>2, <1>6, <1>9

\* The bytes of a key event are added.
LEMMA PlanExtends ==
  ASSUME NEW q \in Seq(Bytes), NEW ms, NEW ws, NEW h, NEW ok, Planned(q, ms, ws, h, ok),
         NEW b \in Seq(Byte), NEW down, Runs(b, ws[Len(q) + 1], down, ok)
  PROVE  \E ns, vs :
           /\ Planned(q \o Entries(b, down), ns, vs, down, ok)
           /\ ns[1] = ms[1] /\ vs[1] = ws[1]
<1> DEFINE n == Len(q)
           L == Len(b)
           es == Entries(b, down)
<1>1. n \in Nat /\ L \in Nat
  OBVIOUS
<1>2. Len(es) = L /\ Len(q \o es) = n + L
  BY DEF Entries
<1>3. /\ \A p \in 1 .. n : (q \o es)[p] = q[p]
      /\ \A p \in n + 1 .. n + L : (q \o es)[p] = Entry(b, down, p - n)
  BY DEF Entries
<1>4. PICK rs \in [1 .. L + 1 -> Mode], us \in [1 .. L + 1 -> SUBSET ModKeys] :
        /\ rs[1] = "idle" /\ us[1] = ws[n + 1]
        /\ rs[L + 1] = "idle" /\ us[L + 1] = Mods(down)
        /\ \A p \in 1 .. L : Fits(Entry(b, down, p), rs[p], us[p], rs[p + 1], us[p + 1], ok)
  BY DEF Runs
<1> DEFINE qe == q \o es
           ns == [p \in 1 .. n + L + 1 |-> IF p <= n THEN ms[p] ELSE rs[p - n]]
           vs == [p \in 1 .. n + L + 1 |-> IF p <= n THEN ws[p] ELSE us[p - n]]
<1> HIDE DEF n, L, es, qe
<1>5. ms \in [1 .. n + 1 -> Mode] /\ ws \in [1 .. n + 1 -> SUBSET ModKeys] /\ ms[n + 1] = "idle"
  BY DEF Planned, n
<1>6. ns \in [1 .. n + L + 1 -> Mode] /\ vs \in [1 .. n + L + 1 -> SUBSET ModKeys]
  <2>1. \A p \in 1 .. n + L + 1 : p <= n \/ p - n \in 1 .. L + 1
    BY <1>1
  <2>2. \A p \in 1 .. n + L + 1 : p <= n => p \in 1 .. n + 1
    BY <1>1
  <2> QED
    BY <2>1, <2>2, <1>4, <1>5
<1>7. /\ \A p \in 1 .. n + 1 : ns[p] = ms[p] /\ vs[p] = ws[p]
      /\ \A p \in n + 1 .. n + L + 1 : ns[p] = rs[p - n] /\ vs[p] = us[p - n]
  <2>1. ASSUME NEW p \in 1 .. n PROVE ns[p] = ms[p] /\ vs[p] = ws[p]
    BY <1>1
  <2>2. ASSUME NEW p \in n + 1 .. n + L + 1 PROVE ns[p] = rs[p - n] /\ vs[p] = us[p - n]
    BY <1>1
  <2>3. n + 1 \in n + 1 .. n + L + 1 /\ (n + 1) - n = 1
    BY <1>1
  <2>4. ns[n + 1] = ms[n + 1] /\ vs[n + 1] = ws[n + 1]
    BY <2>2, <2>3, <1>4, <1>5
  <2>5. \A p \in 1 .. n + 1 : p \in 1 .. n \/ p = n + 1
    BY <1>1
  <2> HIDE DEF ns, vs
  <2> QED
    BY <2>1, <2>2, <2>4, <2>5
<1> HIDE DEF ns, vs
<1>8. ASSUME NEW p \in 1 .. n + L PROVE Fits(qe[p], ns[p], vs[p], ns[p + 1], vs[p + 1], ok)
  <2>1. CASE p <= n
    <3>1. p \in 1 .. n /\ p \in 1 .. n + 1 /\ p + 1 \in 1 .. n + 1
      BY <1>1, <2>1
    <3>2. Fits(q[p], ms[p], ws[p], ms[p + 1], ws[p + 1], ok)
      BY <3>1 DEF Planned, n
    <3>3. qe[p] = q[p]
      BY <1>3, <3>1 DEF qe
    <3> QED
      BY <3>1, <3>2, <3>3, <1>7
  <2>2. CASE ~(p <= n)
    <3>1. /\ p \in n + 1 .. n + L /\ p \in n + 1 .. n + L + 1 /\ p + 1 \in n + 1 .. n + L + 1
          /\ p - n \in 1 .. L /\ (p + 1) - n = (p - n) + 1
      BY <1>1, <2>2
    <3>2. Fits(Entry(b, down, p - n), rs[p - n], us[p - n], rs[(p - n) + 1], us[(p - n) + 1], ok)
      BY <3>1, <1>4
    <3>3. qe[p] = Entry(b, down, p - n)
      BY <1>3, <3>1 DEF qe
    <3> QED
      BY <3>1, <3>2, <3>3, <1>7
  <2> QED
    BY <2>1, <2>2
<1>9. ns[n + L + 1] = "idle" /\ vs[n + L + 1] = Mods(down)
  <2>1. n + L + 1 \in n + 1 .. n + L + 1 /\ (n + L + 1) - n = L + 1
    BY <1>1
  <2> QED
    BY <2>1, <1>7, <1>4
<1>10. ns[1] = ms[1] /\ vs[1] = ws[1]
  <2>1. 1 \in 1 .. n + 1
    BY <1>1
  <2> QED
    BY <1>7, <2>1, Zenon
<1>11. Planned(qe, ns, vs, down, ok)
  <2>1. Len(qe) = n + L
    BY <1>2 DEF qe
  <2> QED
    BY <2>1, <1>6, <1>8, <1>9 DEF Planned
<1> QED
  BY <1>10, <1>11 DEF qe, es

---------------------------------------------------------------------------
(* The whole.                                                              *)

KbdTypes ==
  /\ kbdq \in Seq(Bytes) /\ held \in SUBSET Keys /\ seen \in SUBSET Keys
  /\ dropped \in BOOLEAN /\ whole \in BOOLEAN

(* The decoder stands where the plan of the waiting bytes begins.          *)
Begins(ms, ws) ==
  /\ Rel(shift, ms[1], ws[1], ~dropped)
  /\ whole => ms[1] = "idle" /\ (~dropped => ws[1] = Mods(seen))

KbdInv ==
  /\ KbdTypes
  /\ \E ms, ws : Planned(kbdq, ms, ws, held, ~dropped) /\ Begins(ms, ws)

\* At first nothing waits and no key is down.
LEMMA KbdInitInv ==
  ASSUME KbdInit
  PROVE  KbdInv
<1> DEFINE ms == [p \in 1 .. 1 |-> "idle"]
           ws == [p \in 1 .. 1 |-> {}]
<1>1. KbdTypes
  <2>1. << >> \in Seq(Bytes)
    OBVIOUS
  <2> QED
    BY <2>1 DEF KbdInit, KbdTypes
<1>2. ms \in [1 .. 1 -> Mode] /\ ws \in [1 .. 1 -> SUBSET ModKeys] /\ ms[1] = "idle" /\ ws[1] = {}
  BY DEF Mode
<1> HIDE DEF ms, ws
<1>3. Len(kbdq) = 0 /\ Mods(held) = {} /\ Mods(seen) = {}
  BY DEF KbdInit, Mods
<1>4. Planned(kbdq, ms, ws, held, ~dropped)
  BY <1>2, <1>3 DEF Planned
<1>5. Begins(ms, ws)
  BY <1>2, <1>3 DEF KbdInit, Begins, Rel, Agrees
<1> QED
  BY <1>1, <1>4, <1>5 DEF KbdInv

\* The bytes of a key event, as they are sent.
LEMMA EntriesSeq ==
  ASSUME NEW b \in Seq(Byte), NEW down \in SUBSET Keys
  PROVE  /\ Entries(b, down) \in Seq(Bytes) /\ Len(Entries(b, down)) = Len(b)
         /\ [p \in 1 .. Len(b) |-> [byte |-> b[p], held |-> down, last |-> p = Len(b)]]
              = Entries(b, down)
<1>1. \A p \in 1 .. Len(b) : Entry(b, down, p) \in Bytes
  BY DEF Entry, Bytes
<1>2. Entries(b, down) \in Seq(Bytes) /\ Len(Entries(b, down)) = Len(b)
  BY <1>1 DEF Entries
<1>3. [p \in 1 .. Len(b) |-> [byte |-> b[p], held |-> down, last |-> p = Len(b)]]
        = Entries(b, down)
  BY DEF Entries, Entry
<1> QED
  BY <1>2, <1>3

\* A key's bytes are sent, or dropped for want of room.
LEMMA SendKeeps ==
  ASSUME KbdInv, NEW b \in Seq(Byte), NEW down \in SUBSET Keys, Send(b, down), held' = down,
         UNCHANGED <<shift, seen, whole>>,
         \A w \in SUBSET ModKeys : (~dropped => w = Mods(held)) => Runs(b, w, down, ~dropped)
  PROVE  KbdInv'
<1> DEFINE es == Entries(b, down)
<1>0. KbdTypes
  BY DEF KbdInv
<1>e. es \in Seq(Bytes)
  BY EntriesSeq
<1> HIDE DEF es
<1>1. PICK ms, ws : Planned(kbdq, ms, ws, held, ~dropped) /\ Begins(ms, ws)
  BY DEF KbdInv
<1>2. CASE kbdq' = kbdq \o es /\ dropped' = dropped
  <2>2. KbdTypes'
    BY <1>0, <1>2, <1>e DEF KbdTypes
  <2>3. Len(kbdq) + 1 \in 1 .. Len(kbdq) + 1
    BY <1>0 DEF KbdTypes
  <2>4. /\ ws[Len(kbdq) + 1] \in SUBSET ModKeys
        /\ ~dropped => ws[Len(kbdq) + 1] = Mods(held)
    BY <1>1, <2>3 DEF Planned
  <2> DEFINE ok == ~dropped
             w == ws[Len(kbdq) + 1]
  <2>5. Runs(b, w, down, ok) /\ Planned(kbdq, ms, ws, held, ok) /\ kbdq \in Seq(Bytes)
    BY <1>0, <1>1, <2>4 DEF KbdTypes
  <2> HIDE DEF ok
  <2>6. PICK ns, vs : Planned(kbdq \o es, ns, vs, down, ok) /\ ns[1] = ms[1] /\ vs[1] = ws[1]
    BY <2>5, PlanExtends DEF es
  <2>7. Planned(kbdq', ns, vs, held', ~dropped')
    BY <1>2, <2>6 DEF ok
  <2>8. Begins(ns, vs)'
    BY <1>1, <1>2, <2>6 DEF Begins
  <2> QED
    BY <2>2, <2>7, <2>8 DEF KbdInv
<1>3. CASE kbdq' = kbdq /\ dropped' = TRUE
  <2>1. KbdTypes'
    BY <1>0, <1>3 DEF KbdTypes
  <2>2. Planned(kbdq, ms, ws, down, FALSE)
    BY <1>1, PlanDropped
  <2>3. Planned(kbdq', ms, ws, held', ~dropped')
    BY <2>2, <1>3
  <2>4. Begins(ms, ws)'
    BY <1>1, <1>3 DEF Begins, Rel
  <2> QED
    BY <2>1, <2>3, <2>4 DEF KbdInv
<1> QED
  BY <1>2, <1>3, EntriesSeq DEF Send, es

\* A press or a repeat sends bytes that the plan takes in.
LEMMA KeyDownKeeps ==
  ASSUME KbdInv, NEW k \in Keys, KeyDown(k)
  PROVE  KbdInv'
<1>1. held \cup {k} \in SUBSET Keys /\ dropped \in BOOLEAN
  BY DEF KbdInv, KbdTypes
<1>2. \A w \in SUBSET ModKeys : (~dropped => w = Mods(held))
                                  => Runs(MakeBytes(k), w, held \cup {k}, ~dropped)
  BY <1>1, MakeRuns DEF KeyDown
<1>3. MakeBytes(k) \in Seq(Byte)
  <2>1. k \in 0 .. 255 /\ (E0(k) => k - 128 \in Byte) /\ (Wrapped(k) => k - 128 \in Byte)
    BY KeyboardAssumption DEF E0, Wrapped, Byte, HOME, DEL
  <2>2. {225, 29, 69, 157, 197, 224, 170} \subseteq Byte /\ (k < 128 => k \in Byte)
    BY <2>1 DEF Byte
  <2>3. k < 128 \/ k = PAUSE \/ E0(k)
    BY <2>1 DEF E0
  <2>4. /\ k = PAUSE => ~Wrapped(k) /\ ~E0(k) /\ ~(k < 128)
        /\ Wrapped(k) => E0(k)
        /\ k < 128 => ~E0(k) /\ ~Wrapped(k)
    BY <2>1 DEF E0, Wrapped, PAUSE, HOME, DEL
  <2>5. CASE k = PAUSE
    BY <2>2, <2>4, <2>5 DEF MakeBytes
  <2>6. CASE Wrapped(k)
    BY <2>1, <2>2, <2>4, <2>6 DEF MakeBytes
  <2>7. CASE E0(k) /\ ~Wrapped(k)
    BY <2>1, <2>2, <2>4, <2>7 DEF MakeBytes
  <2>8. CASE k < 128
    BY <2>2, <2>4, <2>8 DEF MakeBytes
  <2> QED
    BY <2>3, <2>5, <2>6, <2>7, <2>8
<1>4. Send(MakeBytes(k), held \cup {k}) /\ held' = held \cup {k} /\ UNCHANGED <<shift, seen, whole>>
  BY DEF KeyDown, kernelVars
<1> QED
  BY <1>1, <1>2, <1>3, <1>4, SendKeeps

\* So does a release.
LEMMA KeyUpKeeps ==
  ASSUME KbdInv, NEW k \in Keys, KeyUp(k)
  PROVE  KbdInv'
<1>0. KbdTypes
  BY DEF KbdInv
<1>1. held \ {k} \in SUBSET Keys /\ dropped \in BOOLEAN
  BY <1>0 DEF KbdTypes
<1>2. CASE k = PAUSE
  <2>1. BreakBytes(k) = << >>
    BY <1>2 DEF BreakBytes, E0, Wrapped, PAUSE, HOME, DEL
  <2>2. kbdq' = kbdq /\ dropped' \in BOOLEAN /\ (~dropped' => ~dropped) /\ held' = held \ {k}
        /\ UNCHANGED <<shift, seen, whole>>
    <3>1. Send(<< >>, held \ {k}) /\ held' = held \ {k} /\ UNCHANGED <<shift, seen, whole>>
      BY <2>1 DEF KeyUp, kernelVars
    <3>2. << >> \in Seq(Byte) /\ held \ {k} \in SUBSET Keys /\ kbdq \in Seq(Bytes)
      BY <1>0, <1>1 DEF KbdTypes
    <3> DEFINE es == Entries(<< >>, held \ {k})
    <3>3. es \in Seq(Bytes) /\ Len(es) = 0
      BY <3>2, EntriesSeq
    <3> HIDE DEF es
    <3>4. kbdq \o es = kbdq
      BY <3>2, <3>3, EmptySeq, ConcatEmptySeq
    <3>5. kbdq' = kbdq \o es \/ kbdq' = kbdq
      BY <3>1, <3>2, EntriesSeq DEF Send, es
    <3>6. dropped' = dropped \/ dropped' = TRUE
      BY <3>1 DEF Send
    <3> QED
      BY <1>0, <3>1, <3>4, <3>5, <3>6 DEF KbdTypes
  <2>3. Mods(held') = Mods(held)
    BY <2>2, <1>2, NoModifiers, OtherKeys
  <2>4. PICK ms, ws : Planned(kbdq, ms, ws, held, ~dropped) /\ Begins(ms, ws)
    BY DEF KbdInv
  <2>5. KbdTypes'
    BY <1>0, <1>1, <2>2 DEF KbdTypes
  <2>6. Planned(kbdq, ms, ws, held', ~dropped')
    <3>1. CASE dropped'
      BY <3>1, <2>4, PlanDropped
    <3>2. CASE ~dropped'
      BY <3>2, <2>2, <2>3, <2>4 DEF Planned
    <3> QED
      BY <3>1, <3>2
  <2>7. Begins(ms, ws)'
    BY <2>2, <2>4 DEF Begins, Rel
  <2> QED
    BY <2>2, <2>5, <2>6, <2>7 DEF KbdInv
<1>3. CASE k # PAUSE
  <2>2. \A w \in SUBSET ModKeys : (~dropped => w = Mods(held))
                                    => Runs(BreakBytes(k), w, held \ {k}, ~dropped)
    BY <1>1, <1>3, BreakRuns
  <2>3. BreakBytes(k) \in Seq(Byte)
    <3>1. k \in 0 .. 255 /\ k \in Byte /\ (k < 128 => k + 128 \in Byte)
      BY KeyboardAssumption DEF Byte
    <3>2. 224 \in Byte /\ 42 \in Byte
      BY DEF Byte
    <3>3. k < 128 \/ E0(k)
      BY <3>1, <1>3 DEF E0
    <3>4. (Wrapped(k) => E0(k)) /\ (k < 128 => ~E0(k) /\ ~Wrapped(k))
      BY <3>1 DEF E0, Wrapped, PAUSE, HOME, DEL
    <3>6. CASE Wrapped(k)
      BY <1>3, <3>1, <3>2, <3>4, <3>6 DEF BreakBytes
    <3>7. CASE E0(k) /\ ~Wrapped(k)
      BY <1>3, <3>1, <3>2, <3>4, <3>7 DEF BreakBytes
    <3>8. CASE k < 128
      BY <1>3, <3>1, <3>4, <3>8 DEF BreakBytes
    <3> QED
      BY <3>3, <3>6, <3>7, <3>8
  <2>4. Send(BreakBytes(k), held \ {k}) /\ held' = held \ {k} /\ UNCHANGED <<shift, seen, whole>>
    BY DEF KeyUp, kernelVars
  <2> QED
    BY <1>1, <2>2, <2>3, <2>4, SendKeeps
<1> QED
  BY <1>2, <1>3

\* The kernel takes a byte.
LEMMA DataKeeps ==
  ASSUME KbdInv, KbdProcData
  PROVE  KbdInv'
<1>0. KbdTypes
  BY DEF KbdInv
<1>1. PICK ms, ws : Planned(kbdq, ms, ws, held, ~dropped) /\ Begins(ms, ws)
  BY DEF KbdInv
<1> DEFINE e == Head(kbdq)
           ok == ~dropped
<1>2. kbdq \in Seq(Bytes) /\ kbdq # << >> /\ e \in Bytes /\ Tail(kbdq) \in Seq(Bytes)
  BY <1>0 DEF KbdTypes, KbdProcData
<1>3. /\ shift' = Decode(shift, e.byte).shift /\ seen' = e.held /\ whole' = e.last
      /\ kbdq' = Tail(kbdq) /\ held' = held /\ dropped' = dropped
  BY DEF KbdProcData
<1>4. /\ Fits(e, ms[1], ws[1], ms[2], ws[2], ok) /\ ms[1] \in Mode /\ ms[2] \in Mode
      /\ \E ns, vs : Planned(Tail(kbdq), ns, vs, held, ok) /\ ns[1] = ms[2] /\ vs[1] = ws[2]
  BY <1>1, <1>2, PlanShrinks
<1>5. PICK ns, vs : Planned(Tail(kbdq), ns, vs, held, ok) /\ ns[1] = ms[2] /\ vs[1] = ws[2]
  BY <1>4
<1>6. e.byte \in Byte /\ e.held \in SUBSET Keys /\ e.last \in BOOLEAN
  BY <1>2 DEF Bytes
<1>7. ok \in BOOLEAN /\ Rel(shift, ms[1], ws[1], ok)
  BY <1>1 DEF Begins
<1> HIDE DEF e, ok
<1>8. Rel(Decode(shift, e.byte).shift, ms[2], ws[2], ok)
  BY <1>4, <1>6, <1>7, DecodeKeepsUp
<1>9. e.last => ms[2] = "idle" /\ (ok => ws[2] = Mods(e.held))
  BY <1>4 DEF Fits
<1>10. KbdTypes'
  BY <1>0, <1>2, <1>3, <1>6 DEF KbdTypes
<1>11. Begins(ns, vs)'
  BY <1>3, <1>5, <1>8, <1>9 DEF Begins, ok
<1>12. Planned(kbdq', ns, vs, held', ~dropped')
  BY <1>3, <1>5 DEF ok
<1> QED
  BY <1>10, <1>11, <1>12 DEF KbdInv

\* Each step of the keyboard and of the decoder keeps the invariant.
LEMMA KbdStepKeeps ==
  ASSUME KbdInv, [KbdNext]_kbdVars
  PROVE  KbdInv'
<1>1. CASE KeyboardStep
  BY <1>1, KeyDownKeeps, KeyUpKeeps DEF KeyboardStep
<1>2. CASE KbdProcData
  BY <1>2, DataKeeps
<1>3. CASE KbdNoData
  BY <1>3 DEF KbdNoData, keyboardVars, KbdInv, KbdTypes, Begins
<1>4. CASE UNCHANGED kbdVars
  BY <1>4 DEF kbdVars, KbdInv, KbdTypes, Begins
<1> QED
  BY <1>1, <1>2, <1>3, <1>4 DEF KbdNext

\* The invariant always holds.
LEMMA KbdInvAlways == KbdSpec => []KbdInv
<1>1. KbdInit => KbdInv
  BY KbdInitInv
<1>2. KbdInv /\ [KbdNext]_kbdVars => KbdInv'
  BY KbdStepKeeps
<1> QED
  BY <1>1, <1>2, PTL DEF KbdSpec

---------------------------------------------------------------------------
\* The flags, where the last byte read ended a key's sequence.
LEMMA WholeKeys ==
  ASSUME KbdInv, whole
  PROVE  "E0ESC" \notin shift /\ (~dropped => Agrees(shift, Mods(seen)))
<1>1. PICK ms, ws : Begins(ms, ws)
  BY DEF KbdInv
<1> QED
  BY <1>1 DEF Begins, Rel

\* The invariant gives that no modifier sticks,
LEMMA FlagsHaveKeys ==
  ASSUME KbdInv
  PROVE  NoStuckModifier
BY WholeKeys DEF NoStuckModifier, Agrees, Mods

\* and that a modifier with one key is on while that key is down.
LEMMA KeysHaveFlags ==
  ASSUME KbdInv
  PROVE  HeldModifierKnown
<1> SUFFICES ASSUME whole, ~dropped, NEW m \in Modifier, NEW k \in seen, KeysOf(m) = {k}
             PROVE  m \in shift
  BY DEF HeldModifierKnown
<1>1. shiftcode(k) = {m}
  BY DEF KeysOf
<1>2. k \in Mods(seen)
  BY <1>1, ShiftKeys DEF Mods
<1> QED
  BY <1>2, WholeKeys DEF Agrees

\* The character tables have KEY_DEL for one index only, and swapping the
\* case of a letter does not make one.
LEMMA OnlyDelIsDel ==
  ASSUME NEW s, NEW d, charcode(s, d) = KEY_DEL \/ SwapCase(charcode(s, d)) = KEY_DEL
  PROVE  d = DEL
<1>1. d # DEL => /\ normalmap(d) \in {97, 10, 46, KEY_HOME, 0}
                 /\ shiftmap(d) \in {65, 97, 10, 46, KEY_HOME, 0}
                 /\ ctlmap(d) \in {1, 13, 0}
  BY DEF normalmap, shiftmap, ctlmap
<1>2. d # DEL => charcode(s, d) \in {97, 65, 10, 46, KEY_HOME, 1, 13, 0}
  BY <1>1 DEF charcode
<1>3. \A c \in {97, 65, 10, 46, KEY_HOME, 1, 13, 0} : c # KEY_DEL /\ SwapCase(c) # KEY_DEL
  BY DEF KEY_HOME, KEY_DEL, SwapCase
<1> QED
  BY <1>2, <1>3

\* The decoder resets the machine only at the byte of Delete's press.
LEMMA RebootIsDel ==
  ASSUME NEW s, NEW m \in Mode, NEW b \in Byte, "E0ESC" \in s <=> m = "e0",
         IsReboot(Decode(s, b))
  PROVE  b # 224 /\ b < 128 /\ Index(m, b) = DEL
<1>1. KEY_DEL # 0
  BY DEF KEY_DEL
<1>2. b # 224 /\ b < 128
  BY <1>1 DEF IsReboot, Decode, Prefix, Release, Byte
<1>3. Decode(s, b) = Press(s, b)
  BY <1>2 DEF Decode, Byte
<1>4. Index(m, b) = IF "E0ESC" \in s THEN b + 128 ELSE b
  BY <1>2 DEF Index
<1> DEFINE d == IF "E0ESC" \in s THEN b + 128 ELSE b
<1>5. \E t : Press(s, b).c = charcode(t, d) \/ Press(s, b).c = SwapCase(charcode(t, d))
  BY DEF Press
<1> HIDE DEF d
<1>6. d = DEL
  BY <1>3, <1>5, OnlyDelIsDel DEF IsReboot
<1> QED
  BY <1>2, <1>4, <1>6 DEF d

(* A step that resets the machine has read the last byte of Delete's       *)
(* press, with a key down for each of the two flags.                       *)
LEMMA ResetStep ==
  ASSUME KbdInv, NoStuckModifier', [KbdNext]_kbdVars, reboots' # reboots, ~dropped
  PROVE  /\ DEL \in seen'
         /\ seen' \cap {LCTL, RCTL} # {}
         /\ seen' \cap {LALT, RALT} # {}
<1>1. KbdProcData
  BY DEF KbdNext, KeyboardStep, KeyDown, KeyUp, KbdNoData, kbdVars, kernelVars
<1> DEFINE e == Head(kbdq)
<1>2. /\ IsReboot(Decode(shift, e.byte)) /\ shift' = Decode(shift, e.byte).shift
      /\ seen' = e.held /\ whole' = e.last /\ dropped' = dropped /\ kbdq # << >>
  BY <1>1 DEF KbdProcData
<1>3. kbdq \in Seq(Bytes) /\ e \in Bytes
  BY <1>2 DEF KbdInv, KbdTypes
<1>4. e.byte \in Byte
  BY <1>3 DEF Bytes
<1>5. PICK ms, ws : Planned(kbdq, ms, ws, held, ~dropped) /\ Begins(ms, ws)
  BY DEF KbdInv
<1> DEFINE ok == ~dropped
<1> HIDE DEF e
<1>6. Fits(e, ms[1], ws[1], ms[2], ws[2], ok) /\ ms[1] \in Mode
  <2> HIDE DEF ok
  <2>1. Planned(kbdq, ms, ws, held, ok)
    BY <1>5 DEF ok
  <2> QED
    BY <1>2, <1>3, <2>1, PlanShrinks DEF e
<1>7. "E0ESC" \in shift <=> ms[1] = "e0"
  BY <1>5 DEF Begins, Rel
<1>8. e.byte # 224 /\ e.byte < 128 /\ Index(ms[1], e.byte) = DEL
  BY <1>2, <1>4, <1>6, <1>7, RebootIsDel
<1>9. DEL \in e.held /\ e.last
  <2>1. DEL \notin ModKeys
    BY DEF DEL, ModKeys, LCTL, RCTL, LSHIFT, RSHIFT, LALT, RALT
  <2>2. e.byte # 29 \/ ms[1] # "idle"
    BY <1>8 DEF Index, DEL
  <2>3. IsMute(e, ms[1], ws[1], ms[2], ws[2], ok)
    BY <1>4, <1>6, <1>8, <2>1, <2>2
       DEF Fits, IsPrefix, IsPress, IsRelease, IsPauseOn, IsPauseOff, Mods, Byte
  <2> QED
    BY <1>8, <2>3 DEF IsMute
<1>11. "CTL" \in shift' /\ "ALT" \in shift' /\ whole' /\ ~dropped'
  BY <1>2, <1>9 DEF IsReboot
<1>12. KeysOf("CTL") \cap seen' # {} /\ KeysOf("ALT") \cap seen' # {}
  BY <1>11 DEF NoStuckModifier, Modifier
<1>13. KeysOf("CTL") \subseteq {LCTL, RCTL} /\ KeysOf("ALT") \subseteq {LALT, RALT}
  BY DEF KeysOf, shiftcode
<1> QED
  BY <1>2, <1>9, <1>12, <1>13

---------------------------------------------------------------------------
(* Between keys the decoder is never in the middle of a prefix.            *)
THEOREM PrefixIsConsumed == KbdSpec => []PrefixConsumed
<1>1. KbdInv => PrefixConsumed
  BY WholeKeys DEF PrefixConsumed
<1> QED
  BY <1>1, KbdInvAlways, PTL

(* No modifier flag outlives its keys.                                     *)
THEOREM NoModifierSticks == KbdSpec => []NoStuckModifier
<1>1. KbdInv => NoStuckModifier
  BY FlagsHaveKeys
<1> QED
  BY <1>1, KbdInvAlways, PTL

(* No modifier that has one key is forgotten while it is held.             *)
THEOREM HeldModifiersKnown == KbdSpec => []HeldModifierKnown
<1>1. KbdInv => HeldModifierKnown
  BY KeysHaveFlags
<1> QED
  BY <1>1, KbdInvAlways, PTL

(* Nothing but Delete with Ctrl and Alt resets the machine.                *)
THEOREM OnlyCtrlAltDelReboots == KbdSpec => RebootOnlyOnCtrlAltDel
<1>1. KbdInv /\ NoStuckModifier' /\ [KbdNext]_kbdVars
        => [reboots' # reboots /\ ~dropped =>
              /\ DEL \in seen'
              /\ seen' \cap {LCTL, RCTL} # {}
              /\ seen' \cap {LALT, RALT} # {}]_kbdVars
  BY ResetStep
<1> QED
  BY <1>1, KbdInvAlways, NoModifierSticks, PTL DEF KbdSpec, RebootOnlyOnCtrlAltDel

---------------------------------------------------------------------------
(* The ring buffer.                                                        *)

USE RingAssumption

(* The positions and the stored characters stay in range: no call of       *)
(* cons_intr() or cons_getc() touches memory beside the array.             *)
THEOREM RingTypeCorrect == RingSpec => []RingTypeOK
<1>1. RingInit => RingTypeOK
  BY DEF RingInit, RingTypeOK, Slots
<1>2. RingTypeOK /\ [RingNext]_ringVars => RingTypeOK'
  <2> SUFFICES ASSUME RingTypeOK, [RingNext]_ringVars
               PROVE  RingTypeOK'
    OBVIOUS
  <2> USE DEF RingTypeOK, Slots, Advance
  <2>1. ASSUME NEW c \in Char, Put(c)
        PROVE  RingTypeOK'
    BY <2>1 DEF Put
  <2>2. CASE Get
    BY <2>2 DEF Get
  <2>3. CASE GetNone
    BY <2>3 DEF GetNone
  <2>4. CASE UNCHANGED ringVars
    BY <2>4 DEF ringVars
  <2> QED
    BY <2>1, <2>2, <2>3, <2>4 DEF RingNext
<1> QED
  BY <1>1, <1>2, PTL DEF RingSpec

---------------------------------------------------------------------------
(* The characters between two positions form a sequence of the expected    *)
(* length, and all of their slots are slots of the array.                  *)
LEMMA ContentsSeq ==
  ASSUME NEW b \in [Slots -> Char \cup {0}], NEW r \in Slots, NEW w \in Slots
  PROVE  /\ CountOf(r, w) \in 0 .. CONSBUFSIZE - 1
         /\ \A k \in 1 .. CountOf(r, w) : SlotAt(r, k) \in Slots
         /\ ContentsOf(b, r, w) \in Seq(Char \cup {0})
         /\ Len(ContentsOf(b, r, w)) = CountOf(r, w)
         /\ \A k \in 1 .. CountOf(r, w) :
              ContentsOf(b, r, w)[k] = b[SlotAt(r, k)]
<1>1. CountOf(r, w) \in 0 .. CONSBUFSIZE - 1
  BY DEF Slots, CountOf
<1>2. \A k \in 1 .. CountOf(r, w) : SlotAt(r, k) \in Slots
  BY DEF Slots, CountOf, SlotAt
<1>3. \A k \in 1 .. CountOf(r, w) : b[SlotAt(r, k)] \in Char \cup {0}
  BY <1>2
<1>4. ContentsOf(b, r, w) \in [1 .. CountOf(r, w) -> Char \cup {0}]
  BY <1>3 DEF ContentsOf
<1>5. \A k \in 1 .. CountOf(r, w) : ContentsOf(b, r, w)[k] = b[SlotAt(r, k)]
  BY DEF ContentsOf
<1> QED
  BY <1>1, <1>2, <1>4, <1>5

(* Storing at w a character extends the contents by it, or, with           *)
(* CONSBUFSIZE - 1 waiting already, empties them: w has caught up with r.  *)
LEMMA StoreAppends ==
  ASSUME NEW b \in [Slots -> Char \cup {0}], NEW r \in Slots, NEW w \in Slots,
         NEW c \in Char
  PROVE  ContentsOf([b EXCEPT ![w] = c], r, Advance(w)) =
           IF CountOf(r, w) = CONSBUFSIZE - 1
           THEN << >> ELSE Append(ContentsOf(b, r, w), c)
<1> DEFINE b2 == [b EXCEPT ![w] = c]
           n  == CountOf(r, w)
           w2 == Advance(w)
<1>1. b2 \in [Slots -> Char \cup {0}] /\ w2 \in Slots /\ n \in 0 .. CONSBUFSIZE - 1
  <2>1. b2 \in [Slots -> Char \cup {0}]
    OBVIOUS
  <2>2. w2 \in Slots
    BY DEF Slots, Advance
  <2>3. n \in 0 .. CONSBUFSIZE - 1
    BY ContentsSeq
  <2> QED
    BY <2>1, <2>2, <2>3
<1>2. CASE n = CONSBUFSIZE - 1
  <2>1. CountOf(r, w2) = 0
    BY <1>2 DEF CountOf, Advance, Slots
  <2>2. ContentsOf(b2, r, w2) = << >>
    <3> HIDE DEF b2, w2
    <3> QED BY <1>1, <2>1, ContentsSeq
  <2> QED
    BY <1>2, <2>2
<1>3. CASE n # CONSBUFSIZE - 1
  <2>1. CountOf(r, w2) = n + 1
    BY <1>3 DEF CountOf, Advance, Slots
  <2>2. \A k \in 1 .. n : SlotAt(r, k) # w /\ SlotAt(r, k) \in Slots
    BY <1>3 DEF CountOf, SlotAt, Slots
  <2>3. SlotAt(r, n + 1) = w
    BY <1>3 DEF CountOf, SlotAt, Slots
  <2>4. \A k \in 1 .. n : b2[SlotAt(r, k)] = b[SlotAt(r, k)]
    BY <2>2
  <2>5. b2[SlotAt(r, n + 1)] = c
    BY <2>3
  <2> HIDE DEF b2, w2, n
  <2>6. /\ ContentsOf(b2, r, w2) \in Seq(Char \cup {0})
        /\ Len(ContentsOf(b2, r, w2)) = n + 1
        /\ \A k \in 1 .. n + 1 : ContentsOf(b2, r, w2)[k] = b2[SlotAt(r, k)]
    <3>1. \A k \in 1 .. CountOf(r, w2) :
            ContentsOf(b2, r, w2)[k] = b2[SlotAt(r, k)]
      BY <1>1, ContentsSeq
    <3>2. /\ ContentsOf(b2, r, w2) \in Seq(Char \cup {0})
          /\ Len(ContentsOf(b2, r, w2)) = CountOf(r, w2)
      BY <1>1, ContentsSeq
    <3> QED
      BY <2>1, <3>1, <3>2
  <2>7. /\ ContentsOf(b, r, w) \in Seq(Char \cup {0})
        /\ Len(ContentsOf(b, r, w)) = n
        /\ \A k \in 1 .. n : ContentsOf(b, r, w)[k] = b[SlotAt(r, k)]
    BY ContentsSeq DEF n
  <2>8. /\ Append(ContentsOf(b, r, w), c) \in Seq(Char \cup {0})
        /\ Len(Append(ContentsOf(b, r, w), c)) = n + 1
        /\ \A k \in 1 .. n + 1 :
             Append(ContentsOf(b, r, w), c)[k] = ContentsOf(b2, r, w2)[k]
    BY <1>1, <2>4, <2>5, <2>6, <2>7
  <2>9. ContentsOf(b2, r, w2) = Append(ContentsOf(b, r, w), c)
    BY <1>1, <2>6, <2>8
  <2> QED
    BY <1>3, <2>9 DEF b2, w2, n
<1> QED
  BY <1>2, <1>3

(* Moving r over a waiting character removes the oldest one.               *)
LEMMA ReadTakesHead ==
  ASSUME NEW b \in [Slots -> Char \cup {0}], NEW r \in Slots, NEW w \in Slots,
         r # w
  PROVE  /\ ContentsOf(b, r, w) # << >>
         /\ Head(ContentsOf(b, r, w)) = b[r]
         /\ ContentsOf(b, Advance(r), w) = Tail(ContentsOf(b, r, w))
<1> DEFINE n  == CountOf(r, w)
           r2 == Advance(r)
           s  == ContentsOf(b, r, w)
           t  == ContentsOf(b, r2, w)
<1>1. n \in 1 .. CONSBUFSIZE - 1 /\ SlotAt(r, 1) = r /\ r2 \in Slots
  BY DEF Slots, Advance, CountOf, SlotAt
<1>2. CountOf(r2, w) = n - 1
  BY DEF Slots, Advance, CountOf
<1>3. \A k \in 1 .. n - 1 : SlotAt(r2, k) = SlotAt(r, k + 1)
  BY DEF Slots, Advance, CountOf, SlotAt
<1> HIDE DEF n, r2
<1>4. s \in Seq(Char \cup {0}) /\ Len(s) = n
      /\ \A k \in 1 .. n : s[k] = b[SlotAt(r, k)]
  BY ContentsSeq DEF n
<1>5. t \in Seq(Char \cup {0}) /\ Len(t) = n - 1
      /\ \A k \in 1 .. n - 1 : t[k] = b[SlotAt(r2, k)]
  <2>1. \A k \in 1 .. CountOf(r2, w) : t[k] = b[SlotAt(r2, k)]
    BY <1>1, ContentsSeq
  <2>2. t \in Seq(Char \cup {0}) /\ Len(t) = CountOf(r2, w)
    BY <1>1, ContentsSeq
  <2> QED
    BY <1>2, <2>1, <2>2
<1> HIDE DEF s, t
<1>6. s # << >> /\ Head(s) = b[r]
  BY <1>1, <1>4
<1>7. Tail(s) \in Seq(Char \cup {0}) /\ Len(Tail(s)) = n - 1
      /\ \A k \in 1 .. n - 1 : Tail(s)[k] = s[k + 1]
  BY <1>1, <1>4
<1>8. \A k \in 1 .. n - 1 : t[k] = Tail(s)[k]
  BY SMTT(30), <1>1, <1>3, <1>4, <1>5, <1>7
<1>9. t = Tail(s)
  BY <1>1, <1>5, <1>7, <1>8
<1> QED
  BY <1>6, <1>9 DEF s, t, r2

(* What the calls do to the characters that wait.                          *)
LEMMA PutContents ==
  ASSUME RingTypeOK, NEW c \in Char, Put(c)
  PROVE  /\ Len(Contents) = CountOf(rpos, wpos)
         /\ Contents' = IF CountOf(rpos, wpos) = CONSBUFSIZE - 1
                        THEN << >> ELSE Append(Contents, c)
BY ZenonT(60), ContentsSeq, StoreAppends DEF Put, Contents, RingTypeOK

\* cons_getc() takes the oldest one.
LEMMA GetContents ==
  ASSUME RingTypeOK, Get
  PROVE  /\ Contents # << >>
         /\ Head(Contents) = buf[rpos]
         /\ Contents' = Tail(Contents)
BY ReadTakesHead DEF Get, Contents, RingTypeOK

\* Equal positions mean that none waits.
LEMMA NoContents ==
  ASSUME RingTypeOK, GetNone
  PROVE  Contents = << >> /\ Contents' = Contents
<1>1. CountOf(rpos, wpos) = 0
  BY DEF GetNone, CountOf, RingTypeOK, Slots
<1> QED
  BY <1>1, ContentsSeq DEF GetNone, Contents, RingTypeOK

(* The ring implements the queue that forgets everything when it overruns. *)
THEOREM RingImplementsFifo == RingSpec => FifoSpec
<1>1. RingInit => Fifo!Init
  <2> SUFFICES ASSUME RingInit PROVE Fifo!Init
    OBVIOUS
  <2>1. RingTypeOK /\ CountOf(rpos, wpos) = 0
    BY DEF RingInit, RingTypeOK, Slots, CountOf
  <2>2. Contents = << >>
    BY <2>1, ContentsSeq DEF Contents, RingTypeOK
  <2> QED
    BY <2>2 DEF Fifo!Init, RingInit
<1>2. RingTypeOK /\ [RingNext]_ringVars => [Fifo!Next]_<<Contents, got>>
  <2> SUFFICES ASSUME RingTypeOK, [RingNext]_ringVars
               PROVE  [Fifo!Next]_<<Contents, got>>
    OBVIOUS
  <2>1. ASSUME NEW c \in Char, Put(c)
        PROVE  Fifo!Put(c)
    BY <2>1, PutContents DEF Fifo!Put, Put
  <2>2. ASSUME Get
        PROVE  Fifo!Get
    BY <2>2, GetContents DEF Fifo!Get, Get
  <2>3. ASSUME GetNone
        PROVE  Fifo!GetNone
    BY <2>3, NoContents DEF Fifo!GetNone, GetNone
  <2>4. CASE UNCHANGED ringVars
    BY <2>4 DEF ringVars, Contents
  <2> QED
    BY <2>1, <2>2, <2>3, <2>4 DEF RingNext, Fifo!Next
<1> QED
  BY <1>1, <1>2, RingTypeCorrect, PTL DEF RingSpec, FifoSpec, Fifo!Spec

---------------------------------------------------------------------------
(* What the serial port hands to the kernel is a byte.                     *)
SerialByteOK == rx \in Byte \cup {NoByte} /\ sent \in 0 .. MaxSerial

---------------------------------------------------------------------------
\* Every entry of the character maps, shifted case or not, is a byte.
LEMMA CharcodeByte ==
  ASSUME NEW s, NEW d
  PROVE  charcode(s, d) \in Byte /\ SwapCase(charcode(s, d)) \in Byte
<1> USE DEF Byte
<1>1. normalmap(d) \in Byte
  BY DEF normalmap, LETTER_A, ENTER, KP_DOT, HOME, DEL, KEY_HOME, KEY_DEL
<1>2. shiftmap(d) \in Byte
  BY <1>1 DEF shiftmap
<1>3. ctlmap(d) \in Byte
  BY DEF ctlmap, LETTER_A, ENTER, DEL, KEY_DEL
<1>4. charcode(s, d) \in Byte
  BY <1>1, <1>2, <1>3 DEF charcode
<1>5. \A c \in Byte : SwapCase(c) \in Byte
  BY DEF SwapCase
<1> QED
  BY <1>4, <1>5

\* Whatever the flags and the byte, the decoder returns a byte.
LEMMA DecodeByte ==
  ASSUME NEW s, NEW data
  PROVE  Decode(s, data).c \in Byte
<1>1. Prefix(s).c = 0 /\ Release(s, data).c = 0
  BY DEF Prefix, Release
<1>2. Press(s, data).c \in Byte
  BY CharcodeByte DEF Press
<1> QED
  BY <1>1, <1>2 DEF Decode, Byte

\* Whatever byte it is given, kbd_proc_data() returns one, or -1.
LEMMA KbdByte ==
  ASSUME KbdProcData
  PROVE  kbd_c' \in Byte
BY DecodeByte DEF KbdProcData

\* What waits in the serial port is a byte, at all times.
LEMMA SerialBytes ==
  Spec => []SerialByteOK
<1>1. Init => SerialByteOK
  BY ConsoleAssumption DEF Init, SerialByteOK
<1>2. SerialByteOK /\ [Next]_vars => SerialByteOK'
  <2> SUFFICES ASSUME SerialByteOK, [Next]_vars
               PROVE  SerialByteOK'
    OBVIOUS
  <2> USE DEF SerialByteOK, Byte
  <2>1. CASE ConsInit
    BY <2>1 DEF ConsInit
  <2>2. CASE CallGetchar \/ KbdIntr \/ Take \/ TypeKey
    BY <2>2 DEF CallGetchar, KbdIntr, Take, TypeKey, serialVars
  <2>3. CASE SerialIntr
    BY <2>3 DEF SerialIntr, serialVars
  <2>4. CASE SerialSends
    BY <2>4, ConsoleAssumption DEF SerialSends, SerialArrives
  <2>5. CASE SerialBreak
    BY <2>5 DEF SerialBreak, SerialArrives
  <2>6. CASE UNCHANGED vars
    BY <2>6 DEF vars, serialVars
  <2> QED
    BY <2>1, <2>2, <2>3, <2>4, <2>5, <2>6 DEF Next, Kernel
<1> QED
  BY <1>1, <1>2, PTL DEF Spec

(* A step of the console is a step of its ring, or leaves the ring alone.  *)
LEMMA ConsoleStep ==
  ASSUME Char = 1 .. 255, SerialByteOK, [Next]_vars
  PROVE  [RingNext]_ringVars
<1>1. ASSUME NEW c \in Byte, Store(c)
      PROVE  [RingNext]_ringVars
  BY <1>1 DEF Store, RingNext, Byte
<1>2. CASE ConsInit \/ CallGetchar \/ TypeKey \/ SerialSends \/ SerialBreak
  BY <1>2 DEF ConsInit, CallGetchar, TypeKey, SerialSends, SerialBreak,
              SerialArrives
<1>3. CASE SerialIntr
  <2>1. CASE serial_exists /\ DataReady
    <3>1. ReadRX \in Byte
      BY <2>1 DEF SerialByteOK, ReadRX, DataReady, Byte
    <3> QED
      BY <1>1, <1>3, <2>1, <3>1 DEF SerialIntr
  <2>2. CASE ~(serial_exists /\ DataReady)
    BY <1>3, <2>2 DEF SerialIntr
  <2> QED
    BY <2>1, <2>2
<1>4. CASE KbdIntr
  <2>1. CASE KbdProcData /\ Store(kbd_c')
    BY <1>1, <2>1, KbdByte
  <2>2. CASE UNCHANGED ringVars
    BY <2>2
  <2> QED
    BY <1>4, <2>1, <2>2 DEF KbdIntr
<1>5. CASE Take
  BY <1>5 DEF Take, RingNext
<1>6. CASE UNCHANGED vars
  BY <1>6 DEF vars
<1> QED
  BY <1>2, <1>3, <1>4, <1>5, <1>6 DEF Next, Kernel

\* What the console does to its ring is a behaviour of the ring.
LEMMA ConsoleUsesRing ==
  ASSUME Char = 1 .. 255
  PROVE  Spec => RingSpec
<1>1. Init => RingInit
  BY DEF Init
<1>2. SerialByteOK /\ [Next]_vars => [RingNext]_ringVars
  BY ConsoleStep
<1> QED
  BY <1>1, <1>2, SerialBytes, PTL DEF Spec, RingSpec

(* getchar()'s polling of the keyboard and of the serial port, in any      *)
(* interleaving with what they send, keeps the ring's positions and bytes  *)
(* in range, for characters of a byte.                                     *)
THEOREM ConsoleRingTypeCorrect ==
  ASSUME Char = 1 .. 255
  PROVE  Spec => []RingTypeOK
BY ConsoleUsesRing, RingTypeCorrect, PTL

(* To the reader it is one queue: characters come out in the order the     *)
(* kernel took them from the devices, each once, and are lost only all at  *)
(* once when the ring overruns.                                            *)
THEOREM ConsoleImplementsFifo ==
  ASSUME Char = 1 .. 255
  PROVE  Spec => FifoSpec
BY ConsoleUsesRing, RingImplementsFifo, PTL

---------------------------------------------------------------------------
\* What the console and the user do to the keyboard is a behaviour of the
\* keyboard by itself.
LEMMA ConsoleUsesKeyboard ==
  Spec => KbdSpec
<1>1. Init => KbdInit
  BY DEF Init
<1>2. [Next]_vars => [KbdNext]_kbdVars
  BY DEF Next, Kernel, ConsInit, CallGetchar, SerialIntr, KbdIntr, Take, TypeKey,
         SerialSends, SerialBreak, SerialArrives, vars, KbdNext, kbdVars
<1> QED
  BY <1>1, <1>2, PTL DEF Spec, KbdSpec

(* In the whole of console input, where the kernel comes for the bytes     *)
(* only when getchar() is called, the decoder's flags still follow the     *)
(* keys, and the machine is reset by Ctrl, Alt and Delete only.            *)
THEOREM ConsoleFlagsFollowKeys ==
  Spec => /\ [](PrefixConsumed /\ NoStuckModifier /\ HeldModifierKnown)
          /\ RebootOnlyOnCtrlAltDel
BY ConsoleUsesKeyboard, PrefixIsConsumed, NoModifierSticks, HeldModifiersKnown,
   OnlyCtrlAltDelReboots, PTL

---------------------------------------------------------------------------
(* The serial line's characters on their way: returned, waiting in the     *)
(* ring, waiting in the port.                                              *)

\* No serial character of s is after v, if v is one.
Below(s, v) == IsSerial(v) => \A a \in DOMAIN s : IsSerial(s[a]) => s[a] < v

\* All serial characters of s are before all of t.
Before(s, t) == \A b \in DOMAIN t : Below(s, t[b])

AtMost(s, v) == \A a \in DOMAIN s : IsSerial(s[a]) => s[a] <= v

Has(s, v) == \E a \in DOMAIN s : s[a] = v

\* The characters that getchar() can return, and "none".
Answer == Char \cup {0}

(* The three stages are in the order of the line, and everything sent is   *)
(* in one of them unless an overrun has been seen.                         *)
SerialInv ==
  /\ delivered \in Seq(Answer)
  /\ serial_exists => uart
  /\ InOrder(delivered) /\ InOrder(Contents)
  /\ Before(delivered, Contents) /\ Below(delivered, rx) /\ Below(Contents, rx)
  /\ AtMost(delivered, sent) /\ AtMost(Contents, sent) /\ (IsSerial(rx) => rx <= sent)
  /\ ~lost => \A v \in 1 .. sent : Has(delivered, v) \/ Has(Contents, v) \/ rx = v

\* A character that is not before the others goes behind them.
LEMMA AppendOrdered ==
  ASSUME NEW S, NEW s \in Seq(S), NEW v, InOrder(s), Below(s, v)
  PROVE  InOrder(Append(s, v))
<1> DEFINE t == Append(s, v)
<1>1. /\ Len(s) \in Nat /\ DOMAIN s = 1 .. Len(s) /\ DOMAIN t = 1 .. Len(s) + 1
      /\ \A a \in 1 .. Len(s) : t[a] = s[a]
      /\ t[Len(s) + 1] = v
  OBVIOUS
<1> HIDE DEF t
<1> SUFFICES ASSUME NEW a \in DOMAIN t, NEW b \in DOMAIN t, a < b, IsSerial(t[a]), IsSerial(t[b])
             PROVE  t[a] < t[b]
  BY DEF InOrder, t
<1>2. a \in 1 .. Len(s) /\ t[a] = s[a]
  BY <1>1
<1>3. CASE b \in 1 .. Len(s)
  BY <1>1, <1>2, <1>3 DEF InOrder
<1>4. CASE b = Len(s) + 1
  BY <1>1, <1>2, <1>4 DEF Below
<1> QED
  BY <1>1, <1>3, <1>4

\* What holds of all characters of s and of v holds of those of s with v.
LEMMA AppendMore ==
  ASSUME NEW S, NEW s \in Seq(S), NEW v
  PROVE  /\ \A u : Below(s, u) /\ (IsSerial(v) /\ IsSerial(u) => v < u) => Below(Append(s, v), u)
         /\ \A t : Before(t, s) /\ Below(t, v) => Before(t, Append(s, v))
         /\ \A u : AtMost(s, u) /\ (IsSerial(v) => v <= u) => AtMost(Append(s, v), u)
         /\ \A u : Has(s, u) => Has(Append(s, v), u)
         /\ Has(Append(s, v), v)
<1> DEFINE t == Append(s, v)
<1>1. /\ Len(s) \in Nat /\ DOMAIN s = 1 .. Len(s) /\ DOMAIN t = 1 .. Len(s) + 1
      /\ \A a \in 1 .. Len(s) : t[a] = s[a]
      /\ t[Len(s) + 1] = v
  OBVIOUS
<1> HIDE DEF t
<1>2. \A a \in DOMAIN t : (a \in DOMAIN s /\ t[a] = s[a]) \/ t[a] = v
  BY <1>1
<1>3. \A a \in DOMAIN s : a \in DOMAIN t /\ t[a] = s[a]
  BY <1>1
<1>4. \E a \in DOMAIN t : t[a] = v
  BY <1>1
<1>5. \A u : Below(s, u) /\ (IsSerial(v) /\ IsSerial(u) => v < u) => Below(t, u)
  BY <1>2 DEF Below
<1>6. \A q : Before(q, s) /\ Below(q, v) => Before(q, t)
  BY <1>2 DEF Before
<1>7. \A u : AtMost(s, u) /\ (IsSerial(v) => v <= u) => AtMost(t, u)
  BY <1>2 DEF AtMost
<1>8. (\A u : Has(s, u) => Has(t, u)) /\ Has(t, v)
  BY <1>3, <1>4 DEF Has
<1> QED
  BY <1>5, <1>6, <1>7, <1>8 DEF t

\* The oldest character of the ring, when it is returned.
LEMMA TailOrdered ==
  ASSUME NEW S, NEW t \in Seq(S), t # << >>, InOrder(t)
  PROVE  /\ InOrder(Tail(t)) /\ Before(<<Head(t)>>, Tail(t))
         /\ \A s : Before(s, t) => Below(s, Head(t)) /\ Before(s, Tail(t))
         /\ \A u : Below(t, u) => Below(Tail(t), u) /\ (IsSerial(Head(t)) /\ IsSerial(u) => Head(t) < u)
         /\ \A u : AtMost(t, u) => AtMost(Tail(t), u) /\ (IsSerial(Head(t)) => Head(t) <= u)
         /\ \A u : Has(t, u) => u = Head(t) \/ Has(Tail(t), u)
<1> DEFINE q == Tail(t)
           h == Head(t)
<1>1. /\ Len(t) \in Nat /\ Len(t) > 0 /\ DOMAIN t = 1 .. Len(t) /\ DOMAIN q = 1 .. Len(t) - 1
      /\ \A a \in 1 .. Len(t) - 1 : q[a] = t[a + 1]
      /\ h = t[1]
  OBVIOUS
<1> HIDE DEF q, h
<1>2. \A a \in DOMAIN q : a \in Nat /\ a > 0 /\ a + 1 \in DOMAIN t /\ q[a] = t[a + 1]
  BY <1>1
<1>3. 1 \in DOMAIN t /\ h = t[1]
  BY <1>1
<1>4. \A a \in DOMAIN t : a = 1 \/ (a - 1 \in DOMAIN q /\ q[a - 1] = t[a])
  <2> SUFFICES ASSUME NEW a \in DOMAIN t, a # 1 PROVE a - 1 \in DOMAIN q /\ q[a - 1] = t[a]
    OBVIOUS
  <2>1. a - 1 \in 1 .. Len(t) - 1 /\ (a - 1) + 1 = a
    BY <1>1
  <2> QED
    BY <1>1, <2>1
<1>5. InOrder(q)
  <2> SUFFICES ASSUME NEW a \in DOMAIN q, NEW b \in DOMAIN q, a < b, IsSerial(q[a]), IsSerial(q[b])
               PROVE  q[a] < q[b]
    BY DEF InOrder
  <2>1. a + 1 < b + 1 /\ a + 1 \in DOMAIN t /\ b + 1 \in DOMAIN t
    BY <1>2
  <2> QED
    BY <1>2, <2>1 DEF InOrder
<1>6. Before(<<h>>, q)
  <2> SUFFICES ASSUME NEW b \in DOMAIN q, IsSerial(q[b]), IsSerial(h)
               PROVE  h < q[b]
    BY DEF Before, Below
  <2>1. 1 < b + 1 /\ b + 1 \in DOMAIN t /\ q[b] = t[b + 1]
    BY <1>2
  <2> QED
    BY <1>3, <2>1 DEF InOrder
<1>7. \A s : Before(s, t) => Below(s, h) /\ Before(s, q)
  BY <1>2, <1>3 DEF Before
<1>8. \A u : Below(t, u) => Below(q, u) /\ (IsSerial(h) /\ IsSerial(u) => h < u)
  BY <1>2, <1>3 DEF Below
<1>9. \A u : AtMost(t, u) => AtMost(q, u) /\ (IsSerial(h) => h <= u)
  BY <1>2, <1>3 DEF AtMost
<1>10. \A u : Has(t, u) => u = h \/ Has(q, u)
  BY <1>3, <1>4 DEF Has
<1> QED
  BY <1>5, <1>6, <1>7, <1>8, <1>9, <1>10 DEF q, h

\* What cons_intr() does with a character, seen from the reader's side.
LEMMA StoreContents ==
  ASSUME Char = 1 .. 255, RingTypeOK, NEW ch \in Byte, Store(ch)
  PROVE  /\ Contents \in Seq(Answer)
         /\ \/ ch = 0 /\ Contents' = Contents
            \/ ch # 0 /\ Overruns(ch) /\ Contents' = << >>
            \/ ch # 0 /\ ~Overruns(ch) /\ Contents' = Append(Contents, ch)
<1>1. Contents \in Seq(Answer)
  BY ContentsSeq DEF Contents, RingTypeOK, Answer
<1>2. CASE ch = 0
  BY <1>1, <1>2 DEF Store, Contents, ringVars
<1>3. CASE ch # 0
  <2>1. ch \in Char /\ Put(ch)
    BY <1>3 DEF Store, Byte
  <2>2. Contents' = IF CountOf(rpos, wpos) = CONSBUFSIZE - 1 THEN << >> ELSE Append(Contents, ch)
    BY <2>1, PutContents
  <2>3. Overruns(ch) <=> CountOf(rpos, wpos) = CONSBUFSIZE - 1
    <3>1. Advance(wpos) = rpos <=> CountOf(rpos, wpos) = CONSBUFSIZE - 1
      BY RingAssumption DEF Advance, CountOf, RingTypeOK, Slots
    <3> QED
      BY <1>3, <3>1 DEF Overruns
  <2> QED
    BY <1>1, <1>3, <2>2, <2>3
<1> QED
  BY <1>2, <1>3

\* Stored behind the others, a character leaves the ring in order.
LEMMA StoreOrdered ==
  ASSUME Char = 1 .. 255, RingTypeOK, SerialInv, NEW ch \in Byte, Store(ch),
         Below(delivered, ch), Below(Contents, ch), IsSerial(ch) => ch <= sent
  PROVE  /\ InOrder(Contents') /\ Before(delivered, Contents') /\ AtMost(Contents', sent)
         /\ \A u : Below(Contents, u) /\ (IsSerial(ch) /\ IsSerial(u) => ch < u) => Below(Contents', u)
         /\ ~Overruns(ch) =>
              /\ \A u : Has(Contents, u) => Has(Contents', u)
              /\ ch # 0 => Has(Contents', ch)
<1>1. /\ InOrder(Contents) /\ Before(delivered, Contents) /\ AtMost(Contents, sent)
      /\ Contents \in Seq(Answer)
  BY StoreContents DEF SerialInv
<1>2. CASE ch = 0 /\ Contents' = Contents
  BY <1>1, <1>2
<1>3. CASE Overruns(ch) /\ Contents' = << >>
  <2> DEFINE t == << >>
  <2>1. InOrder(t) /\ Before(delivered, t) /\ AtMost(t, sent) /\ \A u : Below(t, u)
    BY DEF InOrder, Before, AtMost, Below
  <2> HIDE DEF t
  <2>2. Contents' = t
    BY <1>3 DEF t
  <2> QED
    BY <1>3, <2>1, <2>2
<1>4. CASE Contents' = Append(Contents, ch)
  <2> DEFINE t == Append(Contents, ch)
  <2>1. InOrder(t)
    BY <1>1, AppendOrdered
  <2>2. /\ \A u : Below(Contents, u) /\ (IsSerial(ch) /\ IsSerial(u) => ch < u) => Below(t, u)
        /\ Before(delivered, t) /\ AtMost(t, sent)
        /\ \A u : Has(Contents, u) => Has(t, u)
        /\ Has(t, ch)
    BY <1>1, AppendMore
  <2> HIDE DEF t
  <2>3. Contents' = t
    BY <1>4 DEF t
  <2> QED
    BY <2>1, <2>2, <2>3
<1> QED
  BY <1>2, <1>3, <1>4, StoreContents

\* The port's byte goes behind all that the ring holds.
LEMMA SerialIntrOrdered ==
  ASSUME Char = 1 .. 255, RingTypeOK, SerialByteOK, SerialInv, SerialIntr
  PROVE  SerialInv'
<1>1. delivered' = delivered /\ serial_exists' = serial_exists
  BY DEF SerialIntr
<1>2. CASE serial_exists /\ DataReady
  <2>1. /\ Store(ReadRX) /\ rx' = NoByte /\ sent' = sent /\ uart' = uart
        /\ ~lost' => ~lost /\ ~Overruns(ReadRX)
    BY <1>2 DEF SerialIntr
  <2>2. ReadRX = rx /\ rx \in Byte
    BY <1>2 DEF SerialInv, ReadRX, DataReady, SerialByteOK
  <2>3. ~IsSerial(NoByte) /\ ~IsSerial(0)
    BY DEF IsSerial, NoByte
  <2>4. /\ InOrder(Contents') /\ Before(delivered, Contents') /\ AtMost(Contents', sent)
        /\ ~Overruns(rx) =>
              /\ \A u : Has(Contents, u) => Has(Contents', u)
              /\ rx # 0 => Has(Contents', rx)
    BY <2>1, <2>2, StoreOrdered DEF SerialInv
  <2>5. Below(delivered, NoByte) /\ Below(Contents', NoByte)
    BY <2>3 DEF Below
  <2>6. ~lost' => \A v \in 1 .. sent : Has(delivered, v) \/ Has(Contents', v)
    BY <2>1, <2>2, <2>4 DEF SerialInv
  <2> QED
    BY <1>1, <2>1, <2>3, <2>4, <2>5, <2>6 DEF SerialInv
<1>3. CASE ~(serial_exists /\ DataReady)
  <2>1. UNCHANGED <<ringVars, serialVars, lost>>
    BY <1>3 DEF SerialIntr
  <2>2. Contents' = Contents
    BY <2>1 DEF ringVars, Contents
  <2> QED
    BY <1>1, <2>1, <2>2 DEF SerialInv, serialVars
<1> QED
  BY <1>2, <1>3

\* A key's character goes into the ring too, and does not disturb the line's.
LEMMA KbdIntrOrdered ==
  ASSUME Char = 1 .. 255, RingTypeOK, SerialInv, KbdIntr, ~IsSerial(kbd_c')
  PROVE  SerialInv'
<1>1. /\ delivered' = delivered /\ serial_exists' = serial_exists
      /\ uart' = uart /\ rx' = rx /\ sent' = sent
  BY DEF KbdIntr, serialVars
<1>2. CASE KbdProcData /\ Store(kbd_c') /\ lost' = (lost \/ Overruns(kbd_c'))
  <2> DEFINE ch == kbd_c'
  <2>1. ch \in Byte /\ Store(ch) /\ (~lost' => ~lost /\ ~Overruns(ch)) /\ ~IsSerial(ch)
    BY <1>2, KbdByte
  <2> HIDE DEF ch
  <2>2. Below(delivered, ch) /\ Below(Contents, ch)
    BY <2>1 DEF Below
  <2>3. /\ InOrder(Contents') /\ Before(delivered, Contents') /\ AtMost(Contents', sent)
        /\ \A u : Below(Contents, u) => Below(Contents', u)
        /\ ~Overruns(ch) => \A u : Has(Contents, u) => Has(Contents', u)
    BY <2>1, <2>2, StoreOrdered
  <2> QED
    BY <1>1, <2>1, <2>3 DEF SerialInv
<1>3. CASE UNCHANGED <<ringVars, lost>>
  <2>1. Contents' = Contents /\ lost' = lost
    BY <1>3 DEF ringVars, Contents
  <2> QED
    BY <1>1, <2>1 DEF SerialInv
<1> QED
  BY <1>2, <1>3 DEF KbdIntr

\* getchar() returns the oldest character.
LEMMA TakeOrdered ==
  ASSUME RingTypeOK, SerialInv, Take
  PROVE  SerialInv'
<1>1. /\ serial_exists' = serial_exists /\ uart' = uart /\ rx' = rx /\ sent' = sent /\ lost' = lost
      /\ Contents \in Seq(Answer)
  BY ContentsSeq DEF Take, serialVars, Contents, RingTypeOK, Answer
<1>2. CASE Get /\ delivered' = Append(delivered, got')
  <2> DEFINE h == Head(Contents)
             t == Tail(Contents)
             d == Append(delivered, h)
  <2>1. Contents # << >> /\ h = got' /\ Contents' = t /\ delivered' = d
    BY <1>2, GetContents DEF Get
  <2>2. /\ InOrder(t) /\ Before(<<h>>, t)
        /\ Below(delivered, h) /\ Before(delivered, t)
        /\ Below(t, rx) /\ (IsSerial(h) /\ IsSerial(rx) => h < rx)
        /\ AtMost(t, sent) /\ (IsSerial(h) => h <= sent)
        /\ \A u : Has(Contents, u) => u = h \/ Has(t, u)
    BY <1>1, <2>1, TailOrdered DEF SerialInv
  <2>3. h \in Answer
    BY <1>1, <2>1
  <2> HIDE DEF h, t
  <2>4. d \in Seq(Answer) /\ InOrder(d)
    BY <2>2, <2>3, AppendOrdered DEF SerialInv
  <2>5. /\ Below(d, rx) /\ AtMost(d, sent)
        /\ \A u : Has(delivered, u) => Has(d, u)
        /\ Has(d, h)
    BY <2>2, AppendMore DEF SerialInv
  <2>6. Before(d, t)
    <3>1. ASSUME NEW b \in DOMAIN t PROVE Below(d, t[b])
      <4>1. Below(delivered, t[b]) /\ (IsSerial(h) /\ IsSerial(t[b]) => h < t[b])
        BY <2>2 DEF Before, Below
      <4> QED
        BY <4>1, AppendMore DEF SerialInv
    <3> QED
      BY <3>1 DEF Before
  <2> HIDE DEF d
  <2>7. ~lost => \A v \in 1 .. sent : Has(d, v) \/ Has(t, v) \/ rx = v
    BY <2>2, <2>5 DEF SerialInv
  <2> QED
    BY <1>1, <2>1, <2>2, <2>4, <2>5, <2>6, <2>7 DEF SerialInv
<1>3. CASE GetNone /\ delivered' = delivered
  <2>1. Contents' = Contents
    BY <1>3, NoContents
  <2> QED
    BY <1>1, <1>3, <2>1 DEF SerialInv
<1> QED
  BY <1>2, <1>3 DEF Take

\* A byte arrives, or the port is emptied: what it held is overwritten or dropped.
LEMMA PortOrdered ==
  ASSUME SerialByteOK, SerialInv, SerialSends \/ SerialBreak \/ ConsInit
  PROVE  SerialInv'
<1>1. Contents' = Contents /\ delivered' = delivered /\ uart' = uart
  BY DEF SerialSends, SerialBreak, ConsInit, SerialArrives, ringVars, Contents
<1>2. (serial_exists => uart)'
  BY <1>1 DEF SerialInv, SerialSends, SerialBreak, ConsInit, SerialArrives
<1>3. ~lost' => ~lost /\ rx \in {NoByte, 0}
  BY DEF SerialSends, SerialBreak, ConsInit, SerialArrives
<1>4. CASE SerialSends
  <2>1. rx' = sent + 1 /\ sent' = sent + 1
    BY <1>4 DEF SerialSends, SerialArrives
  <2>2. ASSUME NEW s, AtMost(s, sent) PROVE Below(s, sent + 1) /\ AtMost(s, sent + 1)
    <3>1. sent \in Nat /\ MaxSerial \in Nat
      BY ConsoleAssumption DEF SerialByteOK
    <3>2. \A a \in DOMAIN s : IsSerial(s[a]) => s[a] < sent + 1 /\ s[a] <= sent + 1
      BY <2>2, <3>1 DEF AtMost, IsSerial
    <3> QED
      BY <3>2 DEF AtMost, Below
  <2>3. ASSUME ~lost', NEW v \in 1 .. sent + 1
        PROVE  Has(delivered, v) \/ Has(Contents, v) \/ sent + 1 = v
    <3>1. sent \in Nat
      BY ConsoleAssumption DEF SerialByteOK
    <3>2. v \in 1 .. sent \/ v = sent + 1
      BY <3>1
    <3>3. ASSUME v \in 1 .. sent PROVE Has(delivered, v) \/ Has(Contents, v)
      BY <1>3, <2>3, <3>1, <3>3 DEF SerialInv, NoByte
    <3> QED
      BY <3>2, <3>3
  <2>4. sent + 1 <= sent + 1
    BY ConsoleAssumption DEF SerialByteOK
  <2> QED
    BY <1>1, <1>2, <2>1, <2>2, <2>3, <2>4 DEF SerialInv
<1>5. CASE SerialBreak \/ ConsInit
  <2>1. rx' \in {NoByte, 0} /\ sent' = sent
    BY <1>5 DEF SerialBreak, ConsInit, SerialArrives
  <2>2. ~IsSerial(rx')
    BY <2>1 DEF IsSerial, NoByte
  <2>3. Below(delivered, rx') /\ Below(Contents, rx')
    BY <2>2 DEF Below
  <2>4. ASSUME ~lost', NEW v \in 1 .. sent
        PROVE  Has(delivered, v) \/ Has(Contents, v)
    BY <1>3, <2>4 DEF SerialInv, NoByte
  <2> QED
    BY <1>1, <1>2, <2>1, <2>2, <2>3, <2>4 DEF SerialInv
<1> QED
  BY <1>4, <1>5

\* Every step keeps the three stages in order.
LEMMA SerialOrderStep ==
  ASSUME Char = 1 .. 255, RingTypeOK, SerialByteOK, SerialInv, ~IsSerial(kbd_c'), [Next]_vars
  PROVE  SerialInv'
<1>1. CASE SerialIntr \/ KbdIntr \/ Take \/ ConsInit \/ SerialSends \/ SerialBreak
  BY <1>1, SerialIntrOrdered, KbdIntrOrdered, TakeOrdered, PortOrdered
<1>2. CASE CallGetchar \/ TypeKey \/ UNCHANGED vars
  <2>1. UNCHANGED <<ringVars, serialVars, serial_exists, lost, delivered>>
    BY <1>2 DEF CallGetchar, TypeKey, vars
  <2>2. Contents' = Contents
    BY <2>1 DEF ringVars, Contents
  <2> QED
    BY <2>1, <2>2 DEF SerialInv, serialVars
<1> QED
  BY <1>1, <1>2 DEF Next, Kernel

\* Nothing is on its way at first.
LEMMA SerialOrderStart == Init => SerialInv
<1> SUFFICES ASSUME Init PROVE SerialInv
  OBVIOUS
<1> DEFINE t == << >>
<1>1. InOrder(t) /\ Before(t, t) /\ AtMost(t, 0) /\ (\A u : Below(t, u)) /\ t \in Seq(Answer)
  BY DEF InOrder, Before, AtMost, Below
<1>2. RingTypeOK /\ CountOf(rpos, wpos) = 0
  BY RingAssumption DEF Init, RingInit, RingTypeOK, Slots, CountOf
<1>3. Contents = t
  BY <1>2, ContentsSeq DEF Contents, RingTypeOK
<1>4. delivered = t /\ sent = 0 /\ rx = NoByte /\ ~IsSerial(rx) /\ serial_exists = FALSE
  BY DEF Init, IsSerial, NoByte
<1> HIDE DEF t
<1> QED
  BY <1>1, <1>3, <1>4 DEF SerialInv

(* The keyboard types no character that the serial line sends as well: the *)
(* two would not be told apart in what getchar() returns.                  *)
KeysApart == ~IsSerial(kbd_c)

\* The serial invariant holds as long as the two can be told apart.
LEMMA SerialInvariant ==
  ASSUME Char = 1 .. 255
  PROVE  Spec /\ []KeysApart => []SerialInv
<1>1. RingTypeOK /\ SerialByteOK /\ SerialInv /\ KeysApart' /\ [Next]_vars => SerialInv'
  BY SerialOrderStep DEF KeysApart
<1> QED
  BY <1>1, SerialOrderStart, SerialBytes, ConsoleRingTypeCorrect, PTL DEF Spec

(* Whatever the two devices do between the kernel's steps and whatever is  *)
(* lost to overruns, getchar() returns the line's characters in the order  *)
(* of the line and none of them twice.                                     *)
THEOREM SerialStaysInOrder ==
  ASSUME Char = 1 .. 255
  PROVE  Spec /\ []KeysApart => []SerialInOrder
<1>1. SerialInv => SerialInOrder
  BY DEF SerialInv, SerialInOrder
<1> QED
  BY <1>1, SerialInvariant, PTL

(* Without an overrun every character sent is in one of the three places,  *)
(* in the order of the line: cons_intr() and cons_getc() lose none.        *)
THEOREM NothingElseIsLost ==
  ASSUME Char = 1 .. 255
  PROVE  Spec /\ []KeysApart => []NothingElseLost
<1>1. RingTypeOK /\ SerialByteOK /\ SerialInv => NothingElseLost
  <2> SUFFICES ASSUME RingTypeOK, SerialByteOK, SerialInv, ~lost PROVE NothingElseLost
    BY DEF NothingElseLost
  <2> DEFINE d == delivered
             t == Contents
             all == (d \o t) \o <<rx>>
             p == Len(d)
             q == Len(t)
  <2>1. d \in Seq(Answer) /\ t \in Seq(Answer)
    BY ContentsSeq DEF SerialInv, Contents, RingTypeOK, Answer
  <2> HIDE DEF d, t
  <2>2. /\ p \in Nat /\ q \in Nat /\ DOMAIN d = 1 .. p /\ DOMAIN t = 1 .. q
        /\ DOMAIN all = 1 .. p + q + 1
    BY <2>1
  <2>3. /\ \A a \in 1 .. p : all[a] = d[a]
        /\ \A a \in 1 .. q : all[p + a] = t[a]
        /\ all[p + q + 1] = rx
    BY <2>1
  <2> HIDE DEF all, p, q
  <2>4. /\ InOrder(d) /\ InOrder(t) /\ Before(d, t) /\ Below(d, rx) /\ Below(t, rx)
        /\ \A v \in 1 .. sent : Has(d, v) \/ Has(t, v) \/ rx = v
    BY DEF SerialInv, d, t
  <2>5. InOrder(all)
    <3> SUFFICES ASSUME NEW a \in DOMAIN all, NEW b \in DOMAIN all, a < b,
                        IsSerial(all[a]), IsSerial(all[b])
                 PROVE  all[a] < all[b]
      BY DEF InOrder
    <3>1. CASE b \in 1 .. p
      <4>1. a \in 1 .. p
        BY <2>2, <3>1
      <4> QED
        BY <2>2, <2>3, <2>4, <3>1, <4>1 DEF InOrder
    <3>2. CASE b \in p + 1 .. p + q
      <4>1. b - p \in 1 .. q /\ p + (b - p) = b
        BY <2>2, <3>2
      <4>2. all[b] = t[b - p]
        BY <2>3, <4>1
      <4>3. CASE a \in 1 .. p
        BY <2>2, <2>3, <2>4, <4>1, <4>2, <4>3 DEF Before, Below
      <4>4. CASE a \in p + 1 .. p + q
        <5>1. a - p \in 1 .. q /\ p + (a - p) = a /\ a - p < b - p
          BY <2>2, <4>4, <4>1
        <5>2. all[a] = t[a - p]
          BY <2>3, <5>1
        <5> QED
          BY <2>2, <2>4, <4>1, <4>2, <5>1, <5>2 DEF InOrder
      <4> QED
        BY <2>2, <3>2, <4>3, <4>4
    <3>3. CASE b = p + q + 1
      <4>1. CASE a \in 1 .. p
        BY <2>2, <2>3, <2>4, <3>3, <4>1 DEF Below
      <4>2. CASE a \in p + 1 .. p + q
        <5>1. a - p \in 1 .. q /\ p + (a - p) = a
          BY <2>2, <4>2
        <5>2. all[a] = t[a - p]
          BY <2>3, <5>1
        <5> QED
          BY <2>2, <2>3, <2>4, <3>3, <5>1, <5>2 DEF Below
      <4> QED
        BY <2>2, <3>3, <4>1, <4>2
    <3> QED
      BY <2>2, <3>1, <3>2, <3>3
  <2>6. ASSUME NEW v \in 1 .. sent PROVE \E a \in DOMAIN all : all[a] = v
    <3>1. CASE Has(d, v)
      <4>1. PICK a \in DOMAIN d : d[a] = v
        BY <3>1 DEF Has
      <4>2. a \in DOMAIN all /\ all[a] = v
        BY <2>2, <2>3, <4>1
      <4> QED
        BY <4>2
    <3>2. CASE Has(t, v)
      <4>1. PICK a \in DOMAIN t : t[a] = v
        BY <3>2 DEF Has
      <4>2. p + a \in DOMAIN all /\ all[p + a] = v
        BY <2>2, <2>3, <4>1
      <4> QED
        BY <4>2
    <3>3. CASE rx = v
      <4>1. p + q + 1 \in DOMAIN all /\ all[p + q + 1] = v
        BY <2>2, <2>3, <3>3
      <4> QED
        BY <4>1
    <3> QED
      BY <2>4, <3>1, <3>2, <3>3
  <2> QED
    BY <2>5, <2>6 DEF NothingElseLost, all, d, t
<1> QED
  BY <1>1, SerialInvariant, SerialBytes, ConsoleRingTypeCorrect, PTL
===========================================================================
