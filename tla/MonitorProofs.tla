--------------------------- MODULE MonitorProofs ---------------------------
(***************************************************************************)
(* The line editor and runcmd() for a buffer of any size, any number of    *)
(* arguments and any line: neither leaves its buffer or its array, the     *)
(* line on the screen is the line in the buffer, and runcmd(), which cuts  *)
(* the line in place, gives a command the line's words.                    *)
(***************************************************************************)
EXTENDS Monitor, FiniteSetTheorems, FunctionTheorems, SequenceTheorems, TLAPS

(* While a line is read the buffer holds what was typed; then it is        *)
(* terminated, and runcmd() has not passed the NUL.                        *)
LineHeld ==
  /\ pc = "read" => \A k \in 0 .. i - 1 : buf[k] \in Typed
  /\ pc \in {"gobble", "scan", "lookup"} =>
       Len(typed) = i /\ buf[i] = 0 /\ p <= i

(* Behind p the blanks of the line are NULs, nothing else has changed.     *)
LineCut ==
  pc \in {"gobble", "scan", "lookup"} =>
    \A k \in 0 .. i - 1 :
      buf[k] = IF k < p /\ typed[k + 1] \in WHITESPACE THEN 0 ELSE typed[k + 1]

(* The arguments so far are the words that start before p, in their order; *)
(* in the middle of a word, it is the last of them.                        *)
ArgsAreWords ==
  pc \in {"gobble", "scan", "lookup"} =>
    /\ \A j \in 0 .. argc - 1 : argv[j] \in 0 .. i - 1 /\ argv[j] + 1 \in Starts(typed)
    /\ \A j, k \in 0 .. argc - 1 : j < k => argv[j] < argv[k]
    /\ \A k \in 0 .. p - 1 : k + 1 \in Starts(typed) => \E j \in 0 .. argc - 1 : argv[j] = k

AtPointer ==
  /\ pc = "gobble" =>
       /\ \A j \in 0 .. argc - 1 : argv[j] < p
       /\ p = 0 \/ p = i \/ typed[p] \in WHITESPACE \/ typed[p + 1] \in WHITESPACE
  /\ pc = "scan" =>
       /\ argc > 0 /\ argv[argc - 1] <= p
       /\ \A k \in argv[argc - 1] .. p - 1 : typed[k + 1] \notin WHITESPACE
  /\ pc = "lookup" => p = i

Safe ==
  /\ TypeOK /\ PanicReportedOnce /\ (pc = "boot" => ~panicstr)
  /\ EchoIsLine /\ LineHeld

Cut == LineCut /\ ArgsAreWords /\ AtPointer

\* The assumptions without the commands' names.
LEMMA Sizes ==
  /\ BUFLEN \in Nat \ {0} /\ MAXARGS \in Nat \ {0} /\ MaxMonitors \in Nat \ {0}
  /\ Typed \subseteq 1 .. 255
BY MonitorAssumption

USE Sizes

---------------------------------------------------------------------------
\* The lines of readline().

\* The first n characters of a buffer, as a line.
LineIn(b, n) == [k \in 1 .. n |-> b[k - 1]]

\* It is one if those characters were typed.
LEMMA LineOfBuffer ==
  ASSUME NEW b \in [Index -> 0 .. 255], NEW n \in Index,
         \A k \in 0 .. n - 1 : b[k] \in Typed
  PROVE  LineIn(b, n) \in Seq(Typed) /\ Len(LineIn(b, n)) = n
<1>1. n \in Nat /\ \A k \in 1 .. n : b[k - 1] \in Typed
  BY DEF Index
<1> QED
  BY <1>1 DEF LineIn

\* A key appended to the line on the screen and stored in the buffer.
LEMMA AppendKey ==
  ASSUME NEW b \in [Index -> 0 .. 255], NEW n \in Index, n + 1 \in Index,
         \A k \in 0 .. n - 1 : b[k] \in Typed, NEW ch \in Typed,
         NEW c, c = [b EXCEPT ![n] = ch]
  PROVE  /\ Append(LineIn(b, n), ch) = LineIn(c, n + 1)
         /\ \A k \in 0 .. n : c[k] \in Typed
<1> DEFINE s == LineIn(b, n)
           t == LineIn(c, n + 1)
<1>1. n \in Nat /\ n < BUFLEN - 1
  BY DEF Index
<1>2. c \in [Index -> 0 .. 255] /\ \A k \in 0 .. n : c[k] = IF k = n THEN ch ELSE b[k]
  BY <1>1 DEF Index
<1>3. \A k \in 0 .. n : c[k] \in Typed
  BY <1>1, <1>2
<1>4. s \in Seq(Typed) /\ Len(s) = n
  BY LineOfBuffer
<1>5. t \in Seq(Typed) /\ Len(t) = n + 1
  <2>1. \A k \in 0 .. (n + 1) - 1 : c[k] \in Typed
    BY <1>1, <1>3
  <2> QED
    BY <1>2, <2>1, LineOfBuffer
<1>6. Append(s, ch) \in Seq(Typed) /\ Len(Append(s, ch)) = n + 1
  <2> HIDE DEF s
  <2> QED
    BY <1>4, AppendProperties
<1>7. \A k \in 1 .. n + 1 : Append(s, ch)[k] = t[k]
  BY <1>1, <1>2, <1>4, AppendProperties DEF LineIn
<1>8. Append(s, ch) = t
  <2> HIDE DEF s, t
  <2> QED
    BY <1>5, <1>6, <1>7, SeqEqual
<1> QED
  BY <1>3, <1>8

\* The last key erased.
LEMMA EraseKey ==
  ASSUME NEW b \in [Index -> 0 .. 255], NEW n \in Index, n > 0,
         \A k \in 0 .. n - 1 : b[k] \in Typed
  PROVE  Front(LineIn(b, n)) = LineIn(b, n - 1)
<1> DEFINE s == LineIn(b, n)
           t == LineIn(b, n - 1)
<1>1. s \in Seq(Typed) /\ Len(s) = n
  BY LineOfBuffer
<1>2. n - 1 \in Index /\ n \in Nat /\ \A k \in 0 .. n - 2 : b[k] \in Typed
  BY DEF Index
<1>3. t \in Seq(Typed) /\ Len(t) = n - 1
  BY <1>2, LineOfBuffer
<1>4. Front(s) = SubSeq(s, 1, n - 1)
  BY <1>1 DEF Front
<1>5. \A k \in 1 .. n - 1 : s[k] \in Typed /\ s[k] = t[k]
  BY <1>2 DEF LineIn
<1>6. /\ SubSeq(s, 1, n - 1) \in Seq(Typed) /\ Len(SubSeq(s, 1, n - 1)) = n - 1
      /\ \A k \in 1 .. n - 1 : SubSeq(s, 1, n - 1)[k] = s[k]
  BY <1>2, <1>5, SubSeqProperties
<1>7. \A k \in 1 .. n - 1 : SubSeq(s, 1, n - 1)[k] = t[k]
  BY <1>5, <1>6
<1>8. Front(s) = t
  <2> HIDE DEF s, t
  <2> QED
    BY <1>3, <1>4, <1>6, <1>7, SeqEqual
<1> QED
  BY <1>8

---------------------------------------------------------------------------
\* A new prompt, and a panic, from any state.
LEMMA PromptSafe ==
  ASSUME Safe, Prompt, UNCHANGED <<buf, argVars>>,
         panicstr' \in BOOLEAN, UNCHANGED debugInfo,
         reports' = IF panicstr' THEN 1 ELSE 0,
         panicstr' <=> ~debugInfo, monitors' \in 0 .. MaxMonitors
  PROVE  Safe'
<1>1. TypeOK'
  <2>1. /\ pc' = "read" /\ i' = 0 /\ shown' = << >> /\ typed' = << >>
        /\ ran'.what = "nothing"
    BY DEF Prompt, Nothing, Outcome
  <2>2. << >> \in Seq(Typed) /\ 0 \in Index
    BY DEF Index
  <2>3. buf' = buf /\ p' = p /\ argc' = argc /\ argv' = argv /\ debugInfo' = debugInfo
    BY DEF argVars
  <2>4. reports' \in 0 .. 1
    OBVIOUS
  <2> QED
    BY <2>1, <2>2, <2>3, <2>4 DEF Safe, TypeOK
<1>2. PanicReportedOnce' /\ (pc = "boot" => ~panicstr)'
  BY DEF PanicReportedOnce, Prompt
<1>3. shown' = [k \in 1 .. 0 |-> buf[k - 1]]
  BY DEF Prompt
<1>4. EchoIsLine' /\ LineHeld'
  BY <1>3 DEF EchoIsLine, LineHeld, Prompt
<1> QED
  BY <1>1, <1>2, <1>4 DEF Safe

\* Every step of the monitor keeps the line, its words and the frames in range.
LEMMA SafeStep == Safe /\ [Next]_vars => Safe'
<1> SUFFICES ASSUME Safe, [Next]_vars
             PROVE  Safe'
  OBVIOUS
<1> USE DEF Safe
<1>1. ASSUME Panic, UNCHANGED <<buf, argVars>>, panicstr \/ ~debugInfo
      PROVE  Safe'
  <2>1. monitors' \in 0 .. MaxMonitors
    <3>1. monitors \in 0 .. MaxMonitors
      BY DEF TypeOK
    <3>2. monitors < MaxMonitors /\ monitors' = monitors + 1
      BY <1>1 DEF Panic
    <3> QED
      BY <3>1, <3>2
  <2>2. panicstr' = TRUE /\ debugInfo' = debugInfo
    BY <1>1 DEF Panic
  <2>3. ~debugInfo
    BY <1>1 DEF PanicReportedOnce
  <2>4. reports' = 1
    BY <1>1 DEF Panic, PanicReportedOnce
  <2> QED
    BY <1>1, <2>1, <2>2, <2>3, <2>4, PromptSafe DEF Panic
<1>2. CASE Boot
  <2>1. CASE debugInfo
    <3>1. /\ Prompt /\ UNCHANGED <<buf, argVars>>
          /\ monitors' = 1 /\ UNCHANGED <<panicstr, reports, debugInfo>>
      BY <1>2, <2>1 DEF Boot
    <3>2. ~panicstr /\ panicstr \in BOOLEAN /\ reports = 0
      BY <1>2 DEF Boot, PanicReportedOnce, TypeOK
    <3>3. monitors' \in 0 .. MaxMonitors
      BY <3>1
    <3> QED
      BY <2>1, <3>1, <3>2, <3>3, PromptSafe
  <2>2. CASE ~debugInfo
    BY <1>1, <1>2, <2>2 DEF Boot
  <2> QED
    BY <2>1, <2>2
<1>3. /\ buf \in [Index -> 0 .. 255] /\ i \in Index
      /\ shown \in Seq(Typed) /\ typed \in Seq(Typed)
  BY DEF TypeOK
<1>a. /\ p \in Index /\ argc \in 0 .. MAXARGS - 1
      /\ argv \in [0 .. MAXARGS - 1 -> Index \cup {NULL}]
  BY DEF TypeOK
<1>t. /\ panicstr \in BOOLEAN /\ debugInfo \in BOOLEAN
      /\ reports \in 0 .. 1 /\ monitors \in 0 .. MaxMonitors
      /\ ran.what \in Commands \cup {"nothing", "empty", "unknown", "too many"}
  BY DEF TypeOK
<1>4. ASSUME NEW ch \in Typed, Backspace(ch)
      PROVE  Safe'
  <2>1. pc = "read" /\ pc' = "read" /\ i' = i - 1 /\ i > 0 /\ shown' = Front(shown)
        /\ UNCHANGED <<buf, typed, argVars, panicVars, ran>>
    BY <1>4 DEF Backspace
  <2>2. \A k \in 0 .. i - 1 : buf[k] \in Typed
    BY <2>1 DEF LineHeld
  <2>3. i' \in Index /\ \A k \in 0 .. i' - 1 : buf[k] \in Typed
    BY <1>3, <2>1, <2>2 DEF Index
  <2>4. shown' = LineIn(buf, i')
    <3>1. shown = LineIn(buf, i)
      BY <2>1 DEF EchoIsLine, LineIn
    <3> QED
      BY <1>3, <2>1, <2>2, <3>1, EraseKey
  <2>5. shown' \in Seq(Typed)
    BY <1>3, <2>3, <2>4, LineOfBuffer
  <2>6. TypeOK'
    BY <1>3, <1>a, <1>t, <2>1, <2>3, <2>5 DEF TypeOK, argVars, panicVars
  <2> QED
    BY <2>1, <2>3, <2>4, <2>6 DEF LineIn, EchoIsLine, LineHeld, PanicReportedOnce, panicVars
<1>5. ASSUME NEW ch \in Typed, Text(ch)
      PROVE  Safe'
  <2>1. /\ pc = "read" /\ pc' = "read" /\ i' = i + 1 /\ i < BUFLEN - 1 /\ shown' = Append(shown, ch)
        /\ buf' = [buf EXCEPT ![i] = ch]
        /\ UNCHANGED <<typed, argVars, panicVars, ran>>
    BY <1>5 DEF Text
  <2>2. \A k \in 0 .. i - 1 : buf[k] \in Typed
    BY <2>1 DEF LineHeld
  <2>3. i' \in Index /\ buf' \in [Index -> 0 .. 255] /\ i' - 1 = i
    BY <1>3, <2>1 DEF Index
  <2>4. shown' = LineIn(buf', i') /\ \A k \in 0 .. i' - 1 : buf'[k] \in Typed
    <3>1. shown = LineIn(buf, i)
      BY <2>1 DEF EchoIsLine, LineIn
    <3>2. i + 1 \in Index /\ buf' = [buf EXCEPT ![i] = ch]
      BY <2>1, <2>3
    <3>3. /\ Append(LineIn(buf, i), ch) = LineIn(buf', i + 1)
          /\ \A k \in 0 .. i : buf'[k] \in Typed
      BY ZenonT(60), <1>3, <1>5, <2>2, <3>2, AppendKey
    <3> QED
      BY <2>1, <2>3, <3>1, <3>3
  <2>5. shown' \in Seq(Typed)
    BY <1>3, <2>1, AppendProperties
  <2>6. TypeOK'
    BY <1>3, <1>a, <1>t, <2>1, <2>3, <2>5 DEF TypeOK, argVars, panicVars
  <2> QED
    BY <2>1, <2>4, <2>6 DEF LineIn, EchoIsLine, LineHeld, PanicReportedOnce, panicVars
<1>6. ASSUME NEW ch \in Typed, Enter(ch)
      PROVE  Safe'
  <2>1. /\ pc = "read" /\ pc' = "gobble" /\ buf' = [buf EXCEPT ![i] = 0]
        /\ typed' = [k \in 1 .. i |-> buf[k - 1]]
        /\ p' = 0 /\ argc' = 0 /\ argv' = [argv EXCEPT ![0] = NULL]
        /\ UNCHANGED <<i, shown, panicVars, ran>>
    BY <1>6 DEF Enter
  <2>2. typed' \in Seq(Typed) /\ Len(typed') = i
    <3>1. typed' = LineIn(buf, i)
      BY <2>1 DEF LineIn
    <3> QED
      BY ZenonT(60), <1>3, <2>1, <3>1, LineOfBuffer DEF LineHeld
  <2>3. buf' \in [Index -> 0 .. 255] /\ buf'[i] = 0 /\ 0 \in Index /\ 0 <= i
    BY <1>3, <2>1 DEF Index
  <2>4. argv' \in [0 .. MAXARGS - 1 -> Index \cup {NULL}] /\ 0 \in 0 .. MAXARGS - 1
    BY <1>a, <2>1
  <2>5. TypeOK'
    BY <1>3, <1>a, <1>t, <2>1, <2>2, <2>3, <2>4 DEF TypeOK, panicVars
  <2> QED
    BY <2>1, <2>2, <2>3, <2>5 DEF EchoIsLine, LineHeld, PanicReportedOnce, panicVars
<1>7. ASSUME pc' # "read", pc' # "boot", pc # "boot", UNCHANGED <<i, shown, typed, panicVars>>,
             TypeOK', pc' \in {"gobble", "scan", "lookup"} => Len(typed) = i /\ buf'[i] = 0 /\ p' <= i
      PROVE  Safe'
  BY <1>7 DEF EchoIsLine, LineHeld, PanicReportedOnce, panicVars
<1>8. pc \in {"gobble", "scan", "lookup"} => Len(typed) = i /\ buf[i] = 0 /\ p <= i
  BY DEF LineHeld
<1>9. CASE Gobble
  <2>1. /\ pc = "gobble" /\ pc' = "gobble" /\ AtSpace
        /\ buf' = [buf EXCEPT ![p] = 0] /\ p' = p + 1
        /\ UNCHANGED <<i, shown, typed, argc, argv, panicVars, ran>>
    BY <1>9 DEF Gobble
  <2>2. p # i
    BY <1>8, <2>1 DEF AtSpace, WHITESPACE, CR, NL, Space
  <2>3. p' \in Index /\ p' <= i
    BY <1>3, <1>a, <1>8, <2>1, <2>2 DEF Index
  <2>4. buf' \in [Index -> 0 .. 255] /\ buf'[i] = 0
    BY <1>3, <1>a, <1>8, <2>1, <2>2
  <2>5. TypeOK'
    BY <1>3, <1>a, <1>t, <2>1, <2>3, <2>4 DEF TypeOK, panicVars
  <2> QED
    BY <1>7, <1>8, <2>1, <2>3, <2>4, <2>5
<1>10. CASE TooMany
  <2>1. /\ pc = "gobble" /\ pc' = "done" /\ ran'.what = "too many"
        /\ UNCHANGED <<lineVars, argVars, panicVars>>
    BY <1>10 DEF TooMany, Outcome
  <2>2. TypeOK'
    BY <1>3, <1>a, <1>t, <2>1 DEF TypeOK, lineVars, argVars, panicVars
  <2> QED
    BY <1>7, <2>1, <2>2 DEF lineVars
<1>11. CASE SaveArg
  <2>1. /\ pc = "gobble" /\ pc' = "scan" /\ argc # MAXARGS - 1
        /\ argv' = [argv EXCEPT ![argc] = p] /\ argc' = argc + 1
        /\ UNCHANGED <<lineVars, p, panicVars, ran>>
    BY <1>11 DEF SaveArg
  <2>2. argc' \in 0 .. MAXARGS - 1 /\ argv' \in [0 .. MAXARGS - 1 -> Index \cup {NULL}]
    BY <1>a, <2>1
  <2>3. TypeOK'
    BY <1>3, <1>a, <1>t, <2>1, <2>2 DEF TypeOK, lineVars, panicVars
  <2> QED
    BY <1>7, <1>8, <2>1, <2>3 DEF lineVars
<1>12. CASE Scan
  <2>1. /\ pc = "scan" /\ pc' \in {"gobble", "scan"}
        /\ p' = p \/ (p' = p + 1 /\ buf[p] # 0)
        /\ UNCHANGED <<lineVars, argc, argv, panicVars, ran>>
    BY <1>12 DEF Scan, AtEnd
  <2>2. p' \in Index /\ p' <= i
    BY <1>3, <1>a, <1>8, <2>1 DEF Index
  <2>3. TypeOK'
    BY <1>3, <1>a, <1>t, <2>1, <2>2 DEF TypeOK, lineVars, panicVars
  <2> QED
    BY <1>7, <1>8, <2>1, <2>2, <2>3 DEF lineVars
<1>13. CASE ArgsDone
  <2>1. /\ pc = "gobble" /\ pc' = "lookup" /\ argv' = [argv EXCEPT ![argc] = NULL]
        /\ UNCHANGED <<lineVars, p, argc, panicVars, ran>>
    BY <1>13 DEF ArgsDone
  <2>2. argv' \in [0 .. MAXARGS - 1 -> Index \cup {NULL}]
    BY <1>a, <2>1
  <2>3. TypeOK'
    BY <1>3, <1>a, <1>t, <2>1, <2>2 DEF TypeOK, lineVars, panicVars
  <2> QED
    BY <1>7, <1>8, <2>1, <2>3 DEF lineVars
<1>14. CASE Lookup
  <2>1. /\ pc = "lookup" /\ pc' = "done"
        /\ ran'.what \in Commands \cup {"empty", "unknown"}
        /\ UNCHANGED <<lineVars, argVars, panicVars>>
    BY <1>14 DEF Lookup, Outcome
  <2>2. TypeOK'
    BY <1>3, <1>a, <1>t, <2>1 DEF TypeOK, lineVars, argVars, panicVars
  <2> QED
    BY <1>7, <2>1, <2>2 DEF lineVars
<1>15. CASE LookupPanics
  BY <1>1, <1>15 DEF LookupPanics
<1>16. CASE Again
  <2>1. /\ pc = "done" /\ Prompt /\ UNCHANGED <<buf, argVars>>
        /\ panicstr' = panicstr /\ reports' = reports /\ monitors' = monitors /\ debugInfo' = debugInfo
    BY <1>16 DEF Again, panicVars
  <2>2. (panicstr <=> ~debugInfo) /\ reports = IF panicstr THEN 1 ELSE 0
    BY <2>1 DEF PanicReportedOnce
  <2> QED
    BY <1>t, <2>1, <2>2, PromptSafe
<1>17. CASE UNCHANGED vars
  BY <1>17 DEF vars, lineVars, argVars, panicVars, TypeOK, EchoIsLine, LineHeld, PanicReportedOnce
<1> QED
  BY <1>2, <1>4, <1>5, <1>6, <1>9, <1>10, <1>11, <1>12, <1>13, <1>14, <1>15, <1>16, <1>17
  DEF Next, Type, RunCmd

\* The line is empty at first.
LEMMA SafeInit == Init => Safe
<1> SUFFICES ASSUME Init PROVE Safe
  OBVIOUS
<1>1. TypeOK
  <2>1. /\ pc = "boot" /\ ran.what = "nothing" /\ debugInfo \in BOOLEAN
        /\ i = 0 /\ shown = << >> /\ typed = << >> /\ p = 0 /\ argc = 0
        /\ panicstr = FALSE /\ reports = 0 /\ monitors = 0
    BY DEF Init, Nothing, Outcome
  <2>2. 0 \in Index /\ << >> \in Seq(Typed)
    BY DEF Index
  <2>3. buf \in [Index -> 0 .. 255]
    BY DEF Init
  <2>4. argv \in [0 .. MAXARGS - 1 -> Index \cup {NULL}]
    BY <2>2 DEF Init
  <2>5. 0 \in 0 .. MAXARGS - 1 /\ 0 \in 0 .. MaxMonitors /\ 0 \in 0 .. 1
    OBVIOUS
  <2> QED
    BY <2>1, <2>2, <2>3, <2>4, <2>5, Zenon DEF TypeOK
<1> QED
  BY <1>1 DEF Init, Safe, EchoIsLine, LineHeld, PanicReportedOnce

---------------------------------------------------------------------------
\* How runcmd() cuts the line.

\* runcmd() does not take the end of the line for a blank.
LEMMA NulIsNoBlank == 0 \notin WHITESPACE
BY DEF WHITESPACE, CR, NL, Space

\* Where words start, counting the characters from 0.
LEMMA StartsAt ==
  ASSUME NEW l \in Seq(Typed), NEW k \in Nat
  PROVE  k + 1 \in Starts(l) <=> /\ k < Len(l) /\ l[k + 1] \notin WHITESPACE
                                 /\ k = 0 \/ l[k] \in WHITESPACE
BY DEF Starts

\* Every step keeps the words that runcmd() has cut off so far.
LEMMA CutStep ==
  ASSUME Safe, Safe', Cut, [Next]_vars
  PROVE  Cut'
<1>1. /\ buf \in [Index -> 0 .. 255] /\ i \in Index /\ typed \in Seq(Typed)
      /\ p \in Index /\ argc \in 0 .. MAXARGS - 1
      /\ argv \in [0 .. MAXARGS - 1 -> Index \cup {NULL}]
  BY DEF Safe, TypeOK
<1>2. i \in Nat /\ p \in Nat /\ argc \in Nat /\ argc <= MAXARGS - 1
  BY <1>1 DEF Index
<1>3. ASSUME pc' \notin {"gobble", "scan", "lookup"}
      PROVE  Cut'
  BY <1>3 DEF Cut, LineCut, ArgsAreWords, AtPointer
<1>4. ASSUME NEW ch \in Typed, Enter(ch)
      PROVE  Cut'
  <2>1. /\ pc' = "gobble" /\ p' = 0 /\ argc' = 0 /\ i' = i
        /\ buf' = [buf EXCEPT ![i] = 0] /\ typed' = [k \in 1 .. i |-> buf[k - 1]]
    BY <1>4 DEF Enter
  <2>2. \A k \in 0 .. i - 1 : buf'[k] = typed'[k + 1]
    BY <1>1, <1>2, <2>1 DEF Index
  <2>3. LineCut'
    BY <1>2, <2>1, <2>2 DEF LineCut
  <2> QED
    BY <2>1, <2>3 DEF Cut, ArgsAreWords, AtPointer
<1>5. ASSUME pc \in {"gobble", "scan"}
      PROVE  /\ Len(typed) = i /\ buf[i] = 0 /\ p <= i
             /\ \A k \in 0 .. i - 1 : typed[k + 1] \in Typed /\ typed[k + 1] # 0
             /\ \A k \in 0 .. i - 1 :
                  buf[k] = IF k < p /\ typed[k + 1] \in WHITESPACE THEN 0 ELSE typed[k + 1]
  BY <1>1, <1>2, <1>5 DEF Safe, LineHeld, Cut, LineCut
<1>6. ASSUME pc \in {"gobble", "scan"}
      PROVE  /\ AtSpace <=> p < i /\ typed[p + 1] \in WHITESPACE
             /\ AtEnd <=> p = i
  BY <1>2, <1>5, <1>6, NulIsNoBlank DEF AtSpace, AtEnd
<1>7. ASSUME pc \in {"gobble", "scan"}
      PROVE  /\ \A j \in 0 .. argc - 1 : argv[j] \in 0 .. i - 1 /\ argv[j] + 1 \in Starts(typed)
             /\ \A j, k \in 0 .. argc - 1 : j < k => argv[j] < argv[k]
             /\ \A k \in 0 .. p - 1 : k + 1 \in Starts(typed) => \E j \in 0 .. argc - 1 : argv[j] = k
  BY <1>7 DEF Cut, ArgsAreWords
<1>8. CASE Gobble
  <2>1. /\ pc = "gobble" /\ pc' = "gobble" /\ AtSpace
        /\ buf' = [buf EXCEPT ![p] = 0] /\ p' = p + 1
        /\ UNCHANGED <<i, typed, argc, argv>>
    BY <1>8 DEF Gobble
  <2>2. p < i /\ typed[p + 1] \in WHITESPACE
    BY <1>6, <2>1
  <2>3. LineCut'
    BY <1>1, <1>2, <1>5, <2>1, <2>2 DEF LineCut, Index
  <2>4. p + 1 \notin Starts(typed)
    BY <1>1, <1>2, <2>2, StartsAt
  <2>5. ArgsAreWords'
    BY <1>2, <1>7, <2>1, <2>4 DEF ArgsAreWords
  <2>6. AtPointer'
    BY <1>2, <1>7, <2>1, <2>2 DEF AtPointer, Cut
  <2> QED
    BY <2>3, <2>5, <2>6 DEF Cut
<1>9. CASE SaveArg
  <2>1. /\ pc = "gobble" /\ pc' = "scan" /\ ~AtSpace /\ ~AtEnd /\ argc # MAXARGS - 1
        /\ argv' = [argv EXCEPT ![argc] = p] /\ argc' = argc + 1
        /\ UNCHANGED <<buf, i, typed, p>>
    BY <1>9 DEF SaveArg, lineVars
  <2>2. p < i /\ typed[p + 1] \notin WHITESPACE
    BY <1>2, <1>5, <1>6, <2>1
  <2>3. p = 0 \/ typed[p] \in WHITESPACE
    BY <1>2, <2>1, <2>2 DEF Cut, AtPointer
  <2>4. p + 1 \in Starts(typed)
    <3>1. Len(typed) = i
      BY <1>5, <2>1
    <3> QED
      BY <1>1, <1>2, <2>2, <2>3, <3>1, StartsAt
  <2>5. /\ \A j \in 0 .. argc - 1 : argv'[j] = argv[j] /\ argv[j] < p
        /\ argv'[argc] = p
    BY <1>1, <1>2, <2>1 DEF Cut, AtPointer
  <2>6. LineCut'
    BY <2>1 DEF Cut, LineCut
  <2>7. ArgsAreWords'
    BY SMTT(30), <1>2, <1>7, <2>1, <2>2, <2>4, <2>5 DEF ArgsAreWords
  <2>8. AtPointer'
    BY <1>2, <2>1, <2>5 DEF AtPointer
  <2> QED
    BY <2>6, <2>7, <2>8 DEF Cut
<1>10. CASE Scan
  <2>1. /\ pc = "scan" /\ UNCHANGED <<buf, i, typed, argc, argv>>
    BY <1>10 DEF Scan, lineVars
  <2>2. /\ argc > 0 /\ argv[argc - 1] <= p
        /\ \A k \in argv[argc - 1] .. p - 1 : typed[k + 1] \notin WHITESPACE
    BY <2>1 DEF Cut, AtPointer
  <2>3. argv[argc - 1] \in 0 .. i - 1 /\ typed[argv[argc - 1] + 1] \notin WHITESPACE
    <3>1. argc - 1 \in 0 .. argc - 1
      BY <1>2, <2>2
    <3>2. argv[argc - 1] \in 0 .. i - 1 /\ argv[argc - 1] + 1 \in Starts(typed)
      BY <1>7, <2>1, <3>1
    <3>3. argv[argc - 1] \in Nat
      BY <1>2, <3>2
    <3> QED
      BY <1>1, <3>2, <3>3, StartsAt
  <2>4. CASE AtSpace \/ AtEnd
    <3>1. pc' = "gobble" /\ p' = p
      BY <1>10, <2>4 DEF Scan
    <3>2. argv[argc - 1] < p
      BY <1>2, <1>6, <2>1, <2>2, <2>3, <2>4
    <3>3. \A j \in 0 .. argc - 1 : argv[j] < p
      BY <1>2, <1>7, <2>1, <3>2
    <3>4. LineCut' /\ ArgsAreWords'
      BY <2>1, <3>1 DEF Cut, LineCut, ArgsAreWords
    <3>5. AtPointer'
      BY <1>6, <2>1, <2>4, <3>1, <3>3 DEF AtPointer
    <3> QED
      BY <3>4, <3>5 DEF Cut
  <2>5. CASE ~(AtSpace \/ AtEnd)
    <3>1. pc' = "scan" /\ p' = p + 1
      BY <1>10, <2>1, <2>5 DEF Scan
    <3>2. p < i /\ typed[p + 1] \notin WHITESPACE
      BY <1>2, <1>5, <1>6, <2>1, <2>5
    <3>3. LineCut'
      BY <1>1, <1>2, <1>5, <2>1, <3>1, <3>2 DEF LineCut
    <3>4. p + 1 \in Starts(typed) => argv[argc - 1] = p
      <4>1. ASSUME argv[argc - 1] # p
            PROVE  p > 0 /\ typed[p] \notin WHITESPACE
        <5>1. p - 1 \in argv[argc - 1] .. p - 1 /\ p > 0
          BY <1>2, <2>2, <2>3, <4>1
        <5> QED
          BY <1>2, <2>2, <5>1
      <4>2. p + 1 \in Starts(typed) => p = 0 \/ typed[p] \in WHITESPACE
        BY <1>1, <1>2, StartsAt
      <4> QED
        BY <1>2, <4>1, <4>2
    <3>5. ArgsAreWords'
      BY <1>2, <1>7, <2>1, <2>2, <3>1, <3>4 DEF ArgsAreWords
    <3>6. AtPointer'
      BY <1>2, <2>1, <2>2, <2>3, <3>1, <3>2 DEF AtPointer
    <3> QED
      BY <3>3, <3>5, <3>6 DEF Cut
  <2> QED
    BY <2>4, <2>5
<1>11. CASE ArgsDone
  <2>1. /\ pc = "gobble" /\ pc' = "lookup" /\ AtEnd /\ argv' = [argv EXCEPT ![argc] = NULL]
        /\ UNCHANGED <<buf, i, typed, p, argc>>
    BY <1>11 DEF ArgsDone, lineVars
  <2>2. \A j \in 0 .. argc - 1 : argv'[j] = argv[j]
    BY <1>1, <1>2, <2>1
  <2>3. p = i
    BY <1>6, <2>1
  <2>4. LineCut'
    BY <2>1 DEF Cut, LineCut
  <2>5. ArgsAreWords'
    BY <1>2, <1>7, <2>1, <2>2 DEF ArgsAreWords
  <2> QED
    BY <2>1, <2>3, <2>4, <2>5 DEF Cut, AtPointer
<1>12. CASE UNCHANGED vars
  BY <1>12 DEF vars, lineVars, argVars, Cut, LineCut, ArgsAreWords, AtPointer
<1>13. ASSUME NEW ch \in Typed, Backspace(ch) \/ Text(ch)
       PROVE  Cut'
  BY <1>3, <1>13 DEF Backspace, Text
<1>14. CASE Boot \/ TooMany \/ Lookup \/ LookupPanics \/ Again
  BY <1>3, <1>14 DEF Boot, TooMany, Lookup, LookupPanics, Again, Panic, Prompt
<1> QED
  BY <1>4, <1>8, <1>9, <1>10, <1>11, <1>12, <1>13, <1>14 DEF Next, Type, RunCmd

---------------------------------------------------------------------------
\* The words of a line.

\* Every set of numbers that is not empty has a least one.
LEMMA LeastNatural ==
  ASSUME NEW S, S \subseteq Nat, S # {}
  PROVE  \E m \in S : \A k \in S : m <= k
<1> DEFINE R == {ss \in Nat \X Nat : ss[1] < ss[2]}
<1>1. IsWellFoundedOn(R, Nat)
  BY NatLessThanWellFounded DEF OpToRel
<1> HIDE DEF R
<1>2. PICK m \in S : \A k \in S : <<k, m>> \notin R
  BY <1>1, WFMin
<1>3. ASSUME NEW k \in S, k < m
      PROVE  FALSE
  <2>1. <<k, m>> \in Nat \X Nat /\ <<k, m>>[1] = k /\ <<k, m>>[2] = m
    OBVIOUS
  <2>2. <<k, m>> \in R
    BY <1>3, <2>1 DEF R
  <2> QED
    BY <1>2, <2>2
<1>4. \A k \in S : m <= k
  BY <1>3
<1> QED
  BY <1>4

\* A line has finitely many words.
LEMMA FiniteStarts ==
  ASSUME NEW l \in Seq(Typed)
  PROVE  IsFiniteSet(Starts(l)) /\ Cardinality(Starts(l)) \in Nat
<1>1. Starts(l) \subseteq 1 .. Len(l)
  BY DEF Starts
<1>2. IsFiniteSet(1 .. Len(l))
  BY FS_Interval
<1>3. IsFiniteSet(Starts(l))
  BY <1>1, <1>2, FS_Subset
<1> QED
  BY <1>3, FS_CardinalityType

\* It has as many as one can list in their order, at least.
LEMMA WordsAtLeast ==
  ASSUME NEW l \in Seq(Typed), NEW n \in Nat, NEW w \in [1 .. n -> Starts(l)],
         \A j, k \in 1 .. n : j < k => w[j] < w[k]
  PROVE  n <= Cardinality(Starts(l))
<1>1. Starts(l) \subseteq Nat
  BY DEF Starts
<1>2. \A j, k \in 1 .. n : w[j] = w[k] => j = k
  BY <1>1
<1>3. w \in Injection(1 .. n, Starts(l))
  BY <1>2, Fun_IsInj
<1>4. Cardinality(1 .. n) <= Cardinality(Starts(l))
  BY <1>3, FiniteStarts, FS_Injection
<1>5. Cardinality(1 .. n) = n
  BY FS_Interval
<1> QED
  BY <1>4, <1>5

\* A list of all of them in their order is what Words() goes by.
LEMMA WordsListed ==
  ASSUME NEW l \in Seq(Typed), NEW n \in Nat, NEW w \in [1 .. n -> Starts(l)],
         \A j, k \in 1 .. n : j < k => w[j] < w[k],
         \A s \in Starts(l) : \E k \in 1 .. n : w[k] = s
  PROVE  /\ Cardinality(Starts(l)) = n
         /\ \A k \in 1 .. n : WordStart(l, k) = w[k]
<1>1. Starts(l) \subseteq Nat
  BY DEF Starts
<1>2. \A j, k \in 1 .. n : w[j] = w[k] => j = k
  BY <1>1
<1>3. Cardinality(Starts(l)) = n
  <2>1. w \in Bijection(1 .. n, Starts(l))
    BY <1>2, Fun_IsBij
  <2>2. IsFiniteSet(1 .. n) /\ Cardinality(1 .. n) = n
    BY FS_Interval
  <2> QED
    BY <2>1, <2>2, FS_Bijection DEF ExistsBijection
<1>4. ASSUME NEW k \in 1 .. n
      PROVE  Cardinality({t \in Starts(l) : t < w[k]}) = k - 1
  <2> DEFINE T == {t \in Starts(l) : t < w[k]}
             v == [j \in 1 .. k - 1 |-> w[j]]
  <2>1. v \in [1 .. k - 1 -> T]
    BY <1>1, <1>4
  <2>2. \A a, b \in 1 .. k - 1 : v[a] = v[b] => a = b
    BY <1>2, <1>4
  <2>3. \A t \in T : \E j \in 1 .. k - 1 : v[j] = t
    BY <1>1, <1>4
  <2> HIDE DEF T, v
  <2>4. v \in Bijection(1 .. k - 1, T)
    BY <2>1, <2>2, <2>3, Fun_IsBij
  <2>5. IsFiniteSet(1 .. k - 1) /\ Cardinality(1 .. k - 1) = k - 1
    BY <1>4, FS_Interval
  <2>6. Cardinality(T) = k - 1
    BY <2>4, <2>5, FS_Bijection DEF ExistsBijection
  <2> QED
    BY <2>6 DEF T
<1>5. ASSUME NEW k \in 1 .. n
      PROVE  WordStart(l, k) = w[k]
  <2>1. ASSUME NEW s \in Starts(l), Cardinality({t \in Starts(l) : t < s}) = k - 1
        PROVE  s = w[k]
    <3>1. PICK j \in 1 .. n : w[j] = s
      OBVIOUS
    <3>2. j - 1 = k - 1
      BY <1>4, <2>1, <3>1
    <3> QED
      BY <3>1, <3>2
  <2>2. w[k] \in Starts(l) /\ Cardinality({t \in Starts(l) : t < w[k]}) = k - 1
    BY <1>4, <1>5
  <2> QED
    BY <2>1, <2>2 DEF WordStart
<1> QED
  BY <1>3, <1>5

\* The string at the start of a word in the cut line is that word.
LEMMA StringIsWord ==
  ASSUME NEW l \in Seq(Typed), Len(l) = i, i \in Index,
         buf[i] = 0, \A k \in 0 .. i - 1 : buf[k] = IF l[k + 1] \in WHITESPACE THEN 0 ELSE l[k + 1],
         NEW a \in 0 .. i - 1, a + 1 \in Starts(l)
  PROVE  StringAt(a) = SubSeq(l, a + 1, WordEnd(l, a + 1))
<1>1. i \in Nat /\ i <= BUFLEN - 1 /\ a \in Nat /\ a < i
  BY DEF Index
<1>2. \A k \in 0 .. i - 1 : l[k + 1] \in Typed /\ l[k + 1] # 0
  BY <1>1
<1>3. \A k \in 0 .. i : buf[k] = 0 <=> k = i \/ l[k + 1] \in WHITESPACE
  BY <1>1, <1>2
<1> DEFINE Nul == {k \in a .. i : buf[k] = 0}
<1>4. i \in Nul /\ Nul \subseteq Nat
  BY <1>1
<1> HIDE DEF Nul
<1>5. PICK e \in Nul : \A k \in Nul : e <= k
  BY ZenonT(60), <1>4, LeastNatural
<1>6. e \in a .. i /\ buf[e] = 0 /\ \A k \in a .. e - 1 : buf[k] # 0
  BY <1>1, <1>5 DEF Nul
<1>7. a < e
  <2>1. l[a + 1] \notin WHITESPACE
    BY <1>1, StartsAt
  <2> QED
    BY <1>1, <1>3, <1>6, <2>1
<1>8. WordEnd(l, a + 1) = e
  <2> DEFINE Ends(d) == /\ \A k \in a + 1 .. d : l[k] \notin WHITESPACE
                        /\ d = Len(l) \/ l[d + 1] \in WHITESPACE
  <2>1. e \in a + 1 .. Len(l)
    BY <1>1, <1>6, <1>7
  <2>2. Ends(e)
    <3>1. ASSUME NEW k \in a + 1 .. e
          PROVE  l[k] \notin WHITESPACE
      <4>1. k - 1 \in a .. e - 1 /\ k - 1 \in 0 .. i /\ k - 1 # i /\ (k - 1) + 1 = k
        BY <1>1, <1>6, <3>1
      <4> QED
        BY <1>3, <1>6, <4>1
    <3>2. e = i \/ l[e + 1] \in WHITESPACE
      BY <1>1, <1>3, <1>6
    <3> QED
      BY <3>1, <3>2
  <2>3. ASSUME NEW d \in a + 1 .. Len(l), Ends(d)
        PROVE  d = e
    <3>1. CASE d < e
      <4>1. d + 1 \in a + 1 .. e /\ d # Len(l)
        BY <1>1, <1>6, <2>1, <3>1
      <4> QED
        BY <2>2, <2>3, <4>1
    <3>2. CASE e < d
      <4>1. e + 1 \in a + 1 .. d /\ e # Len(l)
        BY <1>1, <1>6, <2>1, <2>3, <3>2
      <4> QED
        BY <2>2, <2>3, <4>1
    <3> QED
      BY <1>1, <1>6, <3>1, <3>2
  <2>4. WordEnd(l, a + 1) = CHOOSE d \in a + 1 .. Len(l) : Ends(d)
    BY DEF WordEnd
  <2> HIDE DEF Ends
  <2> QED
    BY <2>1, <2>2, <2>3, <2>4
<1>9. StringAt(a) = [k \in 1 .. e - a |-> buf[a + k - 1]]
  <2> DEFINE Ends(d) == buf[d] = 0 /\ \A k \in a .. d - 1 : buf[k] # 0
  <2>1. e \in a .. BUFLEN - 1 /\ Ends(e)
    BY <1>1, <1>6
  <2>2. ASSUME NEW d \in a .. BUFLEN - 1, Ends(d)
        PROVE  d = e
    BY <1>1, <1>6, <2>2
  <2>3. (CHOOSE d \in a .. BUFLEN - 1 : Ends(d)) = e
    <3> HIDE DEF Ends
    <3> QED
      BY <2>1, <2>2
  <2> QED
    BY <2>3 DEF StringAt
<1>10. SubSeq(l, a + 1, e) = [k \in 1 .. e - a |-> l[a + k]]
  BY <1>1, <1>6, <1>7
<1>11. \A k \in 1 .. e - a : buf[a + k - 1] = l[a + k]
  <2> SUFFICES ASSUME NEW k \in 1 .. e - a
               PROVE  buf[a + k - 1] = l[a + k]
    OBVIOUS
  <2>1. a + k - 1 \in a .. e - 1 /\ a + k - 1 \in 0 .. i - 1 /\ (a + k - 1) + 1 = a + k
    BY <1>1, <1>6
  <2> QED
    BY <1>6, <2>1
<1> QED
  BY <1>8, <1>9, <1>10, <1>11

\* Types that the steps below need.
LEMMA SafeTypes ==
  ASSUME Safe
  PROVE  /\ typed \in Seq(Typed) /\ i \in Index
         /\ p \in Nat /\ i \in Nat /\ argc \in Nat /\ argc <= MAXARGS - 1
<1>1. typed \in Seq(Typed) /\ i \in Index /\ p \in Index /\ argc \in 0 .. MAXARGS - 1
  BY DEF Safe, TypeOK
<1> QED
  BY <1>1 DEF Index

\* runcmd() gives up at the word that is one too many.
LEMMA TooManyMeant ==
  ASSUME Safe, Cut, TooMany
  PROVE  LineMeaning'
<1>1. /\ pc = "gobble" /\ ~AtSpace /\ ~AtEnd /\ argc = MAXARGS - 1
      /\ ran' = Outcome("too many", << >>) /\ typed' = typed
  BY DEF TooMany, lineVars
<1>2. /\ typed \in Seq(Typed) /\ p \in Nat /\ i \in Nat /\ argc \in Nat /\ MAXARGS \in Nat
      /\ argc = MAXARGS - 1
  BY <1>1, SafeTypes
<1>3. Len(typed) = i /\ buf[i] = 0 /\ p <= i
  BY <1>1 DEF Safe, LineHeld
<1>4. p < i /\ buf[p] = typed[p + 1]
  <2>a. buf[p] # 0
    BY <1>1 DEF AtEnd
  <2>1. p < i
    BY <1>2, <1>3, <2>a
  <2>2. \A k \in 0 .. i - 1 :
          buf[k] = IF k < p /\ typed[k + 1] \in WHITESPACE THEN 0 ELSE typed[k + 1]
    BY <1>1 DEF Cut, LineCut
  <2> QED
    BY <1>2, <2>1, <2>2
<1>5. typed[p + 1] \notin WHITESPACE /\ (p = 0 \/ typed[p] \in WHITESPACE)
  <2>1. typed[p + 1] \notin WHITESPACE
    BY <1>1, <1>4 DEF AtSpace
  <2>2. p = 0 \/ p = i \/ typed[p] \in WHITESPACE \/ typed[p + 1] \in WHITESPACE
    BY <1>1 DEF Cut, AtPointer
  <2> QED
    BY <1>2, <1>4, <2>1, <2>2
<1>6. p + 1 \in Starts(typed)
  BY <1>2, <1>3, <1>4, <1>5, StartsAt
<1> DEFINE w == [k \in 1 .. MAXARGS |-> IF k < MAXARGS THEN argv[k - 1] + 1 ELSE p + 1]
<1>7. /\ \A j \in 0 .. argc - 1 : argv[j] \in 0 .. i - 1 /\ argv[j] + 1 \in Starts(typed) /\ argv[j] < p
      /\ \A j, k \in 0 .. argc - 1 : j < k => argv[j] < argv[k]
  BY <1>1 DEF Cut, ArgsAreWords, AtPointer
<1>8. w \in [1 .. MAXARGS -> Starts(typed)]
  BY <1>2, <1>6, <1>7
<1>9. \A j, k \in 1 .. MAXARGS : j < k => w[j] < w[k]
  <2> SUFFICES ASSUME NEW j \in 1 .. MAXARGS, NEW k \in 1 .. MAXARGS, j < k
               PROVE  w[j] < w[k]
    OBVIOUS
  <2>1. j - 1 \in 0 .. argc - 1 /\ j < MAXARGS
    BY <1>2
  <2>2. CASE k < MAXARGS
    <3>1. k - 1 \in 0 .. argc - 1 /\ j - 1 < k - 1
      BY <1>2, <2>2
    <3> QED
      BY <1>2, <1>7, <2>1, <2>2, <3>1
  <2>3. CASE k = MAXARGS
    BY <1>2, <1>7, <2>1, <2>3
  <2> QED
    BY <1>2, <2>2, <2>3
<1>10. MAXARGS <= Cardinality(Starts(typed))
  <2> HIDE DEF w
  <2> QED
    BY <1>2, <1>8, <1>9, WordsAtLeast
<1>11. Len(Words(typed)) = Cardinality(Starts(typed))
  BY <1>2, FiniteStarts DEF Words
<1>12. Meaning(typed) = Outcome("too many", << >>)
  BY <1>2, <1>10, <1>11 DEF Meaning
<1> QED
  BY <1>1, <1>12 DEF LineMeaning

\* What runcmd() looks up and passes on are the words of the line.
LEMMA ArgumentsAreWords ==
  ASSUME Safe, Cut, pc = "lookup"
  PROVE  Arguments = Words(typed) /\ Len(Words(typed)) = argc
<1>1. /\ typed \in Seq(Typed) /\ i \in Index /\ i \in Nat /\ argc \in Nat
  BY SafeTypes
<1>2. Len(typed) = i /\ buf[i] = 0 /\ p = i
  BY DEF Safe, LineHeld, Cut, AtPointer
<1>3. \A k \in 0 .. i - 1 : buf[k] = IF typed[k + 1] \in WHITESPACE THEN 0 ELSE typed[k + 1]
  BY <1>1, <1>2 DEF Cut, LineCut
<1>4. /\ \A j \in 0 .. argc - 1 : argv[j] \in 0 .. i - 1 /\ argv[j] + 1 \in Starts(typed)
      /\ \A j, k \in 0 .. argc - 1 : j < k => argv[j] < argv[k]
      /\ \A k \in 0 .. i - 1 : k + 1 \in Starts(typed) => \E j \in 0 .. argc - 1 : argv[j] = k
  BY <1>2 DEF Cut, ArgsAreWords
<1> DEFINE w == [k \in 1 .. argc |-> argv[k - 1] + 1]
<1>5. w \in [1 .. argc -> Starts(typed)]
  BY <1>1, <1>4
<1>6. \A j, k \in 1 .. argc : j < k => w[j] < w[k]
  <2> SUFFICES ASSUME NEW j \in 1 .. argc, NEW k \in 1 .. argc, j < k
               PROVE  w[j] < w[k]
    OBVIOUS
  <2>1. j - 1 \in 0 .. argc - 1 /\ k - 1 \in 0 .. argc - 1 /\ j - 1 < k - 1
    BY <1>1
  <2>2. argv[j - 1] \in 0 .. i - 1 /\ argv[k - 1] \in 0 .. i - 1 /\ argv[j - 1] < argv[k - 1]
    BY <1>4, <2>1
  <2> QED
    BY <1>1, <2>2
<1>7. ASSUME NEW s \in Starts(typed)
      PROVE  \E k \in 1 .. argc : w[k] = s
  <2>1. s - 1 \in 0 .. i - 1 /\ (s - 1) + 1 = s
    BY <1>1, <1>2, <1>7 DEF Starts
  <2>2. PICK j \in 0 .. argc - 1 : argv[j] = s - 1
    BY <1>4, <1>7, <2>1
  <2>3. j + 1 \in 1 .. argc /\ w[j + 1] = s
    BY <1>1, <2>1, <2>2
  <2> QED
    BY <2>3
<1>8. /\ Cardinality(Starts(typed)) = argc
      /\ \A k \in 1 .. argc : WordStart(typed, k) = w[k]
  <2> HIDE DEF w
  <2> QED
    BY <1>1, <1>5, <1>6, <1>7, WordsListed
<1>9. ASSUME NEW k \in 1 .. argc
      PROVE  StringAt(argv[k - 1]) = SubSeq(typed, WordStart(typed, k), WordEnd(typed, WordStart(typed, k)))
  <2>1. argv[k - 1] \in 0 .. i - 1 /\ argv[k - 1] + 1 \in Starts(typed)
    BY <1>1, <1>4, <1>9
  <2>2. WordStart(typed, k) = argv[k - 1] + 1
    BY <1>8, <1>9
  <2> DEFINE h == argv[k - 1]
  <2>3. buf[i] = 0 /\ Len(typed) = i /\ typed \in Seq(Typed) /\ i \in Index
    BY <1>1, <1>2
  <2> HIDE DEF h
  <2>4. StringAt(h) = SubSeq(typed, h + 1, WordEnd(typed, h + 1))
    <3>1. h \in 0 .. i - 1 /\ h + 1 \in Starts(typed)
      BY <2>1 DEF h
    <3> QED
      BY <1>3, <2>3, <3>1, StringIsWord
  <2> QED
    BY <2>2, <2>4 DEF h
<1>10. Arguments = Words(typed)
  BY <1>8, <1>9 DEF Arguments, Words
<1>11. Len(Words(typed)) = argc
  BY <1>1, <1>8 DEF Words
<1> QED
  BY <1>10, <1>11

\* What runcmd() calls is what the line says.
LEMMA LookupMeant ==
  ASSUME Safe, Cut, Lookup
  PROVE  LineMeaning'
<1>1. pc = "lookup" /\ typed' = typed /\ argc \in Nat /\ argc < MAXARGS
  BY SafeTypes DEF Lookup, lineVars
<1> DEFINE ws == Words(typed)
<1>2. Arguments = ws /\ Len(ws) = argc
  BY <1>1, ArgumentsAreWords
<1>3. argc = 0 <=> ws = << >>
  <2>1. ws = [k \in 1 .. argc |-> StringAt(argv[k - 1])]
    BY <1>2 DEF Arguments
  <2>2. argc = 0 => ws = << >>
    BY <2>1
  <2>3. ws = << >> => argc = 0
    BY <1>2
  <2> QED
    BY <2>2, <2>3
<1> HIDE DEF ws
<1>4. ~(Len(ws) >= MAXARGS)
  BY <1>1, <1>2
<1>5. Meaning(typed) =
        IF ws = << >> THEN Outcome("empty", << >>)
        ELSE IF \E cmd \in Commands : CommandName[cmd] = ws[1]
        THEN Outcome(CHOOSE cmd \in Commands : CommandName[cmd] = ws[1], ws)
        ELSE Outcome("unknown", ws)
  BY <1>4 DEF Meaning, ws
<1>6. CASE argc = 0 /\ ran' = Outcome("empty", << >>)
  BY <1>1, <1>3, <1>5, <1>6 DEF LineMeaning
<1>7. ASSUME NEW cmd \in Commands, argc > 0, Arguments[1] = CommandName[cmd],
             ran' = Outcome(cmd, Arguments)
      PROVE  LineMeaning'
  <2>1. (CHOOSE c \in Commands : CommandName[c] = ws[1]) = cmd
    BY <1>2, <1>7, MonitorAssumption
  <2>2. ws # << >> /\ \E c \in Commands : CommandName[c] = ws[1]
    BY <1>1, <1>2, <1>3, <1>7
  <2> QED
    BY <1>1, <1>2, <1>5, <1>7, <2>1, <2>2 DEF LineMeaning
<1>8. CASE /\ argc > 0 /\ \A cmd \in Commands : Arguments[1] # CommandName[cmd]
           /\ ran' = Outcome("unknown", Arguments)
  BY <1>1, <1>2, <1>3, <1>5, <1>8 DEF LineMeaning
<1> QED
  BY <1>6, <1>7, <1>8 DEF Lookup

---------------------------------------------------------------------------
(* readline() and runcmd() stay inside the line buffer and the array of    *)
(* arguments for every line and every size of the two.                     *)
THEOREM MonitorTypeCorrect == Spec => []TypeOK
<1>1. Spec => []Safe
  BY SafeInit, SafeStep, PTL DEF Spec
<1>2. Safe => TypeOK
  BY DEF Safe
<1> QED
  BY <1>1, <1>2, PTL

(* What stands behind the prompt is what readline() has in its buffer,     *)
(* whatever was typed, erased, or refused because the buffer was full.     *)
THEOREM EchoCorrect == Spec => []EchoIsLine
<1>1. Spec => []Safe
  BY SafeInit, SafeStep, PTL DEF Spec
<1>2. Safe => EchoIsLine
  BY DEF Safe
<1> QED
  BY <1>1, <1>2, PTL

(* _panic() reports the first panic and no other, however many monitors    *)
(* panic on top of one another.                                            *)
THEOREM OnePanicReport == Spec => []PanicReportedOnce
<1>1. Spec => []Safe
  BY SafeInit, SafeStep, PTL DEF Spec
<1>2. Safe => PanicReportedOnce
  BY DEF Safe
<1> QED
  BY <1>1, <1>2, PTL

(* runcmd() treats every line as its words: it looks up the first, passes  *)
(* all of them, and refuses a line exactly if it has too many.             *)
THEOREM LinesMeanTheirWords == Spec => []LineMeaning
<1>1. Init => Cut /\ LineMeaning
  BY DEF Init, Cut, LineCut, ArgsAreWords, AtPointer, LineMeaning
<1>2. Safe /\ Safe' /\ Cut /\ LineMeaning /\ [Next]_vars => Cut' /\ LineMeaning'
  <2> SUFFICES ASSUME Safe, Safe', Cut, LineMeaning, [Next]_vars
               PROVE  LineMeaning'
    BY CutStep
  <2>1. CASE TooMany
    BY <2>1, TooManyMeant
  <2>2. CASE Lookup
    BY <2>2, LookupMeant
  <2>3. CASE UNCHANGED vars
    BY <2>3 DEF vars, lineVars, LineMeaning
  <2>4. ASSUME pc' # "done"
        PROVE  LineMeaning'
    BY <2>4 DEF LineMeaning
  <2>5. CASE Boot \/ LookupPanics \/ Again
    BY <2>4, <2>5 DEF Boot, LookupPanics, Again, Panic, Prompt
  <2>6. CASE Type
    BY <2>4, <2>6 DEF Type, Backspace, Text, Enter
  <2>7. CASE Gobble \/ SaveArg \/ Scan \/ ArgsDone
    BY <2>4, <2>7 DEF Gobble, SaveArg, Scan, ArgsDone
  <2> QED
    BY <2>1, <2>2, <2>3, <2>5, <2>6, <2>7 DEF Next, RunCmd
<1> QED
  BY <1>1, <1>2, SafeInit, SafeStep, PTL DEF Spec
===========================================================================
