------------------------------ MODULE Monitor ------------------------------
(***************************************************************************)
(* The kernel monitor: readline() of lib/readline.c editing a line in its  *)
(* static buffer, runcmd() of kern/monitor.c cutting that buffer into      *)
(* arguments in place, the commands, and _panic() of kern/init.c, which    *)
(* starts one more monitor on top of whatever was running.                 *)
(*                                                                         *)
(* Characters come from getchar(), which returns 1 .. 255 (module Console) *)
(* and never an error, so readline() always returns a line.                *)
(***************************************************************************)
EXTENDS Integers, Sequences, FiniteSets, SequencesExt

CONSTANTS
  BUFLEN,        (* 1024 in the code                                       *)
  MAXARGS,       (* 16                                                     *)
  Typed,         (* the characters that may be typed                       *)
  CommandName,   (* the commands' names, as sequences of characters        *)
  MaxMonitors    (* bound: monitors on top of each other                   *)

Commands == {"help", "kerninfo", "backtrace"}

BS == 8
NL == 10
CR == 13
Space == 32
DEL == 127

ASSUME MonitorAssumption ==
  /\ BUFLEN \in Nat \ {0} /\ MAXARGS \in Nat \ {0}
  /\ Typed \subseteq 1 .. 255
  /\ CommandName \in [Commands -> Seq(Typed)]
  /\ \A c, d \in Commands : CommandName[c] = CommandName[d] => c = d
  /\ MaxMonitors \in Nat \ {0}

VARIABLES
  pc,         (* "boot"; "read": readline(); "gobble", "scan", "lookup":   *)
              (* runcmd(); "done": runcmd() has returned                   *)
  buf,        (* readline()'s static buffer                                *)
  i,          (* readline()'s index of the next character                  *)
  shown,      (* the line as echoed, behind the prompt                     *)
  p,          (* runcmd()'s pointer into buf                               *)
  argc, argv, (* its arguments, argv a function to indexes of buf or NULL  *)
  panicstr,   (* whether panicstr is set                                   *)
  reports,    (* how often a panic was reported                            *)
  monitors,   (* calls of monitor() on the stack                           *)
  debugInfo,  (* whether the kernel was loaded with a .debug_info section  *)
  typed,      (* the line last returned by readline()                      *)
  ran         (* what became of it: a command with its arguments, or why   *)
              (* none                                                      *)

lineVars == <<buf, i, shown, typed>>
argVars == <<p, argc, argv>>
panicVars == <<panicstr, reports, monitors, debugInfo>>
vars == <<pc, lineVars, argVars, panicVars, ran>>

NULL == -1
Index == 0 .. BUFLEN - 1
Outcome(what, args) == [what |-> what, args |-> args]
Nothing == Outcome("nothing", << >>)

(* readline() prints the prompt and starts at 0.                           *)
Prompt ==
  /\ pc' = "read" /\ i' = 0 /\ shown' = << >>
  /\ typed' = << >> /\ ran' = Nothing

(* A panic: the first one is reported, all of them end in a new monitor.   *)
\* Faulty variant: every panic is reported.
PanicAloud ==
  /\ monitors < MaxMonitors
  /\ panicstr' = TRUE
  /\ reports' = reports + 1
  /\ monitors' = monitors + 1
  /\ UNCHANGED debugInfo
  /\ Prompt

Panic ==
  /\ monitors < MaxMonitors
  /\ panicstr' = TRUE
  /\ reports' = IF panicstr THEN reports ELSE reports + 1
  /\ monitors' = monitors + 1
  /\ UNCHANGED debugInfo
  /\ Prompt

(* argv is not initialised.                                                *)
Init ==
  /\ pc = "boot" /\ ran = Nothing /\ debugInfo \in BOOLEAN
  /\ buf = [k \in Index |-> 0] /\ i = 0 /\ shown = << >> /\ typed = << >>
  /\ p = 0 /\ argc = 0 /\ argv \in [0 .. MAXARGS - 1 -> {NULL, 0}]
  /\ panicstr = FALSE /\ reports = 0 /\ monitors = 0

(* i386_init() takes a backtrace before its monitor; debuginfo_rip()       *)
(* asserts that there is debug information.                                *)
Boot ==
  /\ pc = "boot"
  /\ \/ /\ debugInfo
        /\ monitors' = 1
        /\ Prompt
        /\ UNCHANGED <<panicstr, reports, debugInfo>>
     \/ ~debugInfo /\ Panic
  /\ UNCHANGED <<buf, argVars>>

---------------------------------------------------------------------------
\* readline(), by character; a character for which no branch is meant is
\* dropped without a trace.  A DEL on an empty line is text.

Backspace(ch) ==
  /\ pc = "read" /\ ch \in {BS, DEL} /\ i > 0
  /\ shown' = Front(shown)
  /\ i' = i - 1
  /\ UNCHANGED <<pc, buf, typed, argVars, panicVars, ran>>

\* Faulty variants: one character too many; echoed where it is not stored.
TextFull(ch) ==
  /\ pc = "read" /\ ch >= Space /\ i < BUFLEN /\ ~(ch = DEL /\ i > 0)
  /\ shown' = Append(shown, ch)
  /\ buf' = [buf EXCEPT ![i] = ch]
  /\ i' = i + 1
  /\ UNCHANGED <<pc, typed, argVars, panicVars, ran>>

TextEchoed(ch) ==
  /\ pc = "read" /\ ch >= Space /\ Len(shown) < BUFLEN /\ ~(ch = DEL /\ i > 0)
  /\ shown' = Append(shown, ch)
  /\ IF i < BUFLEN - 1 THEN buf' = [buf EXCEPT ![i] = ch] /\ i' = i + 1
                       ELSE UNCHANGED <<buf, i>>
  /\ UNCHANGED <<pc, typed, argVars, panicVars, ran>>

Text(ch) ==
  /\ pc = "read" /\ ch >= Space /\ i < BUFLEN - 1 /\ ~(ch = DEL /\ i > 0)
  /\ shown' = Append(shown, ch)
  /\ buf' = [buf EXCEPT ![i] = ch]
  /\ i' = i + 1
  /\ UNCHANGED <<pc, typed, argVars, panicVars, ran>>

\* Faulty variant: the line is not terminated.
EnterUnterminated(ch) ==
  /\ pc = "read" /\ ch \in {NL, CR}
  /\ typed' = [k \in 1 .. i |-> buf[k - 1]]
  /\ pc' = "gobble" /\ p' = 0
  /\ argc' = 0 /\ argv' = [argv EXCEPT ![0] = NULL]
  /\ UNCHANGED <<buf, i, shown, panicVars, ran>>

(* The line is terminated and runcmd() starts on it.                       *)
Enter(ch) ==
  /\ pc = "read" /\ ch \in {NL, CR}
  /\ buf' = [buf EXCEPT ![i] = 0]
  /\ typed' = [k \in 1 .. i |-> buf[k - 1]]
  /\ pc' = "gobble" /\ p' = 0
  /\ argc' = 0 /\ argv' = [argv EXCEPT ![0] = NULL]
  /\ UNCHANGED <<i, shown, panicVars, ran>>

---------------------------------------------------------------------------
\* runcmd(): the argument loop.

WHITESPACE == {9, CR, NL, Space}
AtSpace == buf[p] \in WHITESPACE
AtEnd == buf[p] = 0

Gobble ==
  /\ pc = "gobble" /\ AtSpace
  /\ buf' = [buf EXCEPT ![p] = 0]
  /\ p' = p + 1
  /\ UNCHANGED <<pc, i, shown, typed, argc, argv, panicVars, ran>>

TooMany ==
  /\ pc = "gobble" /\ ~AtSpace /\ ~AtEnd /\ argc = MAXARGS - 1
  /\ ran' = Outcome("too many", << >>)
  /\ pc' = "done"
  /\ UNCHANGED <<lineVars, argVars, panicVars>>

SaveArg ==
  /\ pc = "gobble" /\ ~AtSpace /\ ~AtEnd /\ argc # MAXARGS - 1
  /\ argv' = [argv EXCEPT ![argc] = p]
  /\ argc' = argc + 1
  /\ pc' = "scan"
  /\ UNCHANGED <<lineVars, p, panicVars, ran>>

\* Faulty variant: the pointer is not moved over the word.
ScanStays ==
  /\ pc = "scan"
  /\ AtSpace \/ AtEnd
  /\ pc' = "gobble"
  /\ UNCHANGED <<lineVars, argVars, panicVars, ran>>

Scan ==
  /\ pc = "scan"
  /\ IF AtSpace \/ AtEnd THEN pc' = "gobble" /\ UNCHANGED p
                         ELSE p' = p + 1 /\ UNCHANGED pc
  /\ UNCHANGED <<lineVars, argc, argv, panicVars, ran>>

ArgsDone ==
  /\ pc = "gobble" /\ AtEnd
  /\ argv' = [argv EXCEPT ![argc] = NULL]
  /\ pc' = "lookup"
  /\ UNCHANGED <<lineVars, p, argc, panicVars, ran>>

\* The string a pointer into buf stands for, up to its NUL.
StringAt(a) ==
  LET end == CHOOSE e \in a .. BUFLEN - 1 :
               buf[e] = 0 /\ \A k \in a .. e - 1 : buf[k] # 0
  IN  [k \in 1 .. end - a |-> buf[a + k - 1]]

Arguments == [k \in 1 .. argc |-> StringAt(argv[k - 1])]

\* The command whose name is argv[0]; all return 0 if they return.
Lookup ==
  /\ pc = "lookup"
  /\ \/ /\ argc = 0
        /\ ran' = Outcome("empty", << >>)
     \/ \E cmd \in Commands :
          /\ argc > 0 /\ Arguments[1] = CommandName[cmd]
          /\ cmd = "backtrace" => debugInfo
          /\ ran' = Outcome(cmd, Arguments)
     \/ /\ argc > 0 /\ \A cmd \in Commands : Arguments[1] # CommandName[cmd]
        /\ ran' = Outcome("unknown", Arguments)
  /\ pc' = "done"
  /\ UNCHANGED <<lineVars, argVars, panicVars>>

LookupPanics ==
  /\ pc = "lookup"
  /\ argc > 0 /\ Arguments[1] = CommandName["backtrace"] /\ ~debugInfo
  /\ Panic
  /\ UNCHANGED <<buf, argVars>>

(* No command returns a negative value: monitor() reads the next line.     *)
Again ==
  /\ pc = "done"
  /\ Prompt
  /\ UNCHANGED <<buf, argVars, panicVars>>

Type == \E ch \in Typed : Backspace(ch) \/ Text(ch) \/ Enter(ch)

RunCmd ==
  \/ Gobble \/ TooMany \/ SaveArg \/ Scan \/ ArgsDone
  \/ Lookup \/ LookupPanics \/ Again

Next == Boot \/ Type \/ RunCmd

(* The kernel runs on; nobody has to type.                                 *)
Spec == Init /\ [][Next]_vars /\ WF_vars(RunCmd)

---------------------------------------------------------------------------
TypeOK ==
  /\ pc \in {"boot", "read", "gobble", "scan", "lookup", "done"}
  /\ buf \in [Index -> 0 .. 255]
  /\ i \in Index /\ p \in Index
  /\ shown \in Seq(Typed) /\ typed \in Seq(Typed)
  /\ argc \in 0 .. MAXARGS - 1
  /\ argv \in [0 .. MAXARGS - 1 -> Index \cup {NULL}]
  /\ panicstr \in BOOLEAN /\ debugInfo \in BOOLEAN
  /\ reports \in 0 .. 1 /\ monitors \in 0 .. MaxMonitors
  /\ ran.what \in Commands \cup {"nothing", "empty", "unknown", "too many"}

(* The line the user sees is the line in the buffer, at every key: erasing *)
(* and the limit on its length keep the two in step.                       *)
EchoIsLine ==
  pc = "read" => shown = [k \in 1 .. i |-> buf[k - 1]]

\* The words of a line are its maximal runs of other characters than blanks,
\* told apart by where they start; the k-th has k - 1 others before it.
Starts(l) ==
  {k \in DOMAIN l : l[k] \notin WHITESPACE /\ (k = 1 \/ l[k - 1] \in WHITESPACE)}

WordEnd(l, s) ==
  CHOOSE e \in s .. Len(l) :
    /\ \A k \in s .. e : l[k] \notin WHITESPACE
    /\ e = Len(l) \/ l[e + 1] \in WHITESPACE

WordStart(l, k) ==
  CHOOSE s \in Starts(l) : Cardinality({t \in Starts(l) : t < s}) = k - 1

Words(l) ==
  [k \in 1 .. Cardinality(Starts(l)) |->
     SubSeq(l, WordStart(l, k), WordEnd(l, WordStart(l, k)))]

Meaning(l) ==
  LET ws == Words(l)
  IN  IF Len(ws) >= MAXARGS THEN Outcome("too many", << >>)
      ELSE IF ws = << >> THEN Outcome("empty", << >>)
      ELSE IF \E cmd \in Commands : CommandName[cmd] = ws[1]
      THEN Outcome(CHOOSE cmd \in Commands : CommandName[cmd] = ws[1], ws)
      ELSE Outcome("unknown", ws)

(* What runcmd() does with a line is what its words mean: a command runs   *)
(* exactly when the first word is its name, with all the words as its      *)
(* arguments, each a string of its own inside the one buffer.              *)
LineMeaning == pc = "done" => ran = Meaning(typed)

(* kern/init.c: panicstr is "used as flag to indicate that the kernel has  *)
(* already called panic".  Panics after the first, in the monitors that    *)
(* earlier ones started, are not reported again, and every panic leaves    *)
(* one more monitor on the stack for ever.                                 *)
PanicReportedOnce ==
  /\ reports = IF panicstr THEN 1 ELSE 0
  /\ pc # "boot" => (panicstr <=> ~debugInfo)

(* Every line is dealt with and the prompt comes back, unless the stack of *)
(* monitors has reached the bound.                                         *)
PromptReturns == (pc = "gobble") ~> (pc = "read" \/ monitors = MaxMonitors)
===========================================================================
