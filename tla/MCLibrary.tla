----------------------------- MODULE MCLibrary -----------------------------
(* The three parts of the library, which share nothing: a behaviour uses   *)
(* one of them.                                                            *)
(*                                                                         *)
(* Strings: every memory of five cells over three characters, which has    *)
(* the short strings at all alignments, and two of eight for moves of      *)
(* several words (WORD = 2).  Format: every sequence of at most two        *)
(* directives, so that each may disturb each, into buffers that the text   *)
(* fills, exceeds by one and exceeds by far.  Lists: three elements.       *)
EXTENDS Strings, Format, Lists

VARIABLE client

MCBuffers ==
  [0 .. 4 -> {0, 1, 2}]
  \cup {[x \in 0 .. 7 |-> t[x + 1]] :
          t \in {<<1, 2, 3, 0, 2, 1, 3, 0>>, <<3, 2, 1, 1, 2, 2, 3, 1>>}}

\* " -0x1", "0xz", "+079", "12x" and "- 1".
MCTexts ==
  {[x \in 0 .. 5 |-> IF x < Len(t) THEN t[x + 1] ELSE 0] :
     t \in {<<32, 45, 48, 120, 49>>, <<48, 120, 122>>, <<43, 48, 55, 57>>,
            <<49, 50, 120>>, <<45, 32, 49>>}}

ab == <<"a", "bell", "b">>
Num(c, n) == [Conv(c, n) EXCEPT !.ell = 1]

MCDirectives == <<
  Lit("a"), Odd(<<"y">>), Odd(<< >>), Odd(<<"5">>),
  Conv("%", 0), Conv("c", "c"),
  Conv("e", -2), Conv("e", 6), Conv("e", 0), Conv("e", 7), Conv("e", -12),
  Conv("s", ab), Conv("s", NullArg), Conv("s", << >>),
  [Conv("s", ab) EXCEPT !.alt = TRUE, !.prec = 2],
  [Conv("s", ab) EXCEPT !.width = 5, !.prec = 2],
  [Conv("s", ab) EXCEPT !.width = 4, !.pad = "-"],
  [Conv("s", ab) EXCEPT !.width = 10, !.prec = 1, !.pad = "0"],
  [Conv("s", ab) EXCEPT !.width = 4, !.prec = 1, !.stars = TRUE],
  Num("d", -27), Num("d", -128), Num("d", 127), Num("u", -1), Num("o", 8),
  [Num("x", 31) EXCEPT !.ell = 2, !.width = 4, !.pad = "0"],
  [Conv("d", 10) EXCEPT !.width = 3],
  [Conv("u", 5) EXCEPT !.width = 2, !.stars = TRUE],
  [Conv("x", 255) EXCEPT !.width = 1],
  Conv("p", 0), Num("p", 26) >>

MCChar == OwnChars \cup {"a", "bell", "b", "y", "c"}

MCSinks ==
  {[kind |-> "cprintf", null |-> FALSE, n |-> 0], [kind |-> "snprintf", null |-> TRUE, n |-> 3]}
  \cup {[kind |-> "snprintf", null |-> FALSE, n |-> n] : n \in {0, 1, 3, 6}}

---------------------------------------------------------------------------
StrIdle == mem = [x \in {0} |-> 0] /\ call = NoCall /\ ret = 0

FmtIdle ==
  /\ dirs = << >> /\ fmt = << >> /\ ap = << >> /\ at = "call" /\ fp = 1
  /\ sink = [kind |-> "cprintf", null |-> FALSE, n |-> 0]
  /\ width = -1 /\ precision = -1 /\ padc = SPACE /\ altflag = FALSE
  /\ out = << >> /\ buf = << >> /\ bpos = 0 /\ cnt = 0 /\ answer = 0

Init ==
  /\ ListInit
  /\ \/ client = "strings" /\ StrInit /\ FmtIdle
     \/ client = "format"  /\ StrIdle /\ FmtInit
     \/ client = "lists"   /\ StrIdle /\ FmtIdle

\* A call has returned: nothing else ends.
Returned ==
  /\ (client = "strings" /\ call # NoCall) \/ (client = "format" /\ at = "done")
  /\ UNCHANGED <<strVars, fmtVars, listVars>>

Next ==
  /\ UNCHANGED client
  /\ \/ client = "strings" /\ StrNext  /\ UNCHANGED <<fmtVars, listVars>>
     \/ client = "format"  /\ FmtNext  /\ UNCHANGED <<strVars, listVars>>
     \/ client = "lists"   /\ ListNext /\ UNCHANGED <<strVars, fmtVars>>
     \/ Returned

Spec == Init /\ [][Next]_<<client, strVars, fmtVars, listVars>>
============================================================================
