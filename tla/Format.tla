------------------------------- MODULE Format -------------------------------
(***************************************************************************)
(* vprintfmt() of lib/printfmt.c, which runs a format, with its two users: *)
(* cprintf() of kern/printf.c, which puts characters on the console, and   *)
(* snprintf(), which stores them in a buffer and counts them.              *)
(*                                                                         *)
(* A format is built from directives and read as the characters of these;  *)
(* an error message is one character here.                                 *)
(***************************************************************************)
EXTENDS Integers, Sequences, SequencesExt

CONSTANTS
  LONG,       (* bits of a long long, 64                                   *)
  MAXERROR,   (* number of error codes, 8                                  *)
  Char,       (* the characters of formats and texts                       *)
  BufLen,     (* bound: cells of the buffer and behind it                  *)
  Directives, (* what a format may hold, a sequence, see DirectiveOK       *)
  MaxDirs,    (* bound: directives of a format                             *)
  Sinks       (* cprintf(), or snprintf() with a size                      *)

NUL == "nul"
SPACE == " "
ERROR_PREFIX == "error "
JUNK == "junk"
E_INVAL == 3
DigitChars == <<"0", "1", "2", "3", "4", "5", "6", "7", "8", "9",
                "a", "b", "c", "d", "e", "f">>
error_string ==
  <<"unspecified error", "bad environment", "invalid parameter", "out of memory",
    "out of environments", "segmentation fault">>
NullArg == <<NUL>>      (* the NULL pointer as the argument of %s           *)
NullString == <<"(", "n", "u", "l", "l", ")">>
Printable(c) == c # "bell"

\* What vprintfmt() puts of its own.
OwnChars ==
  ToSet(DigitChars) \cup ToSet(NullString) \cup ToSet(error_string)
  \cup {SPACE, "%", "-", "x", "?", ERROR_PREFIX}

---------------------------------------------------------------------------
(* Directives: a character, a conversion, or something else after a %.     *)

Lit(c) == [kind |-> "char", c |-> c]
Odd(cs) == [kind |-> "odd", cs |-> cs]
Conv(c, arg) ==
  [kind |-> "conv", c |-> c, arg |-> arg, pad |-> SPACE, alt |-> FALSE, ell |-> 0,
   width |-> 0, prec |-> 0, stars |-> FALSE]

Numeric == {"d", "u", "o", "x"}
Conversions == Numeric \cup {"c", "e", "s", "p", "%"}

(* The characters of the fields, and of all that has a meaning behind %.   *)
FieldDigit == {DigitChars[k] : k \in 1 .. 10}
Escapes == FieldDigit \cup {"-", "#", "l", ".", "*"} \cup Conversions

(* The powers of b that a long long may take.                              *)
Power(b) == LET power[k \in 0 .. LONG] == IF k = 0 THEN 1 ELSE b * power[k - 1] IN power

(* A % with nothing behind it but a width ends the format.                 *)
Unfinished(d) == d.kind = "odd" /\ ToSet(d.cs) \subseteq FieldDigit

\* The arguments that a conversion takes.
ArgOK(d) ==
  CASE d.c = "%" -> TRUE
    [] d.c = "c" -> d.arg \in Char
    [] d.c = "s" -> d.arg \in Seq(Char) \cup {NullArg}
    [] d.c = "d" -> d.arg \in -Power(2)[LONG - 1] .. Power(2)[LONG - 1] - 1
    [] d.c = "p" -> d.arg \in 0 .. Power(2)[LONG] - 1
    [] OTHER -> d.arg \in 1 - Power(2)[LONG] .. Power(2)[LONG] - 1

(* What the formats of a caller keep to: padding on the right is for       *)
(* strings, a width for numbers that are not negative, a precision for     *)
(* strings and not 0, a negative number is a long one (getint() reads a    *)
(* long long whatever was passed).  What is not a directive is not one     *)
(* behind a % either.                                                      *)
DirectiveOK(d) ==
  /\ d.kind \in {"char", "odd", "conv"}
  /\ d.kind = "char" => d.c \in Char \ {"%", NUL}
  /\ d.kind = "odd" =>
       /\ d.cs \in Seq(Char \ {"%", NUL})
       /\ Unfinished(d) \/ d.cs[1] \notin Escapes
  /\ d.kind = "conv" =>
       /\ d.c \in Conversions /\ ArgOK(d)
       /\ d.pad \in {SPACE, "-", "0"} /\ d.alt \in BOOLEAN /\ d.stars \in BOOLEAN
       /\ d.ell \in Nat /\ d.width \in 0 .. 99 /\ d.prec \in 0 .. 99
       /\ (d.pad = "-" \/ d.prec # 0) => d.c = "s"
       /\ d.width # 0 => (d.c = "s" \/ (d.c \in Numeric /\ d.arg >= 0))
       /\ d.c \in Numeric => (d.arg >= 0 \/ d.ell > 0)

ASSUME FormatAssumption ==
  /\ LONG \in Nat \ {0} /\ MAXERROR \in Nat /\ BufLen \in Nat /\ MaxDirs \in Nat
  /\ MAXERROR > Len(error_string) /\ OwnChars \subseteq Char
  /\ \A k \in DOMAIN Directives : DirectiveOK(Directives[k])
  /\ \A s \in Sinks : /\ s.kind \in {"cprintf", "snprintf"} /\ s.null \in BOOLEAN
                       /\ s.n \in 0 .. BufLen

Decimal(n) == IF n < 10 THEN <<DigitChars[n + 1]>>
              ELSE <<DigitChars[(n \div 10) + 1], DigitChars[(n % 10) + 1]>>

\* The characters of a conversion's fields.
FlagChars(d) == IF d.pad = SPACE THEN << >> ELSE <<d.pad>>
AltChars(d) == IF d.alt THEN <<"#">> ELSE << >>
NumberChars(d, n) == IF n = 0 THEN << >> ELSE IF d.stars THEN <<"*">> ELSE Decimal(n)
PrecChars(d) == IF d.prec = 0 THEN << >> ELSE <<".">> \o NumberChars(d, d.prec)

DirectiveChars(d) ==
  CASE d.kind = "char" -> <<d.c>>
    [] d.kind = "odd"  -> <<"%">> \o d.cs
    [] OTHER -> <<"%">> \o FlagChars(d) \o AltChars(d) \o NumberChars(d, d.width)
                \o PrecChars(d) \o [k \in 1 .. d.ell |-> "l"] \o <<d.c>>

StarArg(d, n) == IF d.stars /\ n # 0 THEN <<n>> ELSE << >>

DirectiveArgs(d) ==
  IF d.kind # "conv" \/ d.c = "%" THEN << >>
  ELSE StarArg(d, d.width) \o StarArg(d, d.prec) \o <<d.arg>>

---------------------------------------------------------------------------
VARIABLES
  dirs, fmt, ap,     (* the format, its characters, the arguments left     *)
  sink,              (* where the characters go                            *)
  at,                (* "call"; "text" or "escape" in vprintfmt(); "done"  *)
  fp,                (* place of the next character of the format          *)
  width, precision, padc, altflag,
  out,               (* the characters put                                 *)
  buf, bpos, cnt,    (* of struct sprintbuf                                *)
  answer

flagVars == <<width, precision, padc, altflag>>
sinkVars == <<out, buf, bpos, cnt>>
fmtVars == <<dirs, fmt, ap, sink, at, fp, flagVars, sinkVars, answer>>

FmtInit ==
  /\ \E choice \in BoundedSeq(DOMAIN Directives, MaxDirs) :
       dirs = [k \in DOMAIN choice |-> Directives[choice[k]]]
  /\ \A k \in DOMAIN dirs : Unfinished(dirs[k]) => k = Len(dirs)
  /\ fmt = FlattenSeq([k \in DOMAIN dirs |-> DirectiveChars(dirs[k])])
  /\ ap = FlattenSeq([k \in DOMAIN dirs |-> DirectiveArgs(dirs[k])])
  /\ sink \in Sinks
  /\ at = "call" /\ fp = 1
  /\ width = -1 /\ precision = -1 /\ padc = SPACE /\ altflag = FALSE
  /\ out = << >> /\ buf = [k \in 0 .. BufLen - 1 |-> JUNK] /\ bpos = 0 /\ cnt = 0
  /\ answer = 0

Ch == IF fp > Len(fmt) THEN NUL ELSE fmt[fp]

\* Faulty variant: the last cell of the buffer taken, too.
EbufFull == sink.n

Ebuf == sink.n - 1

LesserOf(a, b) == IF a < b THEN a ELSE b

(* putch() of each character in turn: on the console, where nothing is     *)
(* counted, or by sprintputch().                                           *)
Put(cs) ==
  /\ out' = out \o cs
  /\ IF sink.kind = "cprintf" THEN UNCHANGED <<buf, bpos, cnt>>
     ELSE /\ cnt' = cnt + Len(cs)
          /\ bpos' = LesserOf(bpos + Len(cs), Ebuf)
          /\ buf' = [x \in DOMAIN buf |-> IF x \in bpos .. bpos' - 1
                                          THEN cs[x - bpos + 1] ELSE buf[x]]

---------------------------------------------------------------------------
\* vsnprintf() refuses a buffer without room.
CallRefused ==
  /\ at = "call" /\ sink.kind = "snprintf" /\ (sink.null \/ sink.n < 1)
  /\ at' = "done" /\ answer' = -E_INVAL
  /\ UNCHANGED <<dirs, fmt, ap, sink, fp, flagVars, sinkVars>>

CallFormat ==
  /\ at = "call" /\ (sink.kind = "snprintf" => ~sink.null /\ sink.n >= 1)
  /\ at' = "text"
  /\ UNCHANGED <<dirs, fmt, ap, sink, fp, flagVars, sinkVars, answer>>

Text ==
  /\ at = "text" /\ Ch \notin {"%", NUL}
  /\ Put(<<Ch>>) /\ fp' = fp + 1
  /\ UNCHANGED <<dirs, fmt, ap, sink, at, flagVars, answer>>

FormatEnds ==
  /\ at = "text" /\ Ch = NUL
  /\ at' = "done" /\ answer' = cnt
  /\ buf' = IF sink.kind = "cprintf" THEN buf ELSE [buf EXCEPT ![bpos] = NUL]
  /\ UNCHANGED <<dirs, fmt, ap, sink, fp, flagVars, out, bpos, cnt>>

Escape ==
  /\ at = "text" /\ Ch = "%"
  /\ at' = "escape" /\ fp' = fp + 1
  /\ padc' = SPACE /\ width' = -1 /\ precision' = -1 /\ altflag' = FALSE
  /\ UNCHANGED <<dirs, fmt, ap, sink, sinkVars, answer>>

\* The fields of an escape, after which the switch is entered again.
Field == at = "escape" /\ UNCHANGED <<dirs, fmt, sink, at, sinkVars, answer>>

PadFlag ==
  /\ Field /\ Ch \in {"-", "0"}
  /\ padc' = Ch /\ fp' = fp + 1
  /\ UNCHANGED <<ap, width, precision, altflag>>

AltFlag ==
  /\ Field /\ Ch = "#"
  /\ altflag' = TRUE /\ fp' = fp + 1
  /\ UNCHANGED <<ap, width, precision, padc>>

LongFlag ==
  /\ Field /\ Ch = "l"
  /\ fp' = fp + 1
  /\ UNCHANGED <<ap, flagVars>>

Dot ==
  /\ Field /\ Ch = "."
  /\ width' = (IF width < 0 THEN 0 ELSE width) /\ fp' = fp + 1
  /\ UNCHANGED <<ap, precision, padc, altflag>>

\* The first number is the width, the second the precision.
ProcessPrecision(n) ==
  /\ IF width < 0 THEN width' = n /\ precision' = -1
                  ELSE precision' = n /\ UNCHANGED width
  /\ UNCHANGED <<padc, altflag>>

DigitValue(c) == CHOOSE k \in 0 .. 9 : DigitChars[k + 1] = c

\* The number that the characters from fp to e are.
NumberTo(e) ==
  LET number[k \in fp - 1 .. e] ==
        IF k < fp THEN 0 ELSE number[k - 1] * 10 + DigitValue(fmt[k])
  IN  number[e]

WidthField ==
  /\ Field /\ Ch \in FieldDigit \ {"0"}
  /\ \E e \in fp .. Len(fmt) :
       /\ \A k \in fp .. e : fmt[k] \in FieldDigit
       /\ e < Len(fmt) => fmt[e + 1] \notin FieldDigit
       /\ ProcessPrecision(NumberTo(e))
       /\ fp' = e + 1
  /\ UNCHANGED ap

Star ==
  /\ Field /\ Ch = "*"
  /\ ProcessPrecision(Head(ap)) /\ ap' = Tail(ap)
  /\ fp' = fp + 1

---------------------------------------------------------------------------
Pads(n, c) == [k \in 1 .. (IF n > 0 THEN n ELSE 0) |-> c]

\* Digits by recursion, the most significant first.
Digits(num, base) ==
  LET digits[n \in 0 .. num] ==
        (IF n >= base THEN digits[n \div base] ELSE << >>) \o <<DigitChars[(n % base) + 1]>>
  IN  digits[num]

\* Faulty variant: a pad too many.
PrintnumWide(num, base, w, pad) ==
  Pads(w - Len(Digits(num, base)) + 1, pad) \o Digits(num, base)

(* Digits, and before them pads, as the width that is left says there.     *)
printnum(num, base, w, pad) ==
  Pads(w - Len(Digits(num, base)), pad) \o Digits(num, base)

\* An argument read as an unsigned long long.
Word(n) == n % Power(2)[LONG]

Convert(cs, used) ==
  /\ Put(cs)
  /\ ap' = IF used THEN Tail(ap) ELSE ap
  /\ fp' = fp + 1 /\ at' = "text"
  /\ UNCHANGED <<dirs, fmt, sink, flagVars, answer>>

At(c) == at = "escape" /\ Ch = c

CharConv == At("c") /\ Convert(<<Head(ap)>>, TRUE)
PercentConv == At("%") /\ Convert(<<"%">>, FALSE)

\* Through printfmt(), with a format that has no width.
ErrorConv ==
  /\ At("e")
  /\ LET err == IF Head(ap) < 0 THEN -Head(ap) ELSE Head(ap)
     IN  Convert(IF err >= MAXERROR \/ err \notin DOMAIN error_string
                 THEN <<ERROR_PREFIX>> \o printnum(err, 10, -1, SPACE)
                 ELSE <<error_string[err]>>, TRUE)

StringConv ==
  /\ At("s")
  /\ LET p == IF Head(ap) = NullArg THEN NullString ELSE Head(ap)
         n == IF precision < 0 THEN Len(p) ELSE LesserOf(Len(p), precision)
         left == IF padc = "-" THEN << >> ELSE Pads(width - n, padc)
         shown == [k \in 1 .. n |-> IF altflag /\ ~Printable(p[k]) THEN "?" ELSE p[k]]
     IN  Convert(left \o shown \o Pads(width - Len(left) - n, SPACE), TRUE)

SignedConv ==
  /\ At("d")
  /\ LET num == Word(Head(ap))
     IN  Convert(IF num >= Power(2)[LONG - 1]
                 THEN <<"-">> \o printnum(Word(-num), 10, width, padc)
                 ELSE printnum(num, 10, width, padc), TRUE)

BaseOf == [u |-> 10, o |-> 8, x |-> 16]

UnsignedConv ==
  \E c \in DOMAIN BaseOf :
    At(c) /\ Convert(printnum(Word(Head(ap)), BaseOf[c], width, padc), TRUE)

PointerConv ==
  At("p") /\ Convert(<<"0", "x">> \o printnum(Word(Head(ap)), 16, width, padc), TRUE)

(* Unrecognized: the % is printed, and the rest from behind it as text.    *)
Unrecognized ==
  /\ at = "escape"
  /\ Ch \notin Escapes
  /\ Put(<<"%">>)
  /\ fp' = 1 + Max({k \in 1 .. fp - 1 : fmt[k] = "%"})
  /\ at' = "text"
  /\ UNCHANGED <<dirs, fmt, ap, sink, flagVars, answer>>

FmtNext ==
  \/ CallRefused \/ CallFormat \/ Text \/ FormatEnds \/ Escape
  \/ PadFlag \/ AltFlag \/ LongFlag \/ Dot \/ WidthField \/ Star
  \/ CharConv \/ PercentConv \/ ErrorConv \/ StringConv
  \/ SignedConv \/ UnsignedConv \/ PointerConv \/ Unrecognized

FmtSpec == FmtInit /\ [][FmtNext]_fmtVars

---------------------------------------------------------------------------
(* What a directive prints.                                                *)

Numeral(n, base) ==
  LET len == CHOOSE k \in 1 .. LONG :
               n < Power(base)[k] /\ (k > 1 => n >= Power(base)[k - 1])
  IN  [i \in 1 .. len |-> DigitChars[((n \div Power(base)[len - i]) % base) + 1]]

Body(d) ==
  CASE d.c = "%" -> <<"%">>
    [] d.c = "c" -> <<d.arg>>
    [] d.c = "s" ->
         LET p == IF d.arg = NullArg THEN NullString ELSE d.arg
             q == IF d.prec = 0 THEN p ELSE SubSeq(p, 1, LesserOf(d.prec, Len(p)))
         IN  [k \in DOMAIN q |-> IF d.alt /\ ~Printable(q[k]) THEN "?" ELSE q[k]]
    [] d.c = "d" -> IF d.arg < 0 THEN <<"-">> \o Numeral(-d.arg, 10) ELSE Numeral(d.arg, 10)
    [] d.c = "p" -> <<"0", "x">> \o Numeral(d.arg, 16)
    [] d.c = "e" -> LET e == IF d.arg < 0 THEN -d.arg ELSE d.arg
                    IN  IF e \in DOMAIN error_string THEN <<error_string[e]>>
                        ELSE <<ERROR_PREFIX>> \o Numeral(e, 10)
    [] OTHER -> Numeral(IF d.arg < 0 THEN d.arg + Power(2)[LONG] ELSE d.arg, BaseOf[d.c])

Printed(d) ==
  CASE d.kind = "char" -> <<d.c>>
    [] d.kind = "odd"  -> <<"%">> \o d.cs
    [] OTHER ->
         IF d.pad = "-" THEN Body(d) \o Pads(d.width - Len(Body(d)), SPACE)
                        ELSE Pads(d.width - Len(Body(d)), d.pad) \o Body(d)

Meant == FlattenSeq([k \in DOMAIN dirs |-> Printed(dirs[k])])

Refused == answer = -E_INVAL

(* A format prints what its directives say, one after the other: flags and *)
(* numbers of one do not reach the next, every argument goes to its own    *)
(* directive, and what is no directive is printed as it stands.            *)
Formatted == at = "done" /\ ~Refused => out = Meant

(* snprintf() stores as much of the text as fits with its NUL, nothing     *)
(* behind the buffer and nothing when there is none, and answers the       *)
(* length of the whole.                                                    *)
BufferKept ==
  at = "done" /\ sink.kind = "snprintf" =>
    LET n == LesserOf(Len(Meant), sink.n - 1)
    IN  IF sink.null \/ sink.n < 1
        THEN Refused /\ buf = [k \in DOMAIN buf |-> JUNK]
        ELSE /\ answer = Len(Meant)
             /\ buf = [k \in DOMAIN buf |-> CASE k < n -> Meant[k + 1]
                                              [] k = n -> NUL
                                              [] OTHER -> JUNK]
=============================================================================
