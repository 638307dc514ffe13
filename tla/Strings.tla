------------------------------ MODULE Strings ------------------------------
(***************************************************************************)
(* lib/string.c.  A character is a number, memory a function from          *)
(* addresses to characters, and a call of the library takes one memory to  *)
(* the next and answers.  A loop that only reads is modelled by where it   *)
(* stops; one that writes, and the processor's string instructions, are    *)
(* run move by move, since areas may overlap.                              *)
(***************************************************************************)
EXTENDS Integers, Sequences, SequencesExt

CONSTANTS
  WORD,       (* bytes that rep movsl and rep stosl move at a time, 4      *)
  BYTE,       (* values of a byte, 256                                     *)
  Buffers,    (* memories for calls that copy, compare and search          *)
  Texts,      (* memories for strtol(), with a string at 0                 *)
  Fills       (* the int c of memset(), memfind() and strchr()             *)

Memory(m) ==
  /\ IsFiniteSet(DOMAIN m) /\ DOMAIN m = 0 .. Cardinality(DOMAIN m) - 1
  /\ m \in [DOMAIN m -> Nat]

ASSUME StringsAssumption ==
  /\ WORD \in Nat \ {0} /\ BYTE \in Nat \ {0} /\ Fills \subseteq Int
  /\ \A m \in Buffers \cup Texts : Memory(m)
  /\ \A m \in Texts : \E x \in DOMAIN m : m[x] = 0

VARIABLES
  mem,
  call,       (* the call made: its name and its arguments                 *)
  ret         (* its answer                                                *)

strVars == <<mem, call, ret>>

NULL_PTR == -1
NoCall == <<"none">>

StrInit == mem \in Buffers \cup Texts /\ call = NoCall /\ ret = 0

---------------------------------------------------------------------------
(* The first n for which a loop's condition fails.                         *)
Stop(Cond(_)) == CHOOSE n \in 0 .. Cardinality(DOMAIN mem) :
                   ~Cond(n) /\ \A k \in 0 .. n - 1 : Cond(k)

\* Units of w characters moved or filled one after the other.
Ascending(n, w) == [k \in 1 .. n \div w |-> (k - 1) * w]

MoveUnit(m, d, s, w) ==
  [x \in DOMAIN m |-> IF x \in d .. d + w - 1 THEN m[x - d + s] ELSE m[x]]

MoveUnits(m, d, s, units, w) ==
  LET moved[k \in 0 .. Len(units)] ==
        IF k = 0 THEN m ELSE MoveUnit(moved[k - 1], d + units[k], s + units[k], w)
  IN  moved[Len(units)]

strlen(s) == Stop(LAMBDA n : mem[s + n] # 0)

strnlen(s, size) == Stop(LAMBDA n : n < size /\ mem[s + n] # 0)

Set(m, a, c) == [m EXCEPT ![a] = c]

strcpy(dst, src) == MoveUnits(mem, dst, src, Ascending(strlen(src) + 1, 1), 1)

strcat(dst, src) == strcpy(dst + strlen(dst), src)

\* src stays at the NUL.
strncpy(dst, src, size) ==
  LET last == strnlen(src, size)
  IN  [x \in DOMAIN mem |->
         IF x \in dst .. dst + size - 1
         THEN mem[src + (IF x - dst < last THEN x - dst ELSE last)] ELSE mem[x]]

strlcpy(dst, src, size) ==
  LET n == strnlen(src, size - 1)
  IN  IF size = 0 THEN mem
      ELSE Set(MoveUnits(mem, dst, src, Ascending(n, 1), 1), dst + n, 0)

strcmp(p, q) ==
  LET n == Stop(LAMBDA k : mem[p + k] # 0 /\ mem[p + k] = mem[q + k])
  IN  mem[p + n] - mem[q + n]

strncmp(p, q, size) ==
  LET n == Stop(LAMBDA k : k < size /\ mem[p + k] # 0 /\ mem[p + k] = mem[q + k])
  IN  IF n = size THEN 0 ELSE mem[p + n] - mem[q + n]

strfind(s, c) == s + Stop(LAMBDA n : mem[s + n] # 0 /\ mem[s + n] # c % BYTE)

strchr(s, c) == IF mem[strfind(s, c)] = 0 THEN NULL_PTR ELSE strfind(s, c)

Aligned(a) == a % WORD = 0

memset(v, c, n) ==
  LET w == IF Aligned(v) /\ Aligned(n) THEN WORD ELSE 1
  IN  [x \in DOMAIN mem |-> IF x \in v .. v + (n \div w) * w - 1 THEN c % BYTE ELSE mem[x]]

\* Faulty variant: always upwards.
MemmoveUp(dst, src, n) == MoveUnits(mem, dst, src, Ascending(n, 1), 1)

(* Downwards, both pointers behind their areas, if dst is inside src's.    *)
memmove(dst, src, n) ==
  LET down == src < dst /\ src + n > dst
      s == IF down THEN src + n ELSE src
      d == IF down THEN dst + n ELSE dst
      w == IF Aligned(s) /\ Aligned(d) /\ Aligned(n) THEN WORD ELSE 1
      units == Ascending(n, w)
  IN  IF down THEN MoveUnits(mem, d - w, s - w, [k \in DOMAIN units |-> -units[k]], w)
              ELSE MoveUnits(mem, d, s, units, w)

memcmp(p, q, n) ==
  LET k == Stop(LAMBDA i : i < n /\ mem[p + i] = mem[q + i])
  IN  IF k = n THEN 0 ELSE mem[p + k] - mem[q + k]

memfind(s, c, n) == s + Stop(LAMBDA i : i < n /\ mem[s + i] # c % BYTE)

(* The first character of str is looked for, and the rest compared.        *)
strstr(in, str) ==
  LET starts == {i \in in .. in + strlen(in) - 1 :
                   mem[i] = mem[str] /\ strncmp(i + 1, str + 1, strlen(str + 1)) = 0}
  IN  CASE mem[str] = 0 -> in
        [] mem[str] # 0 /\ starts = {} -> NULL_PTR
        [] OTHER -> Min(starts)

---------------------------------------------------------------------------
(* strtol().  The characters it knows, by their codes.                     *)
Blank == {32, 9}
Plus == 43
Minus == 45
Zero == 48
X == 120

Digit(c) ==
  CASE c \in 48 .. 57  -> c - 48
    [] c \in 97 .. 122 -> c - 97 + 10
    [] c \in 65 .. 90  -> c - 65 + 10
    [] OTHER           -> 36

DigitsValue(a, n, b) ==
  LET val[k \in 0 .. n] == IF k = 0 THEN 0 ELSE val[k - 1] * b + Digit(mem[a + k - 1])
  IN  val[n]

\* How much of a prefix is skipped, and the base then.
BasePrefix(s, base) ==
  CASE base \in {0, 16} /\ mem[s] = Zero /\ mem[s + 1] = X -> <<2, 16>>
    [] base = 0 /\ mem[s] = Zero /\ mem[s + 1] # X -> <<1, 8>>
    [] base = 0 /\ mem[s] # Zero -> <<0, 10>>
    [] OTHER -> <<0, base>>

strtol(s, base) ==
  LET sign == s + Stop(LAMBDA n : mem[s + n] \in Blank)
      prefix == IF mem[sign] \in {Plus, Minus} THEN sign + 1 ELSE sign
      skip == BasePrefix(prefix, base)
      digits == prefix + skip[1]
      n == Stop(LAMBDA k : Digit(mem[digits + k]) < skip[2])
      val == DigitsValue(digits, n, skip[2])
  IN  [val |-> IF mem[sign] = Minus THEN -val ELSE val, endptr |-> digits + n]

---------------------------------------------------------------------------
(* Calls.  Strings end inside the memory, areas are inside, and those of   *)
(* the str functions do not overlap.                                       *)

Str(s) == \E x \in DOMAIN mem : x >= s /\ mem[x] = 0
Area(a, n) == a .. a + n - 1
Room(a, n) == Area(a, n) \subseteq DOMAIN mem
Apart(a, m, b, n) == Area(a, m) \cap Area(b, n) = {}

Call(fn, a, b, n, m, r) ==
  /\ call' = <<fn, a, b, n>>
  /\ mem' = m /\ ret' = r

\* memcpy() is memmove().
CopyCalls(d, s, n) ==
  \/ /\ Str(s) /\ Room(d, strlen(s) + 1) /\ Apart(d, strlen(s) + 1, s, strlen(s) + 1)
     /\ Call("strcpy", d, s, 0, strcpy(d, s), d)
  \/ /\ Str(d) /\ Str(s) /\ Room(d, strlen(d) + strlen(s) + 1)
     /\ Apart(d, strlen(d) + strlen(s) + 1, s, strlen(s) + 1)
     /\ Call("strcat", d, s, 0, strcat(d, s), d)
  \/ /\ Str(s) /\ Room(d, n) /\ Apart(d, n, s, strlen(s) + 1)
     /\ Call("strncpy", d, s, n, strncpy(d, s, n), d)
  \/ /\ Str(s) /\ Room(d, n) /\ Apart(d, n, s, strlen(s) + 1)
     /\ Call("strlcpy", d, s, n, strlcpy(d, s, n), IF n = 0 THEN 0 ELSE strnlen(s, n - 1))
  \/ /\ Room(d, n) /\ Room(s, n)
     /\ Call("memmove", d, s, n, memmove(d, s, n), d)

SearchCalls(p, q, n) ==
  \/ Str(p) /\ Call("strnlen", p, 0, n, mem, strnlen(p, n))
  \/ Str(p) /\ Str(q) /\ Call("strcmp", p, q, 0, mem, strcmp(p, q))
  \/ Str(p) /\ Str(q) /\ Call("strncmp", p, q, n, mem, strncmp(p, q, n))
  \/ Room(p, n) /\ Room(q, n) /\ Call("memcmp", p, q, n, mem, memcmp(p, q, n))
  \/ Str(p) /\ Str(q) /\ Call("strstr", p, q, 0, mem, strstr(p, q))

FillCalls(s, c, n) ==
  \/ Room(s, n) /\ Call("memset", s, c, n, memset(s, c, n), s)
  \/ Room(s, n) /\ Call("memfind", s, c, n, mem, memfind(s, c, n))
  \/ Str(s) /\ Call("strchr", s, c, 0, mem, strchr(s, c))
  \/ Str(s) /\ Call("strfind", s, c, 0, mem, strfind(s, c))

StrNext ==
  \/ /\ call = NoCall /\ mem \in Buffers
     /\ \E a \in DOMAIN mem, n \in 0 .. Cardinality(DOMAIN mem) :
          \/ \E b \in DOMAIN mem : CopyCalls(a, b, n) \/ SearchCalls(a, b, n)
          \/ \E c \in Fills : FillCalls(a, c, n)
  \/ /\ call = NoCall /\ mem \in Texts
     /\ \E base \in {0, 8, 10, 16} : Call("strtol", 0, base, 0, mem, strtol(0, base))

StrSpec == StrInit /\ [][StrNext]_strVars

---------------------------------------------------------------------------
(* What the functions promise, on strings as sequences.                    *)

Chars(a, n) == [k \in 1 .. n |-> mem[a + k - 1]]
String(a) ==
  Chars(a, Min({n \in 0 .. Cardinality(DOMAIN mem) : a + n \in DOMAIN mem /\ mem[a + n] = 0}))
Take(t, n) == SubSeq(t, 1, IF n < Len(t) THEN n ELSE Len(t))

\* Exactly t is written, at a.
Written(a, t) ==
  mem' = [x \in DOMAIN mem |-> IF x \in Area(a, Len(t)) THEN t[x - a + 1] ELSE mem[x]]

Before(t, u) ==
  \E k \in 0 .. Len(t) :
    /\ k < Len(u) /\ Take(t, k) = Take(u, k)
    /\ k = Len(t) \/ t[k + 1] < u[k + 1]

Compares(t, u) == (ret' < 0 <=> Before(t, u)) /\ (ret' > 0 <=> Before(u, t))

Places(t, c) == {k \in 1 .. Len(t) : t[k] = c % BYTE}

(* The numerals at the start of the text: blanks, a sign, a prefix of the  *)
(* base and digits, these from q up to e.  The answer is the longest.      *)
Signed(i, p, sgn) ==
  \/ p = i /\ sgn = 1
  \/ p = i + 1 /\ sgn = 1 /\ mem[i] = Plus
  \/ p = i + 1 /\ sgn = -1 /\ mem[i] = Minus

Prefixed(base, p, q, b) ==
  \/ q = p /\ b = base /\ base # 0
  \/ q = p /\ b = 10 /\ base = 0 /\ mem[p] # Zero
  \/ q = p + 1 /\ b = 8 /\ base = 0 /\ mem[p] = Zero
  \/ q = p + 2 /\ b = 16 /\ base \in {0, 16} /\ mem[p] = Zero /\ mem[p + 1] = X

IsNumeral(base, q, b, sgn, e) ==
  /\ \E i \in 0 .. Len(String(0)) : \E p \in {i, i + 1} :
       /\ \A x \in 0 .. i - 1 : mem[x] \in Blank
       /\ Signed(i, p, sgn) /\ Prefixed(base, p, q, b)
  /\ q <= e /\ \A x \in q .. e - 1 : Digit(mem[x]) < b

Weight(b) ==
  LET weight[k \in DOMAIN mem] == IF k = 0 THEN 1 ELSE b * weight[k - 1] IN weight

\* The last digit first.
Value(q, e, b) ==
  LET sum[k \in 0 .. e - q] ==
        IF k = 0 THEN 0 ELSE sum[k - 1] + Digit(mem[e - k]) * Weight(b)[k - 1]
  IN  sum[e - q]

(* Every call does what its name says, in memory and in its answer: copies *)
(* are exact although areas overlap or moves are of words, nothing but the *)
(* destination is written, and never more of it than its size.             *)
CallMeaning(fn, a, b, n) ==
  CASE fn = "strcpy"  -> Written(a, Append(String(b), 0))
    [] fn = "strcat"  -> Written(a, String(a) \o Append(String(b), 0))
    [] fn = "strncpy" ->
         Written(a, [k \in 1 .. n |-> IF k <= Len(String(b)) THEN String(b)[k] ELSE 0])
    [] fn = "strlcpy" ->
         /\ Written(a, IF n = 0 THEN << >> ELSE Append(Take(String(b), n - 1), 0))
         /\ n > 0 => ret' = Len(Take(String(b), n - 1))
    [] fn = "memmove" -> Written(a, Chars(b, n))
    [] fn = "memset"  -> Written(a, [k \in 1 .. n |-> b % BYTE])
    [] fn = "strnlen" -> Written(0, << >>) /\ ret' = Len(Take(String(a), n))
    [] fn = "strcmp"  -> Compares(String(a), String(b))
    [] fn = "strncmp" -> Compares(Take(String(a), n), Take(String(b), n))
    [] fn = "memcmp"  -> Compares(Chars(a, n), Chars(b, n))
    [] fn = "strchr"  -> ret' = Min({a + k - 1 : k \in Places(String(a), b)} \cup
                                    (IF Places(String(a), b) = {} THEN {NULL_PTR} ELSE {}))
    [] fn = "strfind" -> ret' = Min({a + k - 1 : k \in Places(String(a), b)} \cup {a + Len(String(a))})
    [] fn = "memfind" -> ret' = Min({a + k - 1 : k \in Places(Chars(a, n), b)} \cup {a + n})
    [] fn = "strstr"  ->
         LET at == {i \in a .. a + Len(String(a)) : IsPrefix(String(b), String(i))}
         IN  ret' = IF at = {} THEN NULL_PTR ELSE Min(at)
    [] fn = "strtol"  ->
         LET end == ret'.endptr
             bases == {b, 8, 10, 16}
         IN  /\ \E q \in DOMAIN mem, base \in bases, sgn \in {1, -1} :
                  IsNumeral(b, q, base, sgn, end) /\ ret'.val = sgn * Value(q, end, base)
             /\ \A q, e \in DOMAIN mem, base \in bases, sgn \in {1, -1} :
                  IsNumeral(b, q, base, sgn, e) => e <= end

CallsRight ==
  [][call' # NoCall => CallMeaning(call'[1], call'[2], call'[3], call'[4])]_strVars
=============================================================================
