----------------------------- MODULE LineProofs -----------------------------
(***************************************************************************)
(* The line number program, for every header and every program that can be *)
(* encoded under it: dwarf_srclines() goes from one instruction to the     *)
(* next, whichever standard opcodes the header makes special, and answers  *)
(* the line of the row that covers the address.                            *)
(***************************************************************************)
EXTENDS LineProgram, SequenceTheorems, WellFoundedInduction, TLAPS

---------------------------------------------------------------------------
\* Every set of numbers that is not empty has a least one.
LEMMA LeastOfNat ==
  ASSUME NEW S, S \subseteq Nat, S # {}
  PROVE  \E m \in S : \A k \in S : m <= k
<1> DEFINE R == {ss \in Nat \X Nat : ss[1] < ss[2]}
<1>1. IsWellFoundedOn(R, Nat)
  BY NatLessThanWellFounded DEF OpToRel
<1> HIDE DEF R
<1>2. PICK m \in S : \A k \in S : <<k, m>> \notin R
  BY <1>1, WFMin
<1>3. ASSUME NEW k \in S, k < m
      PROVE  FALSE
  <2>1. <<k, m>> \in Nat \X Nat /\ <<k, m>>[1] = k /\ <<k, m>>[2] = m
    OBVIOUS
  <2>2. <<k, m>> \in R
    BY <1>3, <2>1 DEF R
  <2> QED
    BY <1>2, <2>2
<1>4. \A k \in S : m <= k
  BY <1>3
<1> QED
  BY <1>4

(* FlattenSeq() by the length of what it is given.  Flattens(f, s, n) says  *)
(* that f is the function FlattenSeq() defines for the first n of s.       *)
Flattens(f, s, n) ==
  f = [i \in 1 .. n |-> IF i = 1 THEN s[i] ELSE f[i - 1] \o s[i]]

\* Its values.
LEMMA FlattensAt ==
  ASSUME NEW s, NEW n \in Nat, NEW f, Flattens(f, s, n), NEW i \in 1 .. n
  PROVE  f[i] = IF i = 1 THEN s[i] ELSE f[i - 1] \o s[i]
<1> DEFINE V(h, j) == IF j = 1 THEN s[j] ELSE h[j - 1] \o s[j]
           r == [j \in 1 .. n |-> V(f, j)]
<1>1. f = r
  BY DEF Flattens
<1>2. r[i] = V(f, i)
  OBVIOUS
<1>3. f[i] = V(f, i)
  <2> HIDE DEF V, r
  <2> QED
    BY ONLY <1>1, <1>2, Zenon
<1> QED
  BY <1>3

\* There is such a function.
LEMMA FlattenExists ==
  ASSUME NEW s, NEW n \in Nat
  PROVE  \E f : Flattens(f, s, n)
<1> DEFINE Bad == {k \in Nat : ~\E f : Flattens(f, s, k)}
<1> SUFFICES ASSUME Bad # {}
             PROVE  FALSE
  OBVIOUS
<1>1. PICK k \in Bad : \A j \in Bad : k <= j
  <2> HIDE DEF Bad
  <2>1. Bad \subseteq Nat
    BY DEF Bad
  <2> QED
    BY <2>1, LeastOfNat
<1>2. k # 0
  <2> DEFINE f == [i \in 1 .. 0 |-> IF i = 1 THEN s[i] ELSE << >>]
  <2>1. Flattens(f, s, 0)
    BY DEF Flattens
  <2> QED
    BY <1>1, <2>1
<1>3. k - 1 \in Nat /\ k - 1 \notin Bad
  BY <1>1, <1>2
<1>4. PICK f : Flattens(f, s, k - 1)
  BY <1>3
<1> DEFINE g == [i \in 1 .. k |-> IF i = 1 THEN s[i] ELSE f[i - 1] \o s[i]]
<1>5. \A i \in 1 .. k - 1 : g[i] = f[i]
  BY <1>1, <1>2, <1>4, FlattensAt
<1>6. Flattens(g, s, k)
  <2>1. \A i \in 1 .. k : i = 1 \/ i - 1 \in 1 .. k - 1
    BY <1>1, <1>2
  <2> QED
    BY <1>5, <2>1 DEF Flattens
<1> QED
  BY <1>1, <1>6

\* And one only, whatever follows the first n.
LEMMA FlattenAgree ==
  ASSUME NEW s, NEW t, NEW m \in Nat, NEW n \in Nat, n <= m,
         \A i \in 1 .. n : s[i] = t[i],
         NEW f, NEW g, Flattens(f, s, n), Flattens(g, t, m)
  PROVE  \A i \in 1 .. n : f[i] = g[i]
<1> DEFINE Bad == {i \in 1 .. n : f[i] # g[i]}
<1> SUFFICES ASSUME Bad # {}
             PROVE  FALSE
  OBVIOUS
<1>1. PICK k \in Bad : \A j \in Bad : k <= j
  <2> HIDE DEF Bad
  <2>1. Bad \subseteq Nat
    BY DEF Bad
  <2> QED
    BY <2>1, LeastOfNat
<1>2. /\ f[k] = IF k = 1 THEN s[k] ELSE f[k - 1] \o s[k]
      /\ g[k] = IF k = 1 THEN t[k] ELSE g[k - 1] \o t[k]
  BY <1>1, FlattensAt
<1>3. k # 1 => k - 1 \in 1 .. n /\ k - 1 \notin Bad
  BY <1>1
<1> QED
  BY <1>1, <1>2, <1>3

\* The first n parts of s, flattened.
FlatUpTo(s, n) == FlattenSeq([i \in 1 .. n |-> s[i]])

\* What is flattened ends with the last of its parts.
LEMMA FlattenLast ==
  ASSUME NEW S, NEW n \in Nat, NEW s, \A i \in 1 .. n + 1 : s[i] \in Seq(S)
  PROVE  FlatUpTo(s, n + 1) = FlatUpTo(s, n) \o s[n + 1]
<1> DEFINE a == [i \in 1 .. n |-> s[i]]
           b == [i \in 1 .. n + 1 |-> s[i]]
<1>1. Len(a) = n /\ Len(b) = n + 1 /\ (n = 0 => a = << >>)
  OBVIOUS
<1>2. /\ \A i \in 1 .. n : a[i] = b[i] /\ a[i] = s[i]
      /\ b[n + 1] = s[n + 1]
  OBVIOUS
<1> HIDE DEF a, b
<1> DEFINE f == CHOOSE h : Flattens(h, a, n)
           g == CHOOSE h : Flattens(h, b, n + 1)
<1>3. Flattens(f, a, n) /\ Flattens(g, b, n + 1)
  <2>1. (\E h : Flattens(h, a, n)) /\ \E h : Flattens(h, b, n + 1)
    <3>1. n + 1 \in Nat
      OBVIOUS
    <3> QED
      BY <3>1, FlattenExists, Zenon
  <2> QED
    BY <2>1
<1>4. FlattenSeq(a) = IF n = 0 THEN a ELSE f[n]
  BY <1>1 DEF FlattenSeq, Flattens
<1>5. FlattenSeq(b) = g[n + 1]
  BY <1>1 DEF FlattenSeq, Flattens
<1> HIDE DEF f, g
<1>6. g[n + 1] = IF n = 0 THEN b[n + 1] ELSE g[n] \o b[n + 1]
  <2>1. n + 1 \in Nat /\ n + 1 \in 1 .. n + 1 /\ (n + 1) - 1 = n /\ (n + 1 = 1 <=> n = 0)
    OBVIOUS
  <2> QED
    BY <1>3, <2>1, FlattensAt
<1>7. \A i \in 1 .. n : f[i] = g[i]
  <2>1. n + 1 \in Nat /\ n <= n + 1
    OBVIOUS
  <2>2. \A i \in 1 .. n : a[i] = b[i]
    BY <1>2
  <2> QED
    BY SMTT(30), <1>3, <2>1, <2>2, FlattenAgree
<1>8. CASE n = 0
  <2>1. << >> \o s[n + 1] = s[n + 1]
    BY ConcatEmptySeq
  <2> QED
    BY <1>1, <1>2, <1>4, <1>5, <1>6, <1>8, <2>1 DEF a, b, FlatUpTo
<1>9. CASE n # 0
  <2>1. n \in 1 .. n
    BY <1>9
  <2>2. FlattenSeq(b) = FlattenSeq(a) \o s[n + 1]
    BY ONLY <1>2, <1>4, <1>5, <1>6, <1>7, <1>9, <2>1, Zenon
  <2> QED
    BY <2>2 DEF a, b, FlatUpTo
<1> QED
  BY <1>8, <1>9

\* Whether d begins with c.
BeginsWith(d, c) == Len(c) <= Len(d) /\ \A j \in 1 .. Len(c) : d[j] = c[j]

\* What is flattened begins with what its first parts make.
LEMMA FlattenPrefix ==
  ASSUME NEW S, NEW n \in Nat, NEW s, \A i \in 1 .. n : s[i] \in Seq(S)
  PROVE  \A k \in 0 .. n :
           /\ FlatUpTo(s, k) \in Seq(S)
           /\ \A m \in 0 .. k : BeginsWith(FlatUpTo(s, k), FlatUpTo(s, m))
<1> DEFINE P(k) == FlatUpTo(s, k)
           Good(k) == /\ P(k) \in Seq(S)
                      /\ \A m \in 0 .. k : /\ Len(P(m)) <= Len(P(k))
                                           /\ \A j \in 1 .. Len(P(m)) : P(k)[j] = P(m)[j]
           Bad == {k \in 0 .. n : ~Good(k)}
<1> SUFFICES ASSUME Bad # {}
             PROVE  FALSE
  BY DEF BeginsWith
<1>1. PICK k \in Bad : \A j \in Bad : k <= j
  <2> HIDE DEF Bad
  <2>1. Bad \subseteq Nat
    BY DEF Bad
  <2> QED
    BY <2>1, LeastOfNat
<1>2. Good(0)
  <2> DEFINE e == [i \in 1 .. 0 |-> s[i]]
  <2>1. e = << >> /\ Len(e) = 0
    OBVIOUS
  <2>2. P(0) = e
    <3> HIDE DEF e
    <3>1. FlattenSeq(e) = e
      BY <2>1 DEF FlattenSeq
    <3> QED
      BY <3>1 DEF e, FlatUpTo
  <2> HIDE DEF P, e
  <2>3. P(0) \in Seq(S) /\ Len(P(0)) = 0
    <3>1. << >> \in Seq(S)
      BY EmptySeq
    <3> QED
      BY <2>1, <2>2, <3>1, Zenon
  <2> QED
    BY <2>3
<1>3. k \in 1 .. n /\ k - 1 \in 0 .. n /\ Good(k - 1)
  <2> HIDE DEF Good
  <2>1. k \in 0 .. n /\ ~Good(k)
    BY <1>1
  <2>2. k # 0
    BY <1>2, <2>1
  <2>3. k \in 1 .. n /\ k - 1 \in 0 .. n /\ k - 1 < k
    BY <2>1, <2>2
  <2>4. k - 1 \notin Bad
    <3> HIDE DEF Bad
    <3> QED
      BY <1>1, <2>3
  <2> QED
    BY <2>3, <2>4
<1>4. P(k) = P(k - 1) \o s[k]
  <2>1. k - 1 \in Nat /\ (k - 1) + 1 = k /\ \A i \in 1 .. (k - 1) + 1 : s[i] \in Seq(S)
    BY <1>3
  <2> QED
    BY <2>1, FlattenLast
<1> HIDE DEF P
<1>5. P(k - 1) \in Seq(S) /\ s[k] \in Seq(S)
  BY <1>3
<1>6. /\ P(k) \in Seq(S) /\ Len(P(k - 1)) <= Len(P(k))
      /\ Len(P(k - 1)) \in Nat /\ Len(P(k)) \in Nat
      /\ \A j \in 1 .. Len(P(k - 1)) : P(k)[j] = P(k - 1)[j]
  <2> DEFINE a == P(k - 1)
             b == s[k]
  <2>1. /\ a \o b \in Seq(S) /\ Len(a \o b) = Len(a) + Len(b) /\ Len(a) \in Nat /\ Len(b) \in Nat
        /\ \A j \in 1 .. Len(a) : (a \o b)[j] = a[j]
    <3> HIDE DEF a, b
    <3>1. a \in Seq(S) /\ b \in Seq(S)
      BY <1>5 DEF a, b
    <3> QED
      BY <3>1
  <2> DEFINE c == a \o b
  <2>2. P(k) = c /\ c \in Seq(S) /\ Len(c) = Len(a) + Len(b) /\ \A j \in 1 .. Len(a) : c[j] = a[j]
    BY <1>4, <2>1
  <2> HIDE DEF b, c
  <2>3. Len(a) <= Len(c) /\ Len(c) \in Nat
    BY <2>1, <2>2
  <2> QED
    BY <2>1, <2>2, <2>3
<1>7. \A m \in 0 .. k : /\ Len(P(m)) <= Len(P(k))
                        /\ \A j \in 1 .. Len(P(m)) : P(k)[j] = P(m)[j]
  <2> SUFFICES ASSUME NEW m \in 0 .. k
               PROVE  /\ Len(P(m)) <= Len(P(k))
                      /\ \A j \in 1 .. Len(P(m)) : P(k)[j] = P(m)[j]
    OBVIOUS
  <2>1. CASE m = k
    BY <1>6, <2>1
  <2>2. CASE m # k
    <3>1. m \in 0 .. k - 1 /\ m \in 0 .. n
      BY <1>3, <2>2
    <3>2. /\ Len(P(m)) <= Len(P(k - 1))
          /\ \A j \in 1 .. Len(P(m)) : P(k - 1)[j] = P(m)[j]
      BY <1>3, <3>1
    <3>3. m \notin Bad
      <4>1. m < k
        BY <1>3, <3>1
      <4> HIDE DEF Bad
      <4> QED
        BY <1>1, <1>3, <3>1, <4>1
    <3>4. Len(P(m)) \in Nat
      BY <3>1, <3>3
    <3> QED
      BY <1>6, <3>2, <3>4
  <2> QED
    BY <2>1, <2>2
<1> QED
  BY <1>1, <1>6, <1>7 DEF BeginsWith

\* Where part k + 1 of the n of s is when they are flattened.
HasPlace(s, n, k) ==
  /\ Len(FlatUpTo(s, k)) \in Nat
  /\ Len(FlatUpTo(s, k + 1)) = Len(FlatUpTo(s, k)) + Len(s[k + 1])
  /\ Len(FlatUpTo(s, k + 1)) <= Len(FlatUpTo(s, n))
  /\ \A j \in 1 .. Len(s[k + 1]) : FlatUpTo(s, n)[Len(FlatUpTo(s, k)) + j] = s[k + 1][j]

\* Each part has its place.
LEMMA FlattenPlaces ==
  ASSUME NEW S, NEW n \in Nat, NEW s, \A i \in 1 .. n : s[i] \in Seq(S), NEW k \in 0 .. n - 1
  PROVE  HasPlace(s, n, k)
<1> DEFINE a == FlatUpTo(s, k)
           b == s[k + 1]
           c == FlatUpTo(s, k + 1)
           d == FlatUpTo(s, n)
<1>1. k \in 0 .. n /\ k + 1 \in 0 .. n /\ n \in 0 .. n /\ k + 1 \in 1 .. n /\ k \in Nat
  OBVIOUS
<1>2. a \in Seq(S) /\ b \in Seq(S)
  BY <1>1, FlattenPrefix
<1>3. c = a \o b
  <2>1. \A i \in 1 .. k + 1 : s[i] \in Seq(S)
    BY <1>1
  <2> QED
    BY <1>1, <2>1, FlattenLast
<1>4. d \in Seq(S) /\ Len(c) <= Len(d) /\ \A j \in 1 .. Len(c) : d[j] = c[j]
  <2>1. d \in Seq(S) /\ BeginsWith(d, c)
    BY <1>1, FlattenPrefix
  <2> QED
    BY <2>1 DEF BeginsWith
<1> HIDE DEF a, b, c, d
<1>5. Len(a) \in Nat /\ Len(b) \in Nat /\ Len(c) = Len(a) + Len(b)
  BY <1>2, <1>3
<1>6. \A j \in 1 .. Len(b) : c[Len(a) + j] = b[j]
  BY <1>2, <1>3
<1>7. \A j \in 1 .. Len(b) : d[Len(a) + j] = b[j]
  BY <1>4, <1>5, <1>6
<1> QED
  BY <1>4, <1>5, <1>7 DEF a, b, c, d, HasPlace

---------------------------------------------------------------------------
\* The cells of instructions.

\* A program that can be encoded under its header.
Encoded(h, q) ==
  /\ HeaderOK(h) /\ q \in Seq(Instructions)
  /\ \A k \in DOMAIN q : Encodable(h, q[k])

\* A special opcode is not a standard one.
LEMMA SpecialLarge ==
  ASSUME NEW h, HeaderOK(h), NEW i \in Instructions, i.op = "special", Encodable(h, i)
  PROVE  SpecialOpcode(h, i) \in Int /\ SpecialOpcode(h, i) >= h.opbase
<1> DEFINE min == h.minlen
           a == i.addr
           q == a \div min
           r == h.lrange
<1>1. min \in Nat \ {0} /\ a \in Nat /\ r \in Nat /\ h.opbase \in Nat /\ h.lbase \in Int /\ i.n \in Int
  BY DEF HeaderOK, Instructions
<1>2. i.n \in h.lbase .. h.lbase + r - 1
  BY DEF Encodable
<1>3. SpecialOpcode(h, i) = h.opbase + (i.n - h.lbase) + r * q
  BY DEF SpecialOpcode
<1> HIDE DEF q, r, a, min
<1>4. q \in Nat
  BY <1>1 DEF q
<1>5. r * q \in Nat
  BY <1>1, <1>4
<1> DEFINE x == r * q
<1> HIDE DEF x
<1>6. x \in Nat /\ SpecialOpcode(h, i) = h.opbase + (i.n - h.lbase) + x
  BY <1>3, <1>5 DEF x
<1>7. i.n - h.lbase \in Nat
  BY <1>1, <1>2
<1> QED
  BY <1>1, <1>6, <1>7

\* What an instruction may look like.
LooksLike(h, c) ==
  \/ c = <<0, 1, 1>>
  \/ \E n \in Int : c = <<0, 2, 2, n>>
  \/ c = <<0, 6, 3, 97, 0, 1, 1, 1>>
  \/ c = <<0, 3, 128, 1, 1>>
  \/ \E o \in Int : c = <<o>> /\ (o >= h.opbase \/ o \in {1, 6, 7, 8, 10, 11})
  \/ \E o \in {2, 3, 4, 5, 9, 12}, n \in Int : c = <<o, n>> /\ o < h.opbase

\* All that is encoded does.
LEMMA CellsLookLike ==
  ASSUME NEW h, HeaderOK(h), NEW i \in Instructions, Encodable(h, i)
  PROVE  LooksLike(h, Cells(h, i)) /\ Cells(h, i) \in Seq(Int)
<1> DEFINE c == Cells(h, i)
<1>1. i.n \in Int /\ i.op \in Extended \cup Bare \cup WithOperand \cup {"special"}
  BY DEF Instructions
<1>2. CASE i.op = "end_sequence"
  <2>1. c = <<0, 1, 1>>
    BY <1>2 DEF Cells, Bare
  <2> QED
    BY <2>1 DEF LooksLike
<1>3. CASE i.op = "set_address"
  <2>1. c = <<0, 2, 2, i.n>>
    BY <1>3 DEF Cells, Bare
  <2> QED
    BY <1>1, <2>1 DEF LooksLike
<1>4. CASE i.op = "define_file"
  <2>1. c = <<0, 6, 3, 97, 0, 1, 1, 1>>
    BY <1>4 DEF Cells, Bare
  <2> QED
    BY <2>1 DEF LooksLike
<1>5. CASE i.op = "vendor"
  <2>1. c = <<0, 3, 128, 1, 1>>
    BY <1>5 DEF Cells, Bare
  <2> QED
    BY <2>1 DEF LooksLike
<1>6. CASE i.op = "special"
  <2>1. c = <<SpecialOpcode(h, i)>>
    BY <1>6 DEF Cells, Bare
  <2>2. SpecialOpcode(h, i) \in Int /\ SpecialOpcode(h, i) >= h.opbase
    BY <1>6, SpecialLarge
  <2> QED
    BY <2>1, <2>2 DEF LooksLike
<1>7. CASE i.op \in Bare
  <2>1. c = <<Opcode(i.op)>>
    BY <1>7 DEF Cells, Bare
  <2>2. Opcode(i.op) \in {1, 6, 7, 8, 10, 11}
    BY <1>7 DEF Opcode, Bare
  <2> QED
    BY <2>1, <2>2 DEF LooksLike
<1>8. CASE i.op \in WithOperand
  <2>1. c = <<Opcode(i.op), i.n>>
    BY <1>8 DEF Cells, Bare, WithOperand
  <2>2. Opcode(i.op) \in {2, 3, 4, 5, 9, 12} /\ Opcode(i.op) < h.opbase
    BY <1>8 DEF Opcode, WithOperand, Encodable, Extended
  <2> QED
    BY <1>1, <2>1, <2>2 DEF LooksLike
<1> QED
  BY <1>1, <1>2, <1>3, <1>4, <1>5, <1>6, <1>7, <1>8 DEF Extended

---------------------------------------------------------------------------
\* The steps of the code.

Reading ==
  \/ EndSequence \/ SetAddress \/ DefineFile \/ UnknownExtended
  \/ Copy \/ AdvancePc \/ AdvanceLine \/ SetOther \/ Special

\* What is read at an instruction is all of it.
LEMMA ReadsOne ==
  ASSUME NEW c, LooksLike(li, c), p \in Nat \ {0}, Len(code) \in Nat, HeaderOK(li),
         p + Len(c) <= Len(code) + 1, \A j \in 1 .. Len(c) : code[p - 1 + j] = c[j],
         Reading
  PROVE  p' = p + Len(c)
<1> DEFINE o == li.opbase
<1>1. o \in 1 .. 13 /\ p \in Nat /\ p > 0
  BY DEF HeaderOK
<1>2. ASSUME NEW j \in Nat, j < Len(c)
      PROVE  code[p + j] = c[j + 1]
  <2>1. Len(c) \in Nat
    BY DEF LooksLike
  <2>2. j + 1 \in 1 .. Len(c) /\ p - 1 + (j + 1) = p + j
    BY <1>1, <1>2, <2>1
  <2> QED
    BY <2>2
<1>3. CASE c = <<0, 1, 1>>
  <2>1. Len(c) = 3 /\ c[1] = 0 /\ c[2] = 1 /\ c[3] = 1
    BY <1>3
  <2>2. code[p] = 0 /\ code[p + 1] = 1 /\ code[p + 2] = 1 /\ p <= Len(code)
    BY <1>1, <1>2, <2>1
  <2>3. EndSequence
    BY <1>1, <2>2 DEF Reading, SetAddress, DefineFile, UnknownExtended, Copy, AdvancePc,
                      AdvanceLine, SetOther, Special, AtOp, AtExtended, Op
  <2> QED
    BY <2>1, <2>3 DEF EndSequence
<1>4. CASE \E n \in Int : c = <<0, 2, 2, n>>
  <2>1. Len(c) = 4 /\ c[1] = 0 /\ c[2] = 2 /\ c[3] = 2
    BY <1>4
  <2>2. code[p] = 0 /\ code[p + 1] = 2 /\ code[p + 2] = 2 /\ p <= Len(code)
    BY <1>1, <1>2, <2>1
  <2>3. SetAddress
    BY <1>1, <2>2 DEF Reading, EndSequence, DefineFile, UnknownExtended, Copy, AdvancePc,
                      AdvanceLine, SetOther, Special, AtOp, AtExtended, Op
  <2> QED
    BY <2>1, <2>3 DEF SetAddress
<1>5. CASE c = <<0, 6, 3, 97, 0, 1, 1, 1>>
  <2>1. Len(c) = 8 /\ c[1] = 0 /\ c[3] = 3 /\ c[4] = 97 /\ c[5] = 0
    BY <1>5
  <2>2. code[p] = 0 /\ code[p + 2] = 3 /\ code[p + 3] = 97 /\ code[p + 4] = 0 /\ p <= Len(code)
    BY <1>1, <1>2, <2>1
  <2>3. DefineFile
    BY <1>1, <2>2 DEF Reading, EndSequence, SetAddress, UnknownExtended, Copy, AdvancePc,
                      AdvanceLine, SetOther, Special, AtOp, AtExtended, Op
  <2>4. PICK e \in p + 3 .. Len(code) :
          code[e] = 0 /\ (\A k \in p + 3 .. e - 1 : code[k] # 0) /\ p' = e + 4
    BY <2>3 DEF DefineFile
  <2>5. e # p + 3 /\ ~(p + 4 < e)
    <3>1. ASSUME p + 4 < e
          PROVE  p + 4 \in p + 3 .. e - 1
      BY <1>1, <3>1
    <3>2. code[p + 3] # 0
      BY <2>2
    <3> QED
      BY <2>2, <2>4, <3>1, <3>2
  <2> QED
    BY <1>1, <2>1, <2>4, <2>5
<1>6. CASE c = <<0, 3, 128, 1, 1>>
  <2>1. Len(c) = 5 /\ c[1] = 0 /\ c[2] = 3 /\ c[3] = 128
    BY <1>6
  <2>2. code[p] = 0 /\ code[p + 1] = 3 /\ code[p + 2] = 128 /\ p <= Len(code)
    BY <1>1, <1>2, <2>1
  <2>3. UnknownExtended
    BY <1>1, <2>2 DEF Reading, EndSequence, SetAddress, DefineFile, Copy, AdvancePc,
                      AdvanceLine, SetOther, Special, AtOp, AtExtended, Op
  <2> QED
    BY <1>1, <2>1, <2>2, <2>3 DEF UnknownExtended
<1>7. CASE \E q \in Int : c = <<q>> /\ (q >= o \/ q \in {1, 6, 7, 8, 10, 11})
  <2>1. PICK q \in Int : c = <<q>> /\ (q >= o \/ q \in {1, 6, 7, 8, 10, 11})
    BY <1>7
  <2>2. Len(c) = 1 /\ c[1] = q
    BY <2>1
  <2>3. code[p] = q /\ q # 0
    BY <1>1, <1>2, <2>1, <2>2
  <2>4. p' = p + 1
    BY SMTT(30), <1>1, <2>1, <2>3
       DEF Reading, EndSequence, SetAddress, DefineFile, UnknownExtended, Copy,
           AdvancePc, AdvanceLine, SetOther, Special, AtOp, AtExtended, Op
  <2> QED
    BY <2>2, <2>4
<1>8. CASE \E q \in {2, 3, 4, 5, 9, 12}, n \in Int : c = <<q, n>> /\ q < o
  <2>1. PICK q \in {2, 3, 4, 5, 9, 12}, n \in Int : c = <<q, n>> /\ q < o
    BY <1>8
  <2>2. Len(c) = 2 /\ c[1] = q
    BY <2>1
  <2>3. code[p] = q
    BY <1>1, <1>2, <2>2
  <2>4. AdvancePc \/ AdvanceLine \/ SetOther
    <3>1. Op # 0 /\ Op # 1 /\ ~(Op >= li.opbase)
      <4>1. q # 0 /\ q # 1 /\ q < o
        BY <2>1
      <4>2. q \in Int
        BY <2>1
      <4>3. ~(q >= o)
        <5> HIDE DEF o
        <5> QED
          BY <1>1, <4>1, <4>2
      <4> QED
        BY <2>3, <4>1, <4>3, Zenon DEF Op
    <3>2. ~EndSequence /\ ~SetAddress /\ ~DefineFile /\ ~UnknownExtended /\ ~Copy /\ ~Special
      BY <3>1, Zenon DEF EndSequence, SetAddress, DefineFile, UnknownExtended, Copy, Special,
                         AtOp, AtExtended
    <3> QED
      BY <3>2 DEF Reading
  <2>5. AdvancePc => p' = p + 2
    BY <2>1, <2>3 DEF AdvancePc, AtOp, Op
  <2>6. AdvanceLine => p' = p + 2
    BY DEF AdvanceLine
  <2>7. SetOther => p' = p + 2
    BY <2>1, <2>3 DEF SetOther, AtOp, Op
  <2> QED
    BY <2>2, <2>4, <2>5, <2>6, <2>7
<1> QED
  BY <1>3, <1>4, <1>5, <1>6, <1>7, <1>8 DEF LooksLike

(* The cells are those of the program, and p is at one of its instructions *)
(* or behind the last.                                                     *)
InProgram ==
  /\ Encoded(li, insts)
  /\ code = FlatUpTo([k \in DOMAIN insts |-> Cells(li, insts[k])], Len(insts))
  /\ at \in {"init", "run", "done"} /\ (at = "init" => p = 1)
  /\ OnInstruction

\* The end of the first k instructions.
LEMMA Behind ==
  ASSUME Encoded(li, insts), NEW k \in 0 .. Len(insts)
  PROVE  FlattenSeq([j \in 1 .. k |-> Cells(li, insts[j])])
           = FlatUpTo([j \in DOMAIN insts |-> Cells(li, insts[j])], k)
<1> DEFINE s == [j \in DOMAIN insts |-> Cells(li, insts[j])]
<1>1. insts \in Seq(Instructions)
  BY DEF Encoded
<1>2. \A j \in 1 .. k : j \in DOMAIN insts
  BY <1>1
<1>3. [j \in 1 .. k |-> Cells(li, insts[j])] = [j \in 1 .. k |-> s[j]]
  BY <1>2
<1> QED
  BY <1>3 DEF FlatUpTo

\* Where the instruction behind the first k begins.
Place(k) == 1 + Len(FlatUpTo([j \in DOMAIN insts |-> Cells(li, insts[j])], k))

\* The cells from p on are those of the instruction i.
Holds(i) ==
  /\ i \in Instructions /\ Encodable(li, i) /\ LooksLike(li, Cells(li, i))
  /\ Len(Cells(li, i)) \in Nat
  /\ p + Len(Cells(li, i)) <= Len(code) + 1
  /\ \A j \in 1 .. Len(Cells(li, i)) : code[p - 1 + j] = Cells(li, i)[j]

\* The place of an instruction holds its cells.
LEMMA InstructionAt ==
  ASSUME InProgram, NEW k \in 0 .. Len(insts), p = Place(k)
  PROVE  /\ Len(code) \in Nat /\ p \in Nat \ {0}
         /\ k = Len(insts) => p = Len(code) + 1
         /\ k # Len(insts) => /\ k + 1 \in 1 .. Len(insts) /\ Holds(insts[k + 1])
                              /\ Place(k + 1) = p + Len(Cells(li, insts[k + 1]))
<1> DEFINE s == [j \in DOMAIN insts |-> Cells(li, insts[j])]
           n == Len(insts)
<1>1. insts \in Seq(Instructions) /\ n \in Nat /\ DOMAIN insts = 1 .. n /\ HeaderOK(li)
  BY DEF InProgram, Encoded
<1>2. ASSUME NEW j \in 1 .. n
      PROVE  /\ s[j] = Cells(li, insts[j]) /\ s[j] \in Seq(Int) /\ LooksLike(li, s[j])
             /\ insts[j] \in Instructions /\ Encodable(li, insts[j])
  <2>1. insts[j] \in Instructions /\ Encodable(li, insts[j])
    BY <1>1 DEF InProgram, Encoded
  <2>2. Cells(li, insts[j]) \in Seq(Int) /\ LooksLike(li, Cells(li, insts[j]))
    BY <1>1, <2>1, CellsLookLike
  <2> QED
    BY <1>1, <2>1, <2>2
<1>3. code = FlatUpTo(s, n)
  BY DEF InProgram
<1>4. p = 1 + Len(FlatUpTo(s, k))
  BY DEF Place
<1>5. Place(k + 1) = 1 + Len(FlatUpTo(s, k + 1))
  BY DEF Place
<1>n. k \in 0 .. n /\ n \in Nat
  BY <1>1
<1> HIDE DEF s, n
<1>6. \A j \in 1 .. n : s[j] \in Seq(Int)
  BY <1>2
<1>7. code \in Seq(Int) /\ FlatUpTo(s, k) \in Seq(Int)
  <2>1. n \in 0 .. n
    BY <1>n
  <2> QED
    BY <1>3, <1>6, <1>n, <2>1, FlattenPrefix
<1>8. Len(code) \in Nat /\ p \in Nat \ {0}
  BY <1>4, <1>7
<1>9. k = n => p = Len(code) + 1
  BY <1>3, <1>4, <1>8
<1>10. ASSUME k # n
       PROVE  /\ k + 1 \in 1 .. n /\ Holds(insts[k + 1])
              /\ Place(k + 1) = p + Len(Cells(li, insts[k + 1]))
  <2>1. k \in 0 .. n - 1 /\ k + 1 \in 1 .. n
    BY <1>n, <1>10
  <2>0. HasPlace(s, n, k)
    BY <1>6, <1>n, <2>1, FlattenPlaces
  <2> DEFINE c == s[k + 1]
             q == Len(FlatUpTo(s, k))
             r == Len(FlatUpTo(s, k + 1))
  <2>2. /\ q \in Nat
        /\ r = q + Len(c)
        /\ r <= Len(code)
        /\ \A j \in 1 .. Len(c) : code[q + j] = c[j]
    BY <1>3, <2>0, Zenon DEF HasPlace
  <2>3. c = Cells(li, insts[k + 1]) /\ c \in Seq(Int) /\ LooksLike(li, c)
        /\ insts[k + 1] \in Instructions /\ Encodable(li, insts[k + 1])
    BY <1>2, <2>1
  <2>4. p = 1 + q /\ Place(k + 1) = 1 + r
    BY <1>4, <1>5
  <2> HIDE DEF c, q, r
  <2>5. Len(c) \in Nat
    BY <2>3
  <2>6. p + Len(c) <= Len(code) + 1 /\ p - 1 = q /\ Place(k + 1) = p + Len(c)
    BY <1>8, <2>2, <2>4, <2>5
  <2>7. \A j \in 1 .. Len(c) : code[p - 1 + j] = c[j]
    BY <2>2, <2>6
  <2> QED
    BY <2>1, <2>3, <2>5, <2>6, <2>7 DEF Holds
<1> QED
  BY <1>8, <1>9, <1>10 DEF n

\* At one of its instructions.
LEMMA AtInstruction ==
  ASSUME InProgram, NEW k \in 0 .. Len(insts), p = Place(k)
  PROVE  p <= Len(code) <=> k # Len(insts)
<1>1. CASE k = Len(insts)
  BY <1>1, InstructionAt
<1>2. CASE k # Len(insts)
  <2>1. /\ Len(code) \in Nat /\ p \in Nat /\ Holds(insts[k + 1])
    BY <1>2, InstructionAt
  <2> DEFINE c == Cells(li, insts[k + 1])
             x == Len(c)
  <2>2. x >= 1
    <3>1. LooksLike(li, c)
      BY <2>1 DEF Holds
    <3> HIDE DEF c
    <3>2. ASSUME NEW o \in Int
          PROVE  Len(<<o>>) = 1 /\ \A n \in Int : Len(<<o, n>>) = 2 /\ Len(<<0, 2, 2, n>>) = 4
      OBVIOUS
    <3>3. Len(<<0, 1, 1>>) = 3 /\ Len(<<0, 6, 3, 97, 0, 1, 1, 1>>) = 8 /\ Len(<<0, 3, 128, 1, 1>>) = 5
      OBVIOUS
    <3>4. \/ Len(c) = 3 \/ Len(c) = 4 \/ Len(c) = 8 \/ Len(c) = 5 \/ Len(c) = 1 \/ Len(c) = 2
      BY <3>1, <3>2, <3>3, Zenon DEF LooksLike
    <3>5. x = 3 \/ x = 4 \/ x = 8 \/ x = 5 \/ x = 1 \/ x = 2
      BY <3>4
    <3> HIDE DEF x
    <3> QED
      BY ONLY <3>5
  <2>3. x \in Nat /\ p + x <= Len(code) + 1 /\ x >= 1
    BY <2>1, <2>2 DEF Holds
  <2> HIDE DEF x
  <2> QED
    BY <1>2, <2>1, <2>3
<1> QED
  BY <1>1, <1>2

\* One step of the reader goes from an instruction to the next.
LEMMA NextPlace ==
  ASSUME InProgram, NEW k \in 0 .. Len(insts), p = Place(k), p <= Len(code), Reading
  PROVE  /\ k + 1 \in 1 .. Len(insts) /\ Holds(insts[k + 1])
         /\ p' = Place(k + 1)
<1>1. k # Len(insts)
  BY AtInstruction
<1> DEFINE c == Cells(li, insts[k + 1])
<1>2. /\ Len(code) \in Nat /\ p \in Nat \ {0}
      /\ k + 1 \in 1 .. Len(insts) /\ Holds(insts[k + 1]) /\ Place(k + 1) = p + Len(c)
  BY <1>1, InstructionAt
<1>3. /\ LooksLike(li, c) /\ HeaderOK(li) /\ p + Len(c) <= Len(code) + 1
      /\ \A j \in 1 .. Len(c) : code[p - 1 + j] = c[j]
  BY <1>2 DEF Holds, InProgram, Encoded
<1> HIDE DEF c
<1>4. p' = p + Len(c)
  BY <1>2, <1>3, ReadsOne
<1> QED
  BY <1>2, <1>4

\* It is at one again.
LEMMA NextInstruction ==
  ASSUME InProgram, at = "run", p <= Len(code), Reading
  PROVE  OnInstruction'
<1>1. PICK k \in 0 .. Len(insts) : p = Place(k)
  <2>1. PICK k \in 0 .. Len(insts) : p = 1 + Len(FlattenSeq([j \in 1 .. k |-> Cells(li, insts[j])]))
    BY DEF InProgram, OnInstruction
  <2>2. p = Place(k)
    BY <2>1, Behind DEF InProgram, Place
  <2> QED
    BY <2>2
<1>2. k + 1 \in 1 .. Len(insts) /\ p' = Place(k + 1)
  BY <1>1, NextPlace
<1>3. k + 1 \in 0 .. Len(insts) /\ li' = li /\ insts' = insts
  <2>1. Len(insts) \in Nat
    BY DEF InProgram, Encoded
  <2>2. li' = li /\ insts' = insts
    BY DEF Reading, EndSequence, SetAddress, DefineFile, UnknownExtended, Copy,
           AdvancePc, AdvanceLine, SetOther, Special, tableVars
  <2> QED
    BY <1>2, <2>1, <2>2
<1>4. FlattenSeq([j \in 1 .. k + 1 |-> Cells(li, insts[j])])
        = FlatUpTo([j \in DOMAIN insts |-> Cells(li, insts[j])], k + 1)
  BY <1>3, Behind DEF InProgram
<1>5. p' = 1 + Len(FlattenSeq([j \in 1 .. k + 1 |-> Cells(li', insts'[j])]))
  BY <1>2, <1>3, <1>4 DEF Place
<1> QED
  BY <1>3, <1>5 DEF OnInstruction

\* The code begins at the first instruction.
LEMMA InProgramFirst ==
  ASSUME Init
  PROVE  InProgram
<1> DEFINE s == [k \in DOMAIN insts |-> Cells(li, insts[k])]
<1>1. li \in Headers /\ insts \in Programs /\ ProgramOK(li, insts)
  BY DEF Init
<1>2. HeaderOK(li) /\ insts \in Seq(Instructions)
  BY <1>1, LineProgramAssumption
<1>3. \A k \in DOMAIN insts : Encodable(li, insts[k])
  BY <1>1 DEF ProgramOK
<1>4. code = FlattenSeq(s) /\ at = "init" /\ p = 1
  BY DEF Init
<1>5. s = [k \in 1 .. Len(insts) |-> s[k]]
  BY <1>2
<1>6. code = FlatUpTo(s, Len(insts))
  <2> HIDE DEF s
  <2> QED
    BY <1>4, <1>5 DEF FlatUpTo
<1> QED
  BY <1>2, <1>3, <1>4, <1>6 DEF InProgram, Encoded, OnInstruction

\* It stays at instructions.
LEMMA InProgramNext ==
  ASSUME InProgram, [Next]_vars
  PROVE  InProgram'
<1>1. CASE Reading
  <2>1. at = "run" /\ p <= Len(code) /\ UNCHANGED tableVars /\ at' \in {"run", "done"}
    BY <1>1 DEF Reading, EndSequence, SetAddress, DefineFile, UnknownExtended, Copy, AdvancePc,
                AdvanceLine, SetOther, Special, AtOp, AtExtended, AppendRow, Answer
  <2>2. OnInstruction'
    BY <1>1, <2>1, NextInstruction
  <2> QED
    BY <2>1, <2>2 DEF InProgram, Encoded, tableVars
<1>2. CASE ReadHeader
  <2>1. at = "init" /\ p' = 1 /\ UNCHANGED tableVars /\ at' \in {"run", "done"}
    BY <1>2 DEF ReadHeader, Answer, InProgram
  <2>2. OnInstruction'
    <3> DEFINE e == [j \in 1 .. 0 |-> Cells(li', insts'[j])]
    <3>1. e = << >> /\ Len(e) = 0
      OBVIOUS
    <3>2. FlattenSeq(e) = << >>
      <4> HIDE DEF e
      <4> QED
        BY <3>1 DEF FlattenSeq
    <3>3. 0 \in 0 .. Len(insts')
      BY <2>1 DEF InProgram, Encoded, tableVars
    <3>4. p' = 1 + Len(FlattenSeq(e))
      <4> HIDE DEF e
      <4> QED
        BY <2>1, <3>2
    <3> QED
      BY <3>3, <3>4 DEF OnInstruction
  <2> QED
    BY <2>1, <2>2 DEF InProgram, Encoded, tableVars
<1>3. CASE ProgramEnd
  <2>1. at' = "done" /\ UNCHANGED tableVars
    BY <1>3 DEF ProgramEnd, Answer
  <2> QED
    BY <2>1 DEF InProgram, Encoded, tableVars, OnInstruction
<1>4. CASE UNCHANGED vars
  BY <1>4 DEF vars, InProgram, Encoded, OnInstruction
<1> QED
  BY <1>1, <1>2, <1>3, <1>4 DEF Next, Reading

(* An opcode is never read out of the middle of an instruction, whatever   *)
(* the operands: each step of _dwarf_lineno_run_program() takes as many    *)
(* cells as the instruction has, the vendor's and the file's too.          *)
THEOREM OnInstructionAlways == Spec => []OnInstruction
<1>1. Init => InProgram
  BY InProgramFirst
<1>2. InProgram /\ [Next]_vars => InProgram'
  BY InProgramNext
<1>3. InProgram => OnInstruction
  BY DEF InProgram
<1> QED
  BY <1>1, <1>2, <1>3, PTL DEF Spec

---------------------------------------------------------------------------
\* What a program means.

\* The entry k of the table g of the instructions q, from the one before.
TableEntry(g, h, q, k) ==
  IF k = 0 THEN [reg |-> Start(1), rows |-> << >>] ELSE Onto(h, g[k - 1], q[k])

\* m is the table of the first n instructions of q, under the header h.
IsTable(m, h, q, n) == m = [k \in 0 .. n |-> TableEntry(m, h, q, k)]

\* Its values.
LEMMA TableAt ==
  ASSUME NEW h, NEW q, NEW n \in Nat, NEW m, IsTable(m, h, q, n), NEW k \in 0 .. n
  PROVE  m[k] = TableEntry(m, h, q, k)
<1> DEFINE r == [j \in 0 .. n |-> TableEntry(m, h, q, j)]
<1>1. m = r
  BY DEF IsTable
<1>2. r[k] = TableEntry(m, h, q, k)
  OBVIOUS
<1> HIDE DEF r
<1> QED
  BY ONLY <1>1, <1>2, Zenon

\* There is one.
LEMMA TableExists ==
  ASSUME NEW h, NEW q, NEW n \in Nat
  PROVE  \E m : IsTable(m, h, q, n)
<1> DEFINE Bad == {k \in Nat : ~\E m : IsTable(m, h, q, k)}
<1> SUFFICES ASSUME Bad # {}
             PROVE  FALSE
  OBVIOUS
<1>1. PICK k \in Bad : \A j \in Bad : k <= j
  <2> HIDE DEF Bad
  <2>1. Bad \subseteq Nat
    BY DEF Bad
  <2> QED
    BY <2>1, LeastOfNat
<1>2. k # 0
  <2> DEFINE base == TableEntry(<< >>, h, q, 0)
             m == [j \in 0 .. 0 |-> base]
  <2>1. TableEntry(m, h, q, 0) = base
    <3> HIDE DEF m
    <3> QED
      BY DEF TableEntry
  <2> HIDE DEF base
  <2>2. m = [j \in 0 .. 0 |-> TableEntry(m, h, q, j)]
    BY <2>1
  <2>3. IsTable(m, h, q, 0)
    <3> HIDE DEF m
    <3> QED
      BY <2>2 DEF IsTable
  <2> QED
    BY <1>1, <2>3
<1>3. k - 1 \in Nat /\ k - 1 \notin Bad /\ k \in Nat
  BY <1>1, <1>2
<1>4. PICK m : IsTable(m, h, q, k - 1)
  BY <1>3
<1> DEFINE g == [j \in 0 .. k |-> TableEntry(m, h, q, j)]
<1>5. \A j \in 0 .. k - 1 : g[j] = m[j]
  <2> SUFFICES ASSUME NEW j \in 0 .. k - 1
               PROVE  g[j] = m[j]
    OBVIOUS
  <2>1. m[j] = TableEntry(m, h, q, j)
    BY <1>3, <1>4, TableAt
  <2>2. j \in 0 .. k
    BY <1>3
  <2> QED
    BY <2>1, <2>2
<1>6. \A j \in 0 .. k : TableEntry(g, h, q, j) = TableEntry(m, h, q, j)
  <2> SUFFICES ASSUME NEW j \in 0 .. k
               PROVE  TableEntry(g, h, q, j) = TableEntry(m, h, q, j)
    OBVIOUS
  <2>1. j # 0 => j - 1 \in 0 .. k - 1
    BY <1>3
  <2> HIDE DEF g
  <2>2. j # 0 => g[j - 1] = m[j - 1]
    BY <1>5, <2>1
  <2> QED
    BY <2>2, Zenon DEF TableEntry
<1>7. g = [j \in 0 .. k |-> TableEntry(g, h, q, j)]
  <2>1. g = [j \in 0 .. k |-> TableEntry(m, h, q, j)]
    OBVIOUS
  <2> HIDE DEF g
  <2> QED
    BY <1>6, <2>1
<1>8. IsTable(g, h, q, k)
  <2> HIDE DEF g
  <2> QED
    BY <1>7 DEF IsTable
<1> QED
  BY <1>1, <1>8

\* It is what the definition stands for.
LEMMA TableIs ==
  ASSUME NEW h, NEW q, Len(q) \in Nat, NEW k \in 0 .. Len(q)
  PROVE  Table(h, q)[k] = TableEntry(Table(h, q), h, q, k)
<1> DEFINE m == CHOOSE g : IsTable(g, h, q, Len(q))
<1>1. IsTable(m, h, q, Len(q))
  <2>1. \E g : IsTable(g, h, q, Len(q))
    BY TableExists
  <2> QED
    BY <2>1
<1>2. Table(h, q) = m
  BY DEF Table, IsTable, TableEntry
<1> HIDE DEF m
<1>3. IsTable(Table(h, q), h, q, Len(q))
  BY <1>1, <1>2, Zenon
<1> QED
  BY <1>3, TableAt

\* What an instruction makes of a table's entry.
LEMMA OntoIs ==
  ASSUME NEW h, NEW m, NEW i
  PROVE  /\ Onto(h, m, i).reg = Effect(h, m.reg, i)
         /\ Onto(h, m, i).rows = m.rows \o RowsOf(h, m.reg, i)
<1> DEFINE e == Effect(h, m.reg, i)
           s == m.rows \o RowsOf(h, m.reg, i)
<1>1. Onto(h, m, i) = [reg |-> e, rows |-> s]
  BY DEF Onto
<1> HIDE DEF e, s
<1>2. Onto(h, m, i).reg = e /\ Onto(h, m, i).rows = s
  BY <1>1
<1> QED
  BY <1>2 DEF e, s

\* A sequence of one.
LEMMA OneOf ==
  ASSUME NEW S, NEW x \in S
  PROVE  <<x>> \in Seq(S) /\ Len(<<x>>) = 1 /\ <<x>>[1] = x
OBVIOUS

Registers == [addr : Int, line : Int, seq : Int]
TableRows == [addr : Int, line : Int, seq : Int, end : BOOLEAN]

\* An instruction makes registers of registers, and rows.
LEMMA EffectType ==
  ASSUME NEW h, HeaderOK(h), NEW i \in Instructions, NEW r \in Registers
  PROVE  /\ Effect(h, r, i) \in Registers
         /\ RowsOf(h, r, i) \in Seq(TableRows)
         /\ Row(r, TRUE) \in TableRows /\ Row(r, FALSE) \in TableRows
         /\ Row(Effect(h, r, i), FALSE) \in TableRows
<1>1. /\ i.n \in Int /\ i.addr \in Nat /\ r.addr \in Int /\ r.line \in Int /\ r.seq \in Int
      /\ h.minlen \in Nat /\ h.lrange \in Nat \ {0} /\ h.opbase \in Int
  BY DEF Instructions, Registers, HeaderOK
<1>2. AddrAfter(h, r, i) \in Int
  <2>1. i.n * h.minlen \in Int
    BY <1>1
  <2>2. (255 - h.opbase) \div h.lrange \in Int
    BY <1>1
  <2> DEFINE d == (255 - h.opbase) \div h.lrange
  <2> HIDE DEF d
  <2>3. d * h.minlen \in Int
    BY <1>1, <2>2 DEF d
  <2> DEFINE x == i.n * h.minlen
             y == d * h.minlen
  <2> HIDE DEF x, y
  <2>4. /\ r.addr + i.addr \in Int /\ r.addr + x \in Int /\ r.addr + i.n \in Int
        /\ r.addr + y \in Int
    BY <1>1, <2>1, <2>3 DEF x, y
  <2> QED
    BY <1>1, <2>4 DEF AddrAfter, x, y, d
<1>3. LineAfter(r, i) \in Int
  BY <1>1 DEF LineAfter
<1>4. Effect(h, r, i) \in Registers
  BY <1>1, <1>2, <1>3 DEF Effect, Start, Registers
<1>5. ASSUME NEW g \in Registers, NEW e \in BOOLEAN
      PROVE  Row(g, e) \in TableRows
  BY DEF Row, Registers, TableRows
<1> HIDE DEF TableRows
<1>6. Row(Effect(h, r, i), FALSE) \in TableRows /\ Row(r, FALSE) \in TableRows /\ Row(r, TRUE) \in TableRows
  BY <1>4, <1>5
<1>7. RowsOf(h, r, i) \in Seq(TableRows)
  <2> DEFINE a == Row(Effect(h, r, i), FALSE)
             b == Row(r, FALSE)
             c == Row(r, TRUE)
  <2> HIDE DEF a, b, c
  <2>1. /\ <<a>> \in Seq(TableRows) /\ <<b>> \in Seq(TableRows) /\ <<c>> \in Seq(TableRows)
        /\ << >> \in Seq(TableRows)
    BY <1>6, OneOf, EmptySeq DEF a, b, c
  <2>2. RowsOf(h, r, i) = <<a>> \/ RowsOf(h, r, i) = <<b>> \/ RowsOf(h, r, i) = <<c>>
          \/ RowsOf(h, r, i) = << >>
    BY DEF RowsOf, a, b, c
  <2> QED
    BY <2>1, <2>2, Zenon
<1> QED
  BY <1>4, <1>6, <1>7

\* The registers and rows of a program that can be encoded.
LEMMA TableType ==
  ASSUME NEW h, NEW q, Encoded(h, q)
  PROVE  \A k \in 0 .. Len(q) : /\ Table(h, q)[k].reg \in Registers
                                /\ Table(h, q)[k].rows \in Seq(TableRows)
<1> DEFINE T(k) == Table(h, q)[k]
           Good(k) == T(k).reg \in Registers /\ T(k).rows \in Seq(TableRows)
           Bad == {k \in 0 .. Len(q) : ~Good(k)}
<1> SUFFICES ASSUME Bad # {}
             PROVE  FALSE
  OBVIOUS
<1>1. q \in Seq(Instructions) /\ Len(q) \in Nat /\ HeaderOK(h)
  BY DEF Encoded
<1>2. PICK k \in Bad : \A j \in Bad : k <= j
  <2>1. Bad \subseteq Nat
    OBVIOUS
  <2> HIDE DEF Bad
  <2> QED
    BY <2>1, LeastOfNat
<1>3. k \in 0 .. Len(q) /\ ~Good(k)
  BY <1>2
<1>4. k # 0
  <2> SUFFICES ASSUME k = 0
               PROVE  FALSE
    OBVIOUS
  <2>1. T(0) = [reg |-> Start(1), rows |-> << >>]
    BY <1>1, <1>3, TableIs DEF TableEntry
  <2>2. Start(1) \in Registers /\ << >> \in Seq(TableRows)
    BY EmptySeq DEF Start, Registers
  <2> HIDE DEF T
  <2>3. T(0).reg = Start(1) /\ T(0).rows = << >>
    BY <2>1
  <2> QED
    BY <1>3, <2>2, <2>3
<1>5. k - 1 \in 0 .. Len(q) /\ Good(k - 1)
  <2>1. k - 1 \in 0 .. Len(q) /\ k - 1 < k
    BY <1>1, <1>3, <1>4
  <2>2. k - 1 \notin Bad
    <3> HIDE DEF Bad
    <3> QED
      BY <1>1, <1>2, <1>3, <2>1
  <2> QED
    BY <2>1, <2>2
<1>6. T(k) = Onto(h, T(k - 1), q[k])
  BY <1>1, <1>3, <1>4, TableIs DEF TableEntry
<1>7. q[k] \in Instructions
  BY <1>1, <1>3, <1>4
<1> DEFINE m == T(k - 1)
<1>8. m.reg \in Registers /\ m.rows \in Seq(TableRows)
  BY <1>5
<1> HIDE DEF T, m
<1>9. /\ Effect(h, m.reg, q[k]) \in Registers /\ RowsOf(h, m.reg, q[k]) \in Seq(TableRows)
  BY <1>1, <1>7, <1>8, EffectType
<1>10. m.rows \o RowsOf(h, m.reg, q[k]) \in Seq(TableRows)
  <2> DEFINE a == m.rows
             b == RowsOf(h, m.reg, q[k])
  <2>1. a \in Seq(TableRows) /\ b \in Seq(TableRows)
    BY <1>8, <1>9
  <2> HIDE DEF a, b
  <2>2. a \o b \in Seq(TableRows)
    BY <2>1
  <2> QED
    BY <2>2 DEF a, b
<1>11. /\ T(k).reg = Effect(h, m.reg, q[k])
       /\ T(k).rows = m.rows \o RowsOf(h, m.reg, q[k])
  <2> DEFINE i == q[k]
  <2> HIDE DEF i
  <2>1. /\ Onto(h, m, i).reg = Effect(h, m.reg, i)
        /\ Onto(h, m, i).rows = m.rows \o RowsOf(h, m.reg, i)
    BY OntoIs
  <2>2. T(k) = Onto(h, m, i)
    BY <1>6 DEF m, i
  <2>3. /\ T(k).reg = Effect(h, m.reg, i)
        /\ T(k).rows = m.rows \o RowsOf(h, m.reg, i)
    BY <2>1, <2>2
  <2> QED
    BY <2>3 DEF i
<1> QED
  BY <1>3, <1>9, <1>10, <1>11

\* Rows are added behind the others.
LEMMA RowsGrow ==
  ASSUME NEW h, NEW q, Encoded(h, q), NEW k \in 0 .. Len(q) - 1
  PROVE  /\ Table(h, q)[k + 1].reg = Effect(h, Table(h, q)[k].reg, q[k + 1])
         /\ Table(h, q)[k + 1].rows = Table(h, q)[k].rows \o RowsOf(h, Table(h, q)[k].reg, q[k + 1])
<1>1. Len(q) \in Nat
  BY DEF Encoded
<1>2. k + 1 \in 0 .. Len(q) /\ k + 1 # 0 /\ (k + 1) - 1 = k
  BY <1>1
<1>3. Table(h, q)[k + 1] = Onto(h, Table(h, q)[k], q[k + 1])
  BY <1>1, <1>2, TableIs DEF TableEntry
<1> DEFINE t == Table(h, q)[k]
           u == Table(h, q)[k + 1]
           i == q[k + 1]
<1> HIDE DEF t, u, i
<1>4. /\ Onto(h, t, i).reg = Effect(h, t.reg, i)
      /\ Onto(h, t, i).rows = t.rows \o RowsOf(h, t.reg, i)
  BY OntoIs
<1>5. u = Onto(h, t, i)
  BY <1>3 DEF t, u, i
<1>6. u.reg = Effect(h, t.reg, i) /\ u.rows = t.rows \o RowsOf(h, t.reg, i)
  BY <1>4, <1>5
<1> QED
  BY <1>6 DEF t, u, i

\* The rows of all begin with those of the first k.
LEMMA RowsPrefix ==
  ASSUME NEW h, NEW q, Encoded(h, q)
  PROVE  \A k \in 0 .. Len(q) : BeginsWith(Meaning(h, q), Table(h, q)[k].rows)
<1> DEFINE n == Len(q)
           R(k) == Table(h, q)[k].rows
           Good(k) == BeginsWith(R(n), R(k))
           Bad == {j \in 0 .. n : ~Good(n - j)}
<1>1. q \in Seq(Instructions) /\ n \in Nat
  BY DEF Encoded
<1>2. \A k \in 0 .. n : R(k) \in Seq(TableRows)
  BY TableType
<1>3. \A k \in 0 .. n - 1 : BeginsWith(R(k + 1), R(k))
  <2> SUFFICES ASSUME NEW k \in 0 .. n - 1
               PROVE  BeginsWith(R(k + 1), R(k))
    OBVIOUS
  <2> DEFINE a == R(k)
             b == RowsOf(h, Table(h, q)[k].reg, q[k + 1])
             c == R(k + 1)
  <2>1. c = a \o b
    BY <1>1, RowsGrow
  <2>2. a \in Seq(TableRows) /\ b \in Seq(TableRows)
    <3>1. k \in 0 .. n /\ k + 1 \in 1 .. n
      BY <1>1
    <3>2. q[k + 1] \in Instructions /\ HeaderOK(h)
      BY <1>1, <3>1 DEF Encoded
    <3>3. Table(h, q)[k].reg \in Registers
      BY <3>1, TableType
    <3> QED
      BY <1>2, <3>1, <3>2, <3>3, EffectType
  <2> HIDE DEF a, b, c
  <2>3. Len(c) = Len(a) + Len(b) /\ Len(a) \in Nat /\ Len(b) \in Nat
        /\ \A j \in 1 .. Len(a) : c[j] = a[j]
    BY <2>1, <2>2
  <2>4. BeginsWith(c, a)
    BY <2>3 DEF BeginsWith
  <2> QED
    BY <2>4 DEF a, c
<1>4. \A k \in 0 .. n : Good(k)
  <2> SUFFICES ASSUME Bad # {}
               PROVE  FALSE
    <3>1. \A k \in 0 .. n : n - k \in 0 .. n /\ n - (n - k) = k
      BY <1>1
    <3> HIDE DEF Good
    <3> QED
      BY <3>1
  <2>1. PICK j \in Bad : \A i \in Bad : j <= i
    <3>1. Bad \subseteq Nat
      OBVIOUS
    <3> HIDE DEF Bad
    <3> QED
      BY <3>1, LeastOfNat
  <2>2. j \in 0 .. n /\ ~Good(n - j)
    BY <2>1
  <2>3. j # 0
    <3>1. Good(n)
      <4> HIDE DEF R
      <4>1. Len(R(n)) \in Nat
        <5>1. n \in 0 .. n
          BY <1>1
        <5> QED
          BY <1>2, <5>1
      <4> QED
        BY <4>1 DEF BeginsWith
    <3>2. n - 0 = n
      BY <1>1
    <3> HIDE DEF Good
    <3> QED
      BY <2>2, <3>1, <3>2
  <2> DEFINE k == n - j
  <2>4. k \in 0 .. n - 1 /\ k + 1 = n - (j - 1) /\ j - 1 \in 0 .. n /\ j - 1 < j
    BY <1>1, <2>2, <2>3
  <2>5. Good(k + 1)
    <3>1. j - 1 \notin Bad
      <4> HIDE DEF Bad
      <4> QED
        BY <1>1, <2>1, <2>2, <2>4
    <3> HIDE DEF Good
    <3> QED
      BY <2>4, <3>1
  <2> HIDE DEF k
  <2>6. Good(k)
    <3> DEFINE a == R(k)
               b == R(k + 1)
               c == R(n)
    <3>1. BeginsWith(b, a) /\ BeginsWith(c, b)
      BY <1>3, <2>4, <2>5
    <3>2. Len(a) \in Nat /\ Len(b) \in Nat /\ Len(c) \in Nat
      <4>1. k \in 0 .. n /\ k + 1 \in 0 .. n /\ n \in 0 .. n
        BY <1>1, <2>4
      <4> HIDE DEF R
      <4> QED
        BY <1>2, <4>1
    <3> HIDE DEF a, b, c
    <3>3. BeginsWith(c, a)
      BY <3>1, <3>2 DEF BeginsWith
    <3> QED
      BY <3>3 DEF a, c
  <2> QED
    BY <2>2, <2>6 DEF k
<1> QED
  BY <1>4 DEF Meaning

---------------------------------------------------------------------------
\* What each step does to the registers, the row and where the code is.

\* An opcode that is one of the header's standard ones.
LEMMA StandardStep ==
  ASSUME HeaderOK(li), Reading, NEW o \in 1 .. 12, code[p] = o, o < li.opbase
  PROVE  /\ o = 1 => AppendRow(address, line) /\ address' = address /\ line' = line
         /\ o = 2 => address' = address + code[p + 1] * li.minlen
         /\ o = 8 => address' = address + Advance(255)
         /\ o = 9 => address' = address + code[p + 1]
         /\ o \in {2, 8, 9} => line' = line
         /\ o = 3 => address' = address /\ line' = line + code[p + 1]
         /\ o \in {4, 5, 6, 7, 10, 11, 12} => address' = address /\ line' = line
         /\ o # 1 => at' = at /\ ln' = ln
<1>1. Op = o /\ o # 0 /\ ~(o >= li.opbase)
  BY DEF Op, HeaderOK
<1>2. ~EndSequence /\ ~SetAddress /\ ~DefineFile /\ ~UnknownExtended /\ ~Special
  BY <1>1, Zenon DEF EndSequence, SetAddress, DefineFile, UnknownExtended, Special, AtExtended
<1>3. Copy => o = 1
  BY <1>1, Zenon DEF Copy, AtOp
<1>4. AdvanceLine => o = 3
  BY <1>1, Zenon DEF AdvanceLine, AtOp
<1>5. SetOther => o \in {4, 5, 6, 7, 10, 11, 12}
  BY <1>1 DEF SetOther, AtOp
<1>6. AdvancePc => \/ o = 2 /\ address' = address + code[p + 1] * li.minlen
                   \/ o = 8 /\ address' = address + Advance(255)
                   \/ o = 9 /\ address' = address + code[p + 1]
  BY <1>1, Zenon DEF AdvancePc, AtOp
<1>7. Copy \/ AdvancePc \/ AdvanceLine \/ SetOther
  BY <1>2 DEF Reading
<1>8. CASE Copy
  BY <1>3, <1>8 DEF Copy
<1>9. CASE AdvancePc
  <2>1. line' = line /\ at' = at /\ ln' = ln
    BY <1>9 DEF AdvancePc
  <2> QED
    BY <1>6, <1>9, <2>1
<1>10. CASE AdvanceLine
  <2>1. address' = address /\ line' = line + code[p + 1] /\ at' = at /\ ln' = ln
    BY <1>10 DEF AdvanceLine
  <2> QED
    BY <1>4, <1>10, <2>1
<1>11. CASE SetOther
  <2>1. address' = address /\ line' = line /\ at' = at /\ ln' = ln
    BY <1>11 DEF SetOther
  <2> QED
    BY <1>5, <1>11, <2>1
<1> QED
  BY <1>7, <1>8, <1>9, <1>10, <1>11

\* An extended opcode.
LEMMA ExtendedStep ==
  ASSUME HeaderOK(li), Reading, code[p] = 0
  PROVE  /\ at' = at /\ ln' = ln
         /\ code[p + 2] = 1 => address' = 0 /\ line' = 1
         /\ code[p + 2] = 2 => address' = code[p + 3] /\ line' = line
         /\ code[p + 2] \notin {1, 2} => address' = address /\ line' = line
<1>1. Op = 0
  BY DEF Op
<1>2. ~Copy /\ ~AdvancePc /\ ~AdvanceLine /\ ~SetOther /\ ~Special
  BY <1>1 DEF Copy, AdvancePc, AdvanceLine, SetOther, Special, AtOp
<1>3. CASE EndSequence
  BY <1>3 DEF EndSequence, AtExtended, ResetRegisters
<1>4. CASE SetAddress
  BY <1>4 DEF SetAddress, AtExtended
<1>5. CASE DefineFile
  BY <1>5 DEF DefineFile, AtExtended
<1>6. CASE UnknownExtended
  BY <1>6 DEF UnknownExtended
<1> QED
  BY <1>2, <1>3, <1>4, <1>5, <1>6 DEF Reading

\* A special opcode.
LEMMA SpecialStep ==
  ASSUME HeaderOK(li), Reading, code[p] \in Int, code[p] >= li.opbase
  PROVE  /\ line' = line + li.lbase + ((code[p] - li.opbase) % li.lrange)
         /\ address' = address + Advance(code[p])
         /\ AppendRow(address', line')
<1>1. Op = code[p] /\ Op # 0 /\ ~(Op < li.opbase)
  BY DEF Op, HeaderOK
<1>2. /\ ~EndSequence /\ ~SetAddress /\ ~DefineFile /\ ~UnknownExtended
      /\ ~Copy /\ ~AdvancePc /\ ~AdvanceLine /\ ~SetOther
  <2>1. \A o : ~AtOp(o)
    <3>1. SUFFICES ASSUME NEW o, AtOp(o)
                   PROVE  FALSE
      OBVIOUS
    <3>2. o = Op /\ o < li.opbase
      BY <3>1 DEF AtOp
    <3> QED
      BY <1>1, <3>2, Zenon
  <2> QED
    BY <1>1, <2>1, Zenon DEF EndSequence, SetAddress, DefineFile, UnknownExtended, Copy,
                             AdvancePc, AdvanceLine, SetOther, AtExtended
<1>3. Special
  BY <1>2 DEF Reading
<1> QED
  BY <1>1, <1>3, Zenon DEF Special

\* Division, as long division does it.
LEMMA Divided ==
  ASSUME NEW m \in Nat \ {0}, NEW q \in Nat, NEW d \in 0 .. m - 1, NEW x \in Int, x = d + m * q
  PROVE  x \div m = q /\ x % m = d
<1> DEFINE a == x \div m
           b == x % m
<1>1. a \in Int /\ b \in 0 .. m - 1 /\ x = m * a + b
  OBVIOUS
<1> HIDE DEF a, b
<1>2. ASSUME NEW e \in Nat \ {0}
      PROVE  m * e >= m
  OBVIOUS
<1>3. m * q - m * a = m * (q - a) /\ m * a - m * q = m * (a - q) /\ m * a \in Int /\ m * q \in Int
  BY <1>1
<1>4. ~(q > a)
  <2> SUFFICES ASSUME q > a
               PROVE  FALSE
    OBVIOUS
  <2>1. q - a \in Nat \ {0}
    BY <1>1
  <2>2. m * (q - a) >= m
    BY <1>2, <2>1
  <2> DEFINE u == m * q
             v == m * a
             w == m * (q - a)
  <2>3. u \in Int /\ v \in Int /\ w = u - v /\ w >= m /\ x = d + u /\ x = v + b
    BY <1>1, <1>3, <2>2
  <2> HIDE DEF u, v, w
  <2> QED
    BY <1>1, <2>3
<1>5. ~(a > q)
  <2> SUFFICES ASSUME a > q
               PROVE  FALSE
    OBVIOUS
  <2>1. a - q \in Nat \ {0}
    BY <1>1
  <2>2. m * (a - q) >= m
    BY <1>2, <2>1
  <2> DEFINE u == m * q
             v == m * a
             w == m * (a - q)
  <2>3. u \in Int /\ v \in Int /\ w = v - u /\ w >= m /\ x = d + u /\ x = v + b
    BY <1>1, <1>3, <2>2
  <2> HIDE DEF u, v, w
  <2> QED
    BY <1>1, <2>3
<1>6. a = q
  BY <1>1, <1>4, <1>5
<1>7. b = d
  <2> DEFINE u == m * q
  <2>1. u \in Int /\ x = d + u /\ x = u + b
    BY <1>1, <1>3, <1>6
  <2> HIDE DEF u
  <2> QED
    BY <1>1, <2>1
<1> QED
  BY <1>6, <1>7 DEF a, b

\* A special opcode means what was encoded in it.
LEMMA SpecialDecodes ==
  ASSUME NEW h, HeaderOK(h), NEW i \in Instructions, i.op = "special", Encodable(h, i)
  PROVE  /\ h.lbase + ((SpecialOpcode(h, i) - h.opbase) % h.lrange) = i.n
         /\ ((SpecialOpcode(h, i) - h.opbase) \div h.lrange) * h.minlen = i.addr
<1> DEFINE min == h.minlen
           a == i.addr
           q == a \div min
           r == h.lrange
           d == i.n - h.lbase
           o == h.opbase
           b == h.lbase
           n == i.n
           s == SpecialOpcode(h, i)
<1>1. min \in Nat \ {0} /\ a \in Nat /\ r \in Nat \ {0} /\ o \in Int /\ b \in Int /\ n \in Int
  BY DEF HeaderOK, Instructions
<1>2. n \in b .. b + r - 1 /\ a % min = 0
  BY DEF Encodable
<1>3. s = o + d + r * q
  BY DEF SpecialOpcode
<1>4. d = n - b
  OBVIOUS
<1> HIDE DEF a, min, r, o, b, n, s, d
<1>5. q \in Nat /\ q * min = a
  <2>1. q \in Nat /\ a = min * q + (a % min)
    BY <1>1
  <2> HIDE DEF q
  <2>2. a = min * q
    BY <1>1, <1>2, <2>1
  <2> QED
    BY <1>1, <2>1, <2>2
<1> HIDE DEF q
<1>6. d \in 0 .. r - 1
  BY <1>1, <1>2, <1>4
<1> DEFINE x == s - o
<1>7. x \in Int /\ x = d + r * q
  <2> DEFINE y == r * q
  <2>1. y \in Int
    BY <1>1, <1>5
  <2> HIDE DEF y
  <2>2. s = o + d + y
    BY <1>3 DEF y
  <2>3. x \in Int /\ x = d + y
    BY <1>1, <1>6, <2>1, <2>2
  <2> QED
    BY <2>3 DEF y
<1> HIDE DEF x
<1>8. x \div r = q /\ x % r = d
  BY <1>1, <1>5, <1>6, <1>7, Divided
<1>9. b + (x % r) = n
  BY <1>1, <1>4, <1>8
<1>10. (x \div r) * min = a
  BY <1>5, <1>8
<1> QED
  BY <1>9, <1>10 DEF x, s, o, b, r, n, a, min

\* A row with these registers is appended, or it is behind the address asked about.
ShowsRow(g) ==
  \/ g.addr <= pc /\ at' = at /\ ln' = [addr |-> g.addr, line |-> g.line]
  \/ pc < g.addr /\ at' = "done" /\ ln' = ln

\* What becomes of the rows r of a table when s is appended to them.
ShowsRows(s, r) ==
  \/ s = << >> /\ at' = at /\ ln' = ln
  \/ s = <<Row(r, TRUE)>> /\ at' = at /\ ln' = ln
  \/ \E g \in Registers : s = <<Row(g, FALSE)>> /\ ShowsRow(g)

\* That is what APPEND_ROW does.
LEMMA AppendShows ==
  ASSUME pc \in Int, NEW g \in Registers, NEW a, NEW l, a = g.addr, l = g.line, AppendRow(a, l)
  PROVE  ShowsRow(g)
<1>1. g.addr \in Int
  BY DEF Registers
<1> QED
  BY <1>1 DEF AppendRow, Answer, ShowsRow

\* The registers that an instruction makes.
LEMMA EffectIs ==
  ASSUME NEW h, NEW r, NEW i
  PROVE  /\ i.op # "end_sequence" => /\ Effect(h, r, i).addr = AddrAfter(h, r, i)
                                     /\ Effect(h, r, i).line = LineAfter(r, i)
         /\ i.op = "end_sequence" => /\ Effect(h, r, i).addr = 0
                                     /\ Effect(h, r, i).line = 1
<1>1. CASE i.op = "end_sequence"
  <2>1. Effect(h, r, i) = Start(r.seq + 1)
    BY <1>1 DEF Effect
  <2> DEFINE q == r.seq + 1
  <2> HIDE DEF q
  <2>2. Start(q).addr = 0 /\ Start(q).line = 1
    BY DEF Start
  <2>3. Effect(h, r, i) = Start(q)
    BY <2>1 DEF q
  <2> QED
    BY <1>1, <2>2, <2>3
<1>2. CASE i.op # "end_sequence"
  <2> DEFINE a == AddrAfter(h, r, i)
             l == LineAfter(r, i)
  <2>1. Effect(h, r, i) = [addr |-> a, line |-> l, seq |-> r.seq]
    BY <1>2 DEF Effect
  <2> HIDE DEF a, l
  <2>2. Effect(h, r, i).addr = a /\ Effect(h, r, i).line = l
    BY <2>1
  <2> QED
    BY <1>2, <2>2 DEF a, l
<1> QED
  BY <1>1, <1>2

\* A step of the code is its instruction's effect.
LEMMA StepDoes ==
  ASSUME HeaderOK(li), pc \in Int, p \in Nat \ {0}, NEW i, Holds(i), NEW r \in Registers,
         address = r.addr, line = r.line, Reading
  PROVE  /\ address' = Effect(li, r, i).addr /\ line' = Effect(li, r, i).line
         /\ ShowsRows(RowsOf(li, r, i), r)
<1> DEFINE c == Cells(li, i)
           e == Effect(li, r, i)
<1>1. i \in Instructions /\ Encodable(li, i) /\ i.n \in Int
      /\ i.op \in Extended \cup Bare \cup WithOperand \cup {"special"}
  BY DEF Holds, Instructions
<1>2. Len(c) \in Nat /\ \A j \in 1 .. Len(c) : code[p - 1 + j] = c[j]
  BY DEF Holds
<1>3. ASSUME NEW j \in 0 .. Len(c) - 1
      PROVE  code[p + j] = c[j + 1]
  <2>1. j + 1 \in 1 .. Len(c) /\ p - 1 + (j + 1) = p + j
    BY <1>2
  <2> QED
    BY <1>2, <2>1
<1>e. e \in Registers
  BY <1>1, EffectType
<1> HIDE DEF e
<1>4. CASE i.op = "end_sequence"
  <2>1. c = <<0, 1, 1>>
    BY <1>4 DEF Cells, Bare
  <2>2. Len(c) = 3 /\ c[1] = 0 /\ c[3] = 1
    BY <2>1
  <2>3. code[p] = 0 /\ code[p + 2] = 1
    <3> HIDE DEF c
    <3>1. code[p + 0] = c[0 + 1] /\ code[p + 2] = c[2 + 1]
      BY <1>3, <2>2
    <3> QED
      BY <2>2, <3>1
  <2>4. at' = at /\ ln' = ln /\ address' = 0 /\ line' = 1
    BY <2>3, ExtendedStep
  <2>5. RowsOf(li, r, i) = <<Row(r, TRUE)>>
    BY <1>4 DEF RowsOf
  <2>6. e.addr = 0 /\ e.line = 1
    BY <1>4, EffectIs DEF e
  <2> QED
    BY <2>4, <2>5, <2>6 DEF ShowsRows, e
<1>5. CASE i.op \in {"set_address", "define_file", "vendor"}
  <2>1. c[1] = 0 /\ Len(c) >= 4 /\ (i.op = "set_address" => c[3] = 2 /\ c[4] = i.n)
        /\ (i.op # "set_address" => c[3] \notin {1, 2})
    <3>1. CASE i.op = "set_address"
      <4>1. c = <<0, 2, 2, i.n>>
        BY <3>1 DEF Cells, Bare
      <4> QED
        BY <3>1, <4>1
    <3>2. CASE i.op = "define_file"
      <4>1. c = <<0, 6, 3, 97, 0, 1, 1, 1>>
        BY <3>2 DEF Cells, Bare
      <4> QED
        BY <3>2, <4>1
    <3>3. CASE i.op = "vendor"
      <4>1. c = <<0, 3, 128, 1, 1>>
        BY <3>3 DEF Cells, Bare
      <4> QED
        BY <3>3, <4>1
    <3> QED
      BY <1>5, <3>1, <3>2, <3>3
  <2>2. code[p] = 0 /\ code[p + 2] = c[3] /\ code[p + 3] = c[4]
    <3> HIDE DEF c
    <3>1. code[p + 0] = c[0 + 1] /\ code[p + 2] = c[2 + 1] /\ code[p + 3] = c[3 + 1]
      BY <1>2, <1>3, <2>1
    <3> QED
      BY <2>1, <3>1
  <2>3. /\ at' = at /\ ln' = ln
        /\ i.op = "set_address" => address' = i.n /\ line' = line
        /\ i.op # "set_address" => address' = address /\ line' = line
    <3>1. /\ at' = at /\ ln' = ln
          /\ code[p + 2] = 2 => address' = code[p + 3] /\ line' = line
          /\ code[p + 2] \notin {1, 2} => address' = address /\ line' = line
      BY <2>2, ExtendedStep
    <3> HIDE DEF c
    <3> QED
      BY <2>1, <2>2, <3>1
  <2>4. RowsOf(li, r, i) = << >>
    BY <1>5 DEF RowsOf
  <2>5. /\ AddrAfter(li, r, i) = IF i.op = "set_address" THEN i.n ELSE r.addr
        /\ LineAfter(r, i) = r.line
    BY <1>5 DEF AddrAfter, LineAfter
  <2>6. e.addr = AddrAfter(li, r, i) /\ e.line = LineAfter(r, i)
    BY <1>5, EffectIs DEF e
  <2> QED
    BY <2>3, <2>4, <2>5, <2>6 DEF ShowsRows, e
<1>6. CASE i.op = "special"
  <2> DEFINE s == SpecialOpcode(li, i)
  <2>1. c = <<s>>
    BY <1>6 DEF Cells, Bare
  <2>2. s \in Int /\ s >= li.opbase
    BY <1>1, <1>6, SpecialLarge
  <2>3. /\ li.lbase + ((s - li.opbase) % li.lrange) = i.n
        /\ ((s - li.opbase) \div li.lrange) * li.minlen = i.addr
    BY <1>1, <1>6, SpecialDecodes
  <2> HIDE DEF s
  <2>4. code[p] = s
    <3>1. Len(c) = 1 /\ c[1] = s
      BY <2>1
    <3> HIDE DEF c
    <3>2. code[p + 0] = c[0 + 1]
      BY <1>3, <3>1
    <3> QED
      BY <3>1, <3>2
  <2>5. /\ line' = line + li.lbase + ((s - li.opbase) % li.lrange)
        /\ address' = address + Advance(s)
        /\ AppendRow(address', line')
    <3>1. code[p] \in Int /\ code[p] >= li.opbase
      BY <2>2, <2>4
    <3> QED
      BY <2>4, <3>1, SpecialStep
  <2>6. e.addr = r.addr + i.addr /\ e.line = r.line + i.n
    <3>1. AddrAfter(li, r, i) = r.addr + i.addr /\ LineAfter(r, i) = r.line + i.n
      BY <1>6 DEF AddrAfter, LineAfter
    <3>2. e.addr = AddrAfter(li, r, i) /\ e.line = LineAfter(r, i)
      BY <1>6, EffectIs DEF e
    <3> QED
      BY <3>1, <3>2
  <2>7. address' = e.addr /\ line' = e.line
    <3>1. Advance(s) = i.addr
      BY <2>3 DEF Advance
    <3> DEFINE m == (s - li.opbase) % li.lrange
    <3>2. r.line \in Int /\ li.lbase \in Int /\ m \in Int
      BY <2>2 DEF Registers, HeaderOK
    <3> HIDE DEF m
    <3>3. line' = line + li.lbase + m /\ li.lbase + m = i.n
      BY <2>3, <2>5 DEF m
    <3> QED
      BY <2>5, <2>6, <3>1, <3>2, <3>3
  <2>8. RowsOf(li, r, i) = <<Row(e, FALSE)>>
    BY <1>6 DEF RowsOf, e
  <2>9. ShowsRow(e)
    BY <1>e, <2>5, <2>7, AppendShows
  <2> QED
    BY <1>e, <2>7, <2>8, <2>9 DEF ShowsRows, e
<1>7. CASE i.op \in Bare \cup WithOperand
  <2> DEFINE o == Opcode(i.op)
  <2>1. o \in 1 .. 12 /\ o < li.opbase
    <3>1. o \in 1 .. 12
      BY <1>7 DEF Opcode, Bare, WithOperand
    <3>2. i.op \notin Extended /\ i.op # "special"
      BY <1>7 DEF Extended, Bare, WithOperand
    <3> HIDE DEF o
    <3>3. o < li.opbase
      BY <1>1, <3>2, Zenon DEF Encodable, o
    <3> QED
      BY <3>1, <3>3
  <2>2. Len(c) >= 1 /\ c[1] = o /\ (i.op \in WithOperand => Len(c) = 2 /\ c[2] = i.n)
    <3>1. CASE i.op \in Bare
      <4>1. c = <<o>> /\ i.op \notin WithOperand
        BY <3>1 DEF Cells, Bare, WithOperand
      <4> HIDE DEF o, c
      <4> QED
        BY <4>1
    <3>2. CASE i.op \in WithOperand
      <4>1. c = <<o, i.n>>
        BY <3>2 DEF Cells, Bare, WithOperand
      <4> HIDE DEF o, c
      <4> QED
        BY <4>1
    <3> QED
      BY <1>7, <3>1, <3>2
  <2> HIDE DEF c
  <2>3. code[p] = o /\ (i.op \in WithOperand => code[p + 1] = i.n)
    <3>1. code[p + 0] = c[0 + 1] /\ (i.op \in WithOperand => code[p + 1] = c[1 + 1])
      BY <1>2, <1>3, <2>2
    <3> QED
      BY <2>2, <3>1
  <2>4. /\ o = 1 => AppendRow(address, line) /\ address' = address /\ line' = line
        /\ o = 2 => address' = address + code[p + 1] * li.minlen
        /\ o = 8 => address' = address + Advance(255)
        /\ o = 9 => address' = address + code[p + 1]
        /\ o \in {2, 8, 9} => line' = line
        /\ o = 3 => address' = address /\ line' = line + code[p + 1]
        /\ o \in {4, 5, 6, 7, 10, 11, 12} => address' = address /\ line' = line
        /\ o # 1 => at' = at /\ ln' = ln
    <3> HIDE DEF o
    <3> QED
      BY <2>1, <2>3, StandardStep
  <2>5. e.addr = AddrAfter(li, r, i) /\ e.line = LineAfter(r, i)
    <3>1. i.op # "end_sequence"
      BY <1>7 DEF Bare, WithOperand
    <3> QED
      BY <3>1, EffectIs DEF e
  <2>6. CASE i.op = "copy"
    <3>1. o = 1
      BY <2>6 DEF Opcode
    <3>2. AddrAfter(li, r, i) = r.addr /\ LineAfter(r, i) = r.line
          /\ RowsOf(li, r, i) = <<Row(r, FALSE)>>
      BY <2>6 DEF AddrAfter, LineAfter, RowsOf
    <3>3. AppendRow(address, line) /\ address' = address /\ line' = line
      BY <2>4, <3>1
    <3>4. ShowsRow(r)
      BY <3>3, AppendShows
    <3> QED
      BY <2>5, <3>2, <3>3, <3>4 DEF ShowsRows, e
  <2>7. ASSUME i.op # "copy"
        PROVE  /\ RowsOf(li, r, i) = << >> /\ at' = at /\ ln' = ln
    <3>1. o # 1
      BY <1>7, <2>7 DEF Opcode, Bare, WithOperand
    <3>2. RowsOf(li, r, i) = << >>
      BY <1>7, <2>7 DEF RowsOf, Bare, WithOperand
    <3> QED
      BY <2>4, <3>1, <3>2
  <2>8. CASE i.op = "advance_pc"
    <3>1. o = 2 /\ code[p + 1] = i.n
      BY <2>3, <2>8 DEF Opcode, WithOperand
    <3>2. AddrAfter(li, r, i) = r.addr + i.n * li.minlen /\ LineAfter(r, i) = r.line
      BY <2>8 DEF AddrAfter, LineAfter
    <3>3. address' = address + code[p + 1] * li.minlen /\ line' = line
      BY <2>4, <3>1
    <3> QED
      BY <2>5, <2>7, <2>8, <3>1, <3>2, <3>3 DEF ShowsRows, e
  <2>9. CASE i.op = "fixed_advance_pc"
    <3>1. o = 9 /\ code[p + 1] = i.n
      BY <2>3, <2>9 DEF Opcode, WithOperand
    <3>2. AddrAfter(li, r, i) = r.addr + i.n /\ LineAfter(r, i) = r.line
      BY <2>9 DEF AddrAfter, LineAfter
    <3>3. address' = address + code[p + 1] /\ line' = line
      BY <2>4, <3>1
    <3> QED
      BY <2>5, <2>7, <2>9, <3>1, <3>2, <3>3 DEF ShowsRows, e
  <2>10. CASE i.op = "const_add_pc"
    <3>1. o = 8
      BY <2>10 DEF Opcode
    <3>2. AddrAfter(li, r, i) = r.addr + Advance(255) /\ LineAfter(r, i) = r.line
      BY <2>10 DEF AddrAfter, LineAfter, Advance
    <3>3. address' = address + Advance(255) /\ line' = line
      BY <2>4, <3>1
    <3> QED
      BY <2>5, <2>7, <2>10, <3>2, <3>3 DEF ShowsRows, e
  <2>11. CASE i.op = "advance_line"
    <3>1. o = 3 /\ code[p + 1] = i.n
      BY <2>3, <2>11 DEF Opcode, WithOperand
    <3>2. AddrAfter(li, r, i) = r.addr /\ LineAfter(r, i) = r.line + i.n
      BY <2>11 DEF AddrAfter, LineAfter
    <3>3. address' = address /\ line' = line + code[p + 1]
      BY <2>4, <3>1
    <3> QED
      BY <2>5, <2>7, <2>11, <3>1, <3>2, <3>3 DEF ShowsRows, e
  <2>12. CASE i.op \in {"set_file", "set_column", "set_isa", "negate_stmt", "set_basic_block",
                        "set_prologue_end", "set_epilogue_begin"}
    <3>1. o \in {4, 5, 6, 7, 10, 11, 12}
      BY <2>12 DEF Opcode
    <3>2. AddrAfter(li, r, i) = r.addr /\ LineAfter(r, i) = r.line
      BY <2>12 DEF AddrAfter, LineAfter
    <3>3. address' = address /\ line' = line
      <4> HIDE DEF o
      <4> QED
        BY <2>4, <3>1
    <3> QED
      BY <2>5, <2>7, <2>12, <3>2, <3>3 DEF ShowsRows, e
  <2> QED
    BY <1>7, <2>6, <2>8, <2>9, <2>10, <2>11, <2>12 DEF Bare, WithOperand
<1> QED
  BY <1>1, <1>4, <1>5, <1>6, <1>7 DEF Extended

---------------------------------------------------------------------------
\* The row that covers an address.

\* What is kept of a row.
Kept(x) == [addr |-> x.addr, line |-> x.line]

\* l is what is kept of the last row of R that ends no sequence, if there is
\* one, and none of these rows is behind the address a.
Shown(R, l, a) ==
  /\ \A j \in 1 .. Len(R) : ~R[j].end => R[j].addr <= a
  /\ \A j \in 1 .. Len(R) : (~R[j].end /\ \A m \in j + 1 .. Len(R) : R[m].end) => l = Kept(R[j])
  /\ (\A j \in 1 .. Len(R) : R[j].end) => l = NoRow

\* Rows in the order of their addresses.
InOrder(rows) ==
  rows \in Seq(TableRows) /\ \A k \in 1 .. Len(rows) - 1 : rows[k].addr <= rows[k + 1].addr

\* They have addresses.
LEMMA RowsHave ==
  ASSUME NEW rows \in Seq(TableRows)
  PROVE  Len(rows) \in Nat /\ \A k \in 1 .. Len(rows) : rows[k].addr \in Int
<1>1. Len(rows) \in Nat /\ \A k \in 1 .. Len(rows) : rows[k] \in TableRows
  OBVIOUS
<1>2. \A x \in TableRows : x.addr \in Int
  BY DEF TableRows
<1> QED
  BY <1>1, <1>2

\* Not only of two neighbours.
LEMMA RowsOrder ==
  ASSUME NEW rows, InOrder(rows), NEW j \in 1 .. Len(rows)
  PROVE  \A m \in j .. Len(rows) : rows[j].addr <= rows[m].addr
<1> DEFINE a(k) == rows[k].addr
           Bad == {m \in j .. Len(rows) : ~(a(j) <= a(m))}
<1>1. Len(rows) \in Nat /\ \A k \in 1 .. Len(rows) : a(k) \in Int
  BY RowsHave DEF InOrder
<1>2. \A k \in 1 .. Len(rows) - 1 : a(k) <= a(k + 1)
  BY DEF InOrder
<1> HIDE DEF a
<1> SUFFICES ASSUME Bad # {}
             PROVE  FALSE
  BY DEF a
<1>3. PICK m \in Bad : \A k \in Bad : m <= k
  <2>1. Bad \subseteq Nat
    BY <1>1
  <2> HIDE DEF Bad
  <2> QED
    BY <2>1, LeastOfNat
<1>4. m \in j .. Len(rows) /\ ~(a(j) <= a(m))
  BY <1>3
<1>5. m # j
  BY <1>1, <1>4
<1>6. m - 1 \in j .. Len(rows) /\ m - 1 \in 1 .. Len(rows) - 1 /\ (m - 1) + 1 = m /\ m - 1 < m
  BY <1>1, <1>4, <1>5
<1>7. a(j) <= a(m - 1)
  <2>1. m - 1 \notin Bad
    <3> HIDE DEF Bad
    <3> QED
      BY <1>1, <1>3, <1>4, <1>6
  <2> QED
    BY <1>6, <2>1
<1>8. a(m - 1) <= a(m)
  BY <1>2, <1>6
<1>9. a(j) \in Int /\ a(m) \in Int /\ a(m - 1) \in Int
  BY <1>1, <1>4, <1>6
<1> QED
  BY <1>4, <1>7, <1>8, <1>9

\* All rows have been read, or the next one is behind the address.
ReadUpTo(rows, R, a) ==
  /\ InOrder(rows) /\ R \in Seq(TableRows) /\ BeginsWith(rows, R)
  /\ Len(R) = Len(rows) \/ (Len(R) + 1 <= Len(rows) /\ a < rows[Len(R) + 1].addr)

\* Then a row up to the address is among those read.
LEMMA UpToRead ==
  ASSUME NEW rows, NEW R, NEW a \in Int, ReadUpTo(rows, R, a),
         NEW j \in 1 .. Len(rows), rows[j].addr <= a
  PROVE  j \in 1 .. Len(R) /\ R[j] = rows[j]
<1>1. Len(rows) \in Nat /\ Len(R) \in Nat /\ rows \in Seq(TableRows)
  BY DEF InOrder, ReadUpTo
<1>2. \A k \in 1 .. Len(rows) : rows[k].addr \in Int
  BY <1>1, RowsHave
<1>3. Len(R) <= Len(rows) /\ \A k \in 1 .. Len(R) : rows[k] = R[k]
  BY DEF BeginsWith, ReadUpTo
<1>4. j <= Len(R)
  <2> SUFFICES ASSUME j > Len(R)
               PROVE  FALSE
    BY <1>1
  <2> DEFINE n == Len(R) + 1
  <2>1. n \in 1 .. Len(rows) /\ j \in n .. Len(rows) /\ a < rows[n].addr
    BY <1>1 DEF ReadUpTo
  <2> HIDE DEF n
  <2>2. rows[n].addr <= rows[j].addr
    BY <2>1, RowsOrder DEF ReadUpTo
  <2>3. rows[n].addr \in Int /\ rows[j].addr \in Int
    BY <1>1, <1>2, <2>1
  <2> QED
    BY <2>1, <2>2, <2>3
<1> QED
  BY <1>1, <1>3, <1>4

\* The row shown last is the one that covers the address.
LEMMA CoveredLine ==
  ASSUME NEW rows, NEW R, NEW a \in Int, NEW l, ReadUpTo(rows, R, a), Shown(R, l, a),
         NEW j \in 1 .. Len(rows) - 1,
         rows[j].addr <= a, a < rows[j + 1].addr, ~rows[j].end
  PROVE  l = Kept(rows[j])
<1>1. Len(rows) \in Nat /\ Len(R) \in Nat /\ rows \in Seq(TableRows)
  BY DEF InOrder, ReadUpTo
<1>2. \A k \in 1 .. Len(rows) : rows[k].addr \in Int
  BY <1>1, RowsHave
<1>3. Len(R) <= Len(rows) /\ \A k \in 1 .. Len(R) : rows[k] = R[k]
  BY DEF BeginsWith, ReadUpTo
<1>4. j \in 1 .. Len(R) /\ R[j] = rows[j]
  <2>1. j \in 1 .. Len(rows)
    BY <1>1
  <2> QED
    BY <2>1, UpToRead
<1>5. ASSUME NEW m \in j + 1 .. Len(R)
      PROVE  R[m].end
  <2>1. m \in 1 .. Len(R) /\ m \in 1 .. Len(rows) /\ m \in j + 1 .. Len(rows)
        /\ j + 1 \in 1 .. Len(rows)
    BY <1>1, <1>3
  <2>2. rows[j + 1].addr <= rows[m].addr
    BY <2>1, RowsOrder DEF ReadUpTo
  <2>3. rows[m].addr \in Int /\ rows[j + 1].addr \in Int
    BY <1>2, <2>1
  <2>4. ~(rows[m].addr <= a)
    BY <2>2, <2>3
  <2>5. rows[m] = R[m]
    BY <1>3, <2>1
  <2> QED
    BY <2>1, <2>4, <2>5 DEF Shown
<1> QED
  BY <1>4, <1>5 DEF Shown

\* The rows up to the address that end no sequence.
UpTo(rows, a) == {k \in 1 .. Len(rows) : ~rows[k].end /\ rows[k].addr <= a}

\* The last of them is the row shown, whether it covers the address or not.
LEMMA LastUpTo ==
  ASSUME NEW rows, NEW R, NEW a \in Int, NEW l, ReadUpTo(rows, R, a), Shown(R, l, a)
  PROVE  /\ UpTo(rows, a) = {} => l = NoRow
         /\ \A k \in UpTo(rows, a) : (\A j \in UpTo(rows, a) : j <= k) => l = Kept(rows[k])
<1>1. Len(rows) \in Nat /\ Len(R) \in Nat
  BY DEF InOrder, ReadUpTo
<1>2. Len(R) <= Len(rows) /\ \A k \in 1 .. Len(R) : rows[k] = R[k]
  BY DEF BeginsWith, ReadUpTo
<1>3. \A k \in UpTo(rows, a) : k \in 1 .. Len(R) /\ R[k] = rows[k] /\ ~R[k].end
  BY UpToRead DEF UpTo
<1>4. ASSUME NEW k \in 1 .. Len(R), ~R[k].end
      PROVE  k \in UpTo(rows, a)
  <2>1. k \in 1 .. Len(rows) /\ rows[k] = R[k]
    BY <1>1, <1>2
  <2>2. R[k].addr <= a
    BY <1>4 DEF Shown
  <2> QED
    BY <1>4, <2>1, <2>2 DEF UpTo
<1>5. UpTo(rows, a) = {} => l = NoRow
  <2> SUFFICES ASSUME UpTo(rows, a) = {}
               PROVE  l = NoRow
    OBVIOUS
  <2>1. \A j \in 1 .. Len(R) : R[j].end
    BY <1>4
  <2> QED
    BY <2>1 DEF Shown
<1>6. ASSUME NEW k \in UpTo(rows, a), \A j \in UpTo(rows, a) : j <= k
      PROVE  l = Kept(rows[k])
  <2>1. k \in 1 .. Len(R) /\ R[k] = rows[k] /\ ~R[k].end
    BY <1>3
  <2>2. ASSUME NEW m \in k + 1 .. Len(R)
        PROVE  R[m].end
    <3>1. m \in 1 .. Len(R) /\ ~(m <= k)
      BY <1>1, <2>1
    <3> QED
      BY <1>4, <1>6, <3>1
  <2> QED
    BY <2>1, <2>2 DEF Shown
<1> QED
  BY <1>5, <1>6

\* A row put behind others.
LEMMA RowBehind ==
  ASSUME NEW R \in Seq(TableRows), NEW x \in TableRows
  PROVE  /\ R \o <<x>> \in Seq(TableRows) /\ Len(R \o <<x>>) = Len(R) + 1
         /\ (R \o <<x>>)[Len(R) + 1] = x /\ \A j \in 1 .. Len(R) : (R \o <<x>>)[j] = R[j]
<1> DEFINE s == <<x>>
<1>1. s \in Seq(TableRows) /\ Len(s) = 1 /\ s[1] = x
  BY OneOf
<1> HIDE DEF s
<1>2. /\ R \o s \in Seq(TableRows) /\ Len(R \o s) = Len(R) + Len(s)
      /\ \A j \in 1 .. Len(R) + Len(s) :
           (R \o s)[j] = IF j <= Len(R) THEN R[j] ELSE s[j - Len(R)]
  BY <1>1, ConcatProperties
<1>3. Len(R) \in Nat
  OBVIOUS
<1> DEFINE c == R \o s
           n == Len(R)
<1> HIDE DEF c, n
<1>4. /\ Len(c) = n + 1 /\ n \in Nat
      /\ \A j \in 1 .. n + 1 : c[j] = IF j <= n THEN R[j] ELSE s[j - n]
  BY <1>1, <1>2, <1>3 DEF c, n
<1>5. c[n + 1] = s[1] /\ \A j \in 1 .. n : c[j] = R[j]
  <2>1. n + 1 \in 1 .. n + 1 /\ ~(n + 1 <= n) /\ (n + 1) - n = 1
    BY <1>4
  <2>2. c[n + 1] = s[(n + 1) - n]
    BY <1>4, <2>1
  <2> QED
    BY <1>4, <2>1, <2>2
<1> QED
  BY <1>1, <1>2, <1>4, <1>5 DEF c, n, s

\* The end of a sequence shows nothing.
LEMMA ShownEnd ==
  ASSUME NEW R \in Seq(TableRows), NEW x \in TableRows, x.end, NEW l, NEW a, Shown(R, l, a)
  PROVE  Shown(R \o <<x>>, l, a)
<1> DEFINE s == R \o <<x>>
<1>1. Len(s) = Len(R) + 1 /\ s[Len(R) + 1] = x /\ (\A j \in 1 .. Len(R) : s[j] = R[j]) /\ Len(R) \in Nat
  BY RowBehind
<1> HIDE DEF s
<1>2. ASSUME NEW j \in 1 .. Len(s), ~s[j].end
      PROVE  j \in 1 .. Len(R) /\ s[j] = R[j]
  <2>1. j # Len(R) + 1
    BY <1>1, <1>2
  <2> QED
    BY <1>1, <2>1
<1>3. \A j \in 1 .. Len(s) : ~s[j].end => s[j].addr <= a
  BY <1>2 DEF Shown
<1>4. ASSUME NEW j \in 1 .. Len(s), ~s[j].end, \A m \in j + 1 .. Len(s) : s[m].end
      PROVE  l = Kept(s[j])
  <2>1. j \in 1 .. Len(R) /\ s[j] = R[j]
    BY <1>2, <1>4
  <2>2. \A m \in j + 1 .. Len(R) : m \in j + 1 .. Len(s) /\ m \in 1 .. Len(R)
    BY <1>1, <2>1
  <2>3. \A m \in j + 1 .. Len(R) : R[m].end
    BY <1>1, <1>4, <2>2
  <2>4. ~R[j].end
    BY <1>4, <2>1
  <2> QED
    BY <2>1, <2>3, <2>4 DEF Shown
<1>5. ASSUME \A j \in 1 .. Len(s) : s[j].end
      PROVE  l = NoRow
  <2>1. \A j \in 1 .. Len(R) : j \in 1 .. Len(s) /\ s[j] = R[j]
    BY <1>1
  <2>2. \A j \in 1 .. Len(R) : R[j].end
    BY <1>5, <2>1
  <2> QED
    BY <2>2 DEF Shown
<1>6. Shown(s, l, a)
  BY <1>3, <1>4, <1>5 DEF Shown
<1> QED
  BY <1>6 DEF s

\* A row that is not behind the address is kept.
LEMMA ShownRow ==
  ASSUME NEW R \in Seq(TableRows), NEW x \in TableRows, ~x.end, NEW l, NEW a, Shown(R, l, a),
         x.addr <= a
  PROVE  Shown(R \o <<x>>, Kept(x), a)
<1> DEFINE s == R \o <<x>>
           n == Len(R)
<1>1. Len(s) = n + 1 /\ s[n + 1] = x /\ (\A j \in 1 .. n : s[j] = R[j]) /\ n \in Nat
  BY RowBehind
<1> HIDE DEF s
<1>2. \A j \in 1 .. n : ~R[j].end => R[j].addr <= a
  BY DEF Shown
<1> HIDE DEF n
<1>3. ASSUME NEW j \in 1 .. Len(s), ~s[j].end
      PROVE  s[j].addr <= a
  <2>1. CASE j = n + 1
    BY <1>1, <2>1
  <2>2. CASE j # n + 1
    <3>1. j \in 1 .. n
      BY <1>1, <2>2
    <3> QED
      BY <1>1, <1>2, <1>3, <3>1
  <2> QED
    BY <2>1, <2>2
<1>4. ASSUME NEW j \in 1 .. Len(s), ~s[j].end, \A m \in j + 1 .. Len(s) : s[m].end
      PROVE  Kept(x) = Kept(s[j])
  <2>1. j = n + 1
    <3> SUFFICES ASSUME j # n + 1
                 PROVE  FALSE
      OBVIOUS
    <3>1. n + 1 \in j + 1 .. Len(s)
      BY <1>1
    <3>2. s[n + 1].end
      BY <1>4, <3>1
    <3> QED
      BY <1>1, <3>2
  <2> QED
    BY <1>1, <2>1
<1>5. n + 1 \in 1 .. Len(s) /\ ~s[n + 1].end
  BY <1>1
<1>6. Shown(s, Kept(x), a)
  BY <1>3, <1>4, <1>5 DEF Shown
<1> QED
  BY <1>6 DEF s

---------------------------------------------------------------------------
\* The line that is found.

\* The table's entry after k instructions.
Entry(k) == Table(li, insts)[k]

\* The code has read the first k instructions, and has what they mean.
HasRead(k) ==
  /\ p = Place(k)
  /\ address = Entry(k).reg.addr /\ line = Entry(k).reg.line
  /\ Shown(Entry(k).rows, ln, pc)

(* The inductive invariant: while it runs, the registers are those of the  *)
(* table after some number of instructions, and the row kept is the last   *)
(* of the table's so far that ends no sequence, all being up to the        *)
(* address asked about.                                                    *)
LineInv ==
  /\ InProgram /\ pc \in Int
  /\ InOrder(Meaning(li, insts))
  /\ at = "init" => p = 1 /\ ln = NoRow /\ address = 0 /\ line = 1
  /\ at = "run" => HasTable /\ \E k \in 0 .. Len(insts) : HasRead(k)
  /\ LineFound

\* What stays as it is while the program is read.
LEMMA TableKept ==
  ASSUME UNCHANGED tableVars
  PROVE  /\ li' = li /\ insts' = insts /\ pc' = pc /\ code' = code
         /\ HasTable' = HasTable
         /\ \A k : Place(k)' = Place(k) /\ Entry(k)' = Entry(k)
         /\ Meaning(li, insts)' = Meaning(li, insts)
<1>1. li' = li /\ insts' = insts /\ pc' = pc /\ code' = code
  BY DEF tableVars
<1>2. HasTable' = HasTable
  BY <1>1, Zenon DEF HasTable, BadHeader
<1>3. ASSUME NEW k
      PROVE  Place(k)' = Place(k) /\ Entry(k)' = Entry(k)
  BY <1>1, Zenon DEF Place, Entry
<1>4. Meaning(li, insts)' = Meaning(li, insts)
  BY <1>1, Zenon
<1> QED
  BY <1>1, <1>2, <1>3, <1>4

\* The types of what has been read.
LEMMA EntryType ==
  ASSUME InProgram, NEW k \in 0 .. Len(insts)
  PROVE  Entry(k).reg \in Registers /\ Entry(k).rows \in Seq(TableRows)
BY TableType DEF InProgram, Entry

\* What is found when no more rows need be read.
LEMMA Finds ==
  ASSUME InProgram, pc \in Int, InOrder(Meaning(li, insts)), HasTable,
         NEW k \in 0 .. Len(insts), HasRead(k),
         \/ k = Len(insts)
         \/ /\ k # Len(insts)
            /\ \E g \in Registers : /\ RowsOf(li, Entry(k).reg, insts[k + 1]) = <<Row(g, FALSE)>>
                                    /\ pc < g.addr,
         UNCHANGED tableVars, ln' = ln
  PROVE  LineFound'
<1> DEFINE rows == Meaning(li, insts)
           R == Entry(k).rows
<1>1. Encoded(li, insts) /\ Len(insts) \in Nat
  BY DEF InProgram, Encoded
<1>2. R \in Seq(TableRows) /\ BeginsWith(rows, R) /\ InOrder(rows)
  <2>1. R \in Seq(TableRows)
    BY EntryType
  <2>2. BeginsWith(rows, R)
    BY <1>1, RowsPrefix DEF Entry
  <2> QED
    BY <2>1, <2>2
<1>3. Len(R) = Len(rows) \/ (Len(R) + 1 <= Len(rows) /\ pc < rows[Len(R) + 1].addr)
  <2>1. CASE k = Len(insts)
    BY <2>1 DEF Meaning, Entry
  <2>2. CASE k # Len(insts)
    <3>1. PICK g \in Registers : /\ RowsOf(li, Entry(k).reg, insts[k + 1]) = <<Row(g, FALSE)>>
                                 /\ pc < g.addr
      BY <2>2
    <3> DEFINE x == Row(g, FALSE)
               s == R \o <<x>>
    <3>2. Entry(k + 1).rows = s
      <4>1. k \in 0 .. Len(insts) - 1
        BY <1>1, <2>2
      <4>2. Entry(k + 1).rows = R \o RowsOf(li, Entry(k).reg, insts[k + 1])
        BY <1>1, <4>1, RowsGrow DEF Entry
      <4> QED
        BY <3>1, <4>2
    <3>3. BeginsWith(rows, s)
      <4>1. k + 1 \in 0 .. Len(insts)
        BY <1>1, <2>2
      <4>2. BeginsWith(rows, Entry(k + 1).rows)
        BY <1>1, <4>1, RowsPrefix DEF Entry
      <4> QED
        BY <3>2, <4>2
    <3>4. x \in TableRows /\ x.addr = g.addr
      BY DEF Row, Registers, TableRows
    <3>5. Len(s) = Len(R) + 1 /\ s[Len(R) + 1] = x
      BY <1>2, <3>4, RowBehind
    <3>6. Len(R) \in Nat
      BY <1>2
    <3> DEFINE n == Len(R) + 1
    <3> HIDE DEF x, s, R, rows
    <3>7. Len(s) <= Len(rows) /\ \A j \in 1 .. Len(s) : rows[j] = s[j]
      BY <3>3 DEF BeginsWith
    <3>8. rows[n] = x /\ n <= Len(rows)
      BY <3>5, <3>6, <3>7
    <3>9. pc < rows[n].addr
      BY <3>1, <3>4, <3>8
    <3> QED
      BY <3>8, <3>9
  <2> QED
    BY <2>1, <2>2
<1>4. Shown(R, ln, pc)
  BY DEF HasRead
<1> HIDE DEF rows, R
<1>5. ReadUpTo(rows, R, pc)
  BY <1>2, <1>3 DEF ReadUpTo
<1>6. ASSUME NEW j \in 1 .. Len(rows) - 1,
             rows[j].addr <= pc, pc < rows[j + 1].addr, ~rows[j].end
      PROVE  ln.line = rows[j].line
  <2>1. ln = Kept(rows[j])
    BY <1>4, <1>5, <1>6, CoveredLine
  <2> QED
    BY <2>1 DEF Kept
<1>7. /\ UpTo(rows, pc) = {} => ln = NoRow
      /\ \A k1 \in UpTo(rows, pc) :
           (\A j \in UpTo(rows, pc) : j <= k1) => ln = [addr |-> rows[k1].addr, line |-> rows[k1].line]
  BY <1>4, <1>5, LastUpTo DEF Kept
<1>8. /\ HasTable' /\ Meaning(li', insts') = rows /\ pc' = pc /\ ln' = ln
  BY TableKept DEF rows
<1> QED
  BY <1>6, <1>7, <1>8 DEF LineFound, UpTo

\* One instruction more.
LEMMA ReadMore ==
  ASSUME LineInv, at = "run", p <= Len(code), Reading
  PROVE  LineInv'
<1>1. /\ InProgram /\ pc \in Int /\ InOrder(Meaning(li, insts)) /\ HasTable
      /\ HeaderOK(li) /\ Encoded(li, insts) /\ Len(insts) \in Nat
  BY DEF LineInv, InProgram, Encoded
<1>2. PICK k \in 0 .. Len(insts) : HasRead(k)
  BY DEF LineInv
<1> DEFINE i == insts[k + 1]
           t == Entry(k)
           u == Entry(k + 1)
<1>3. k + 1 \in 1 .. Len(insts) /\ Holds(i) /\ p' = Place(k + 1) /\ p \in Nat \ {0}
  <2>1. p = Place(k)
    BY <1>2 DEF HasRead
  <2>2. k + 1 \in 1 .. Len(insts) /\ Holds(i) /\ p' = Place(k + 1)
    BY <1>1, <2>1, NextPlace
  <2>3. p \in Nat \ {0}
    BY <1>1, <2>1, InstructionAt
  <2> QED
    BY <2>2, <2>3
<1>4. t.reg \in Registers /\ t.rows \in Seq(TableRows)
  BY <1>1, EntryType
<1>5. u.reg = Effect(li, t.reg, i) /\ u.rows = t.rows \o RowsOf(li, t.reg, i)
  <2>1. k \in 0 .. Len(insts) - 1
    BY <1>1, <1>3
  <2> QED
    BY <1>1, <2>1, RowsGrow DEF Entry
<1>6. address = t.reg.addr /\ line = t.reg.line /\ Shown(t.rows, ln, pc)
  BY <1>2 DEF HasRead
<1>7. UNCHANGED tableVars
  BY DEF Reading, EndSequence, SetAddress, DefineFile, UnknownExtended, Copy,
         AdvancePc, AdvanceLine, SetOther, Special, tableVars
<1> DEFINE r == t.reg
           R == t.rows
           s == RowsOf(li, r, i)
<1> HIDE DEF i
<1>8. address' = Effect(li, r, i).addr /\ line' = Effect(li, r, i).line /\ ShowsRows(s, r)
  <2> HIDE DEF r
  <2>1. r \in Registers /\ address = r.addr /\ line = r.line
    BY <1>4, <1>6 DEF r
  <2> QED
    BY <1>1, <1>3, <2>1, StepDoes
<1>9. /\ k + 1 \in 0 .. Len(insts') /\ insts' = insts /\ pc' = pc
      /\ Place(k + 1)' = Place(k + 1) /\ Entry(k + 1)' = u
      /\ HasTable' /\ InOrder(Meaning(li', insts')) /\ pc' \in Int
  <2>1. Meaning(li', insts') = Meaning(li, insts)
    BY <1>7, TableKept
  <2> QED
    BY <1>1, <1>3, <1>7, <2>1, TableKept
<1>10. InProgram'
  <2>1. OnInstruction'
    BY <1>1, NextInstruction
  <2>2. at' \in {"run", "done"}
    BY <1>8 DEF ShowsRows, ShowsRow
  <2> QED
    BY <1>1, <1>7, <2>1, <2>2 DEF InProgram, Encoded, tableVars
<1> HIDE DEF t, u
<1>11. u.reg.addr = address' /\ u.reg.line = line' /\ u.rows = R \o s
  BY <1>5, <1>8
<1>12. ASSUME at' = at, Shown(u.rows, ln', pc)
       PROVE  LineInv'
  <2>1. HasRead(k + 1)'
    BY <1>3, <1>9, <1>11, <1>12 DEF HasRead
  <2>2. at' = "run"
    BY <1>12
  <2>3. \E j \in 0 .. Len(insts') : HasRead(j)'
    BY <1>9, <2>1
  <2> QED
    BY <1>9, <1>10, <2>2, <2>3 DEF LineInv, LineFound
<1> HIDE DEF r, R, s
<1>13. r \in Registers /\ R \in Seq(TableRows) /\ Shown(R, ln, pc)
  BY <1>4, <1>6 DEF r, R
<1>14. CASE s = << >> /\ at' = at /\ ln' = ln
  <2>1. R \o << >> = R
    BY <1>13, ConcatEmptySeq
  <2> QED
    BY <1>11, <1>12, <1>13, <1>14, <2>1
<1>15. CASE s = <<Row(r, TRUE)>> /\ at' = at /\ ln' = ln
  <2> DEFINE x == Row(r, TRUE)
  <2>1. x \in TableRows /\ x.end
    BY <1>13 DEF Row, Registers, TableRows
  <2> HIDE DEF x
  <2>2. Shown(R \o <<x>>, ln, pc)
    BY <1>13, <2>1, ShownEnd
  <2> QED
    BY <1>11, <1>12, <1>15, <2>2 DEF x
<1>16. CASE \E g \in Registers : s = <<Row(g, FALSE)>> /\ ShowsRow(g)
  <2>1. PICK g \in Registers : s = <<Row(g, FALSE)>> /\ ShowsRow(g)
    BY <1>16
  <2> DEFINE x == Row(g, FALSE)
  <2>2. x \in TableRows /\ ~x.end /\ x.addr = g.addr /\ x.line = g.line
    BY DEF Row, Registers, TableRows
  <2> HIDE DEF x
  <2>3. s = <<x>>
    BY <2>1 DEF x
  <2>4. CASE g.addr <= pc /\ at' = at /\ ln' = [addr |-> g.addr, line |-> g.line]
    <3>1. Shown(R \o <<x>>, Kept(x), pc)
      BY <1>13, <2>2, <2>4, ShownRow
    <3>2. ln' = Kept(x)
      BY <2>2, <2>4 DEF Kept
    <3> QED
      BY <1>11, <1>12, <2>3, <2>4, <3>1, <3>2
  <2>5. CASE pc < g.addr /\ at' = "done" /\ ln' = ln
    <3>1. k # Len(insts)
      BY <1>1, <1>3
    <3>2. RowsOf(li, Entry(k).reg, insts[k + 1]) = <<Row(g, FALSE)>> /\ pc < g.addr
      BY <2>1, <2>5 DEF s, r, t, i
    <3>3. LineFound'
      BY <1>1, <1>2, <1>7, <2>5, <3>1, <3>2, Finds
    <3> QED
      BY <1>9, <1>10, <2>5, <3>3 DEF LineInv
  <2> QED
    BY <2>1, <2>4, <2>5 DEF ShowsRow
<1> QED
  BY <1>8, <1>14, <1>15, <1>16 DEF ShowsRows

(* The line answered for an address is that of the row that covers it, in  *)
(* whichever sequence, although dwarf_srclines() builds no table and stops *)
(* at the first row behind the address.  For any other address it is that  *)
(* of the last row up to it, the end of a sequence being none, and 0 in    *)
(* front of all rows or with a header that is refused.                     *)
THEOREM LineIsFound == Spec => []LineFound
<1>1. Init => LineInv
  <2> SUFFICES ASSUME Init
               PROVE  LineInv
    OBVIOUS
  <2>1. InProgram
    BY InProgramFirst
  <2>2. pc \in Int
    BY LineProgramAssumption DEF Init
  <2> DEFINE rows == Meaning(li, insts)
  <2>3. InOrder(rows)
    <3>1. rows \in Seq(TableRows)
      <4>1. Len(insts) \in 0 .. Len(insts) /\ Encoded(li, insts)
        BY <2>1 DEF InProgram, Encoded
      <4> QED
        BY <4>1, TableType DEF Meaning
    <3>2. \A k \in 1 .. Len(rows) - 1 : rows[k].addr <= rows[k + 1].addr
      BY DEF Init, ProgramOK
    <3> QED
      BY <3>1, <3>2 DEF InOrder
  <2>4. at = "init" /\ p = 1 /\ ln = NoRow /\ address = 0 /\ line = 1
    BY DEF Init
  <2> QED
    BY <2>1, <2>2, <2>3, <2>4 DEF LineInv, LineFound
<1>2. LineInv /\ [Next]_vars => LineInv'
  <2> SUFFICES ASSUME LineInv, [Next]_vars
               PROVE  LineInv'
    OBVIOUS
  <2>1. InProgram'
    BY InProgramNext DEF LineInv
  <2>2. CASE Reading
    <3>1. at = "run" /\ p <= Len(code)
      BY <2>2 DEF Reading, EndSequence, SetAddress, DefineFile, UnknownExtended, Copy, AdvancePc,
                  AdvanceLine, SetOther, Special, AtOp, AtExtended
    <3> QED
      BY <2>2, <3>1, ReadMore
  <2>3. CASE ReadHeader
    <3>1. /\ at = "init" /\ p' = 1 /\ UNCHANGED tableVars /\ ln' = NoRow
          /\ address' = 0 /\ line' = 1
      BY <2>3 DEF ReadHeader, LineInv
    <3>2. /\ pc' \in Int /\ InOrder(Meaning(li', insts')) /\ HasTable' = HasTable
          /\ insts' = insts /\ Place(0)' = Place(0) /\ Entry(0)' = Entry(0) /\ pc' = pc
      <4>1. Meaning(li', insts') = Meaning(li, insts)
        BY <3>1, TableKept
      <4> QED
        BY <3>1, <4>1, TableKept DEF LineInv
    <3>3. (at' = "done" /\ ~HasTable) \/ (at' = "run" /\ HasTable)
      <4>1. CASE ~li.stmt_list
        BY <2>3, <4>1 DEF ReadHeader, Answer, HasTable
      <4>2. CASE li.stmt_list /\ BadHeader
        BY <2>3, <4>2 DEF ReadHeader, Answer, HasTable
      <4>3. CASE li.stmt_list /\ ~BadHeader
        BY <2>3, <4>3 DEF ReadHeader, HasTable
      <4> QED
        BY <4>1, <4>2, <4>3
    <3>4. CASE at' = "done" /\ ~HasTable
      BY <2>1, <3>1, <3>2, <3>4 DEF LineInv, LineFound
    <3>5. CASE at' = "run" /\ HasTable
      <4>1. Place(0) = 1
        <5> DEFINE s == [j \in DOMAIN insts |-> Cells(li, insts[j])]
                   e == [j \in 1 .. 0 |-> s[j]]
        <5>1. e = << >> /\ Len(e) = 0
          OBVIOUS
        <5>2. Len(FlattenSeq(e)) = 0
          <6> HIDE DEF e
          <6> QED
            BY <5>1 DEF FlattenSeq
        <5> QED
          BY <5>2 DEF Place, FlatUpTo
      <4>2. 0 \in 0 .. Len(insts) /\ Len(insts) \in Nat
        BY DEF LineInv, InProgram, Encoded
      <4>3. Entry(0) = [reg |-> Start(1), rows |-> << >>]
        BY <4>2, TableIs DEF Entry, TableEntry
      <4>4. Entry(0).reg.addr = 0 /\ Entry(0).reg.line = 1 /\ Entry(0).rows = << >>
        BY <4>3 DEF Start
      <4>5. Shown(<< >>, ln', pc)
        BY <3>1 DEF Shown
      <4>6. HasRead(0)'
        BY <3>1, <3>2, <4>1, <4>4, <4>5 DEF HasRead
      <4>7. \E k \in 0 .. Len(insts') : HasRead(k)'
        BY <3>2, <4>2, <4>6
      <4> QED
        BY <2>1, <3>2, <3>5, <4>7 DEF LineInv, LineFound
    <3> QED
      BY <3>3, <3>4, <3>5
  <2>4. CASE ProgramEnd
    <3>1. at = "run" /\ p > Len(code) /\ at' = "done" /\ UNCHANGED tableVars /\ ln' = ln
      BY <2>4 DEF ProgramEnd, Answer
    <3>2. PICK k \in 0 .. Len(insts) : HasRead(k)
      BY <3>1 DEF LineInv
    <3>3. k = Len(insts)
      <4>1. p = Place(k) /\ InProgram
        BY <3>2 DEF HasRead, LineInv
      <4>2. Len(code) \in Nat /\ p \in Nat
        BY <4>1, InstructionAt
      <4> QED
        BY <3>1, <4>1, <4>2, AtInstruction
    <3>4. LineFound'
      BY <3>1, <3>2, <3>3, Finds DEF LineInv
    <3>5. pc' \in Int /\ InOrder(Meaning(li', insts'))
      <4>1. Meaning(li', insts') = Meaning(li, insts) /\ pc' = pc
        BY <3>1, TableKept
      <4> QED
        BY <4>1 DEF LineInv
    <3> QED
      BY <2>1, <3>1, <3>4, <3>5 DEF LineInv
  <2>5. CASE UNCHANGED vars
    <3>1. /\ UNCHANGED tableVars /\ at' = at /\ p' = p /\ address' = address /\ line' = line
          /\ ln' = ln
      BY <2>5 DEF vars, tableVars
    <3>2. /\ li' = li /\ insts' = insts /\ pc' = pc /\ HasTable' = HasTable
          /\ \A k : Place(k)' = Place(k) /\ Entry(k)' = Entry(k)
          /\ Meaning(li', insts') = Meaning(li, insts)
      BY <3>1, TableKept
    <3>3. \A k : HasRead(k)' <=> HasRead(k)
      BY <3>1, <3>2, Zenon DEF HasRead
    <3>4. LineFound' <=> LineFound
      BY <3>1, <3>2, Zenon DEF LineFound
    <3> QED
      BY <2>1, <3>1, <3>2, <3>3, <3>4, Zenon DEF LineInv
  <2> QED
    BY <2>2, <2>3, <2>4, <2>5 DEF Next, Reading
<1>3. LineInv => LineFound
  BY DEF LineInv
<1> QED
  BY <1>1, <1>2, <1>3, PTL DEF Spec
=============================================================================
