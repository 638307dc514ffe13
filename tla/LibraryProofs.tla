--------------------------- MODULE LibraryProofs ---------------------------
(***************************************************************************)
(* Formatted output: vprintfmt() prints what the directives of a format    *)
(* say, for every format, every argument it may take and every size of the *)
(* buffer of snprintf().                                                   *)
(*                                                                         *)
(* The string library: every call of its functions does what is said of    *)
(* it, for every memory, at every address and of every length.             *)
(*                                                                         *)
(* The LIST macros for every set of elements, every list of them and every *)
(* sequence of their uses that the macros' callers may make.               *)
(***************************************************************************)
EXTENDS Strings, Format, Lists, SequenceTheorems, FiniteSetTheorems, WellFoundedInduction,
        TLAPS

---------------------------------------------------------------------------
\* Every set of numbers that is not empty has a least one.
LEMMA LeastOfNat ==
  ASSUME NEW S, S \subseteq Nat, S # {}
  PROVE  \E m \in S : \A k \in S : m <= k
<1> DEFINE R == {ss \in Nat \X Nat : ss[1] < ss[2]}
<1>1. IsWellFoundedOn(R, Nat)
  BY NatLessThanWellFounded DEF OpToRel
<1> HIDE DEF R
<1>2. PICK m \in S : \A k \in S : <<k, m>> \notin R
  BY <1>1, WFMin
<1>3. ASSUME NEW k \in S, k < m
      PROVE  FALSE
  <2>1. <<k, m>> \in Nat \X Nat /\ <<k, m>>[1] = k /\ <<k, m>>[2] = m
    OBVIOUS
  <2>2. <<k, m>> \in R
    BY <1>3, <2>1 DEF R
  <2> QED
    BY <1>2, <2>2
<1>4. \A k \in S : m <= k
  BY <1>3
<1> QED
  BY <1>4

(* FlattenSeq() by the length of what it is given.  Flattens(f, s, n) says  *)
(* that f is the function FlattenSeq() defines for the first n of s.       *)
Flattens(f, s, n) ==
  f = [i \in 1 .. n |-> IF i = 1 THEN s[i] ELSE f[i - 1] \o s[i]]

\* Its values.
LEMMA FlattensAt ==
  ASSUME NEW s, NEW n \in Nat, NEW f, Flattens(f, s, n), NEW i \in 1 .. n
  PROVE  f[i] = IF i = 1 THEN s[i] ELSE f[i - 1] \o s[i]
<1> DEFINE V(h, j) == IF j = 1 THEN s[j] ELSE h[j - 1] \o s[j]
           r == [j \in 1 .. n |-> V(f, j)]
<1>1. f = r
  BY DEF Flattens
<1>2. r[i] = V(f, i)
  OBVIOUS
<1>3. f[i] = V(f, i)
  <2> HIDE DEF V, r
  <2> QED
    BY ONLY <1>1, <1>2, Zenon
<1> QED
  BY <1>3

\* There is such a function.
LEMMA FlattenExists ==
  ASSUME NEW s, NEW n \in Nat
  PROVE  \E f : Flattens(f, s, n)
<1> DEFINE Bad == {k \in Nat : ~\E f : Flattens(f, s, k)}
<1> SUFFICES ASSUME Bad # {}
             PROVE  FALSE
  OBVIOUS
<1>1. PICK k \in Bad : \A j \in Bad : k <= j
  <2> HIDE DEF Bad
  <2>1. Bad \subseteq Nat
    BY DEF Bad
  <2> QED
    BY <2>1, LeastOfNat
<1>2. k # 0
  <2> DEFINE f == [i \in 1 .. 0 |-> IF i = 1 THEN s[i] ELSE << >>]
  <2>1. Flattens(f, s, 0)
    BY DEF Flattens
  <2> QED
    BY <1>1, <2>1
<1>3. k - 1 \in Nat /\ k - 1 \notin Bad
  BY <1>1, <1>2
<1>4. PICK f : Flattens(f, s, k - 1)
  BY <1>3
<1> DEFINE g == [i \in 1 .. k |-> IF i = 1 THEN s[i] ELSE f[i - 1] \o s[i]]
<1>5. \A i \in 1 .. k - 1 : g[i] = f[i]
  BY <1>1, <1>2, <1>4, FlattensAt
<1>6. Flattens(g, s, k)
  <2>1. \A i \in 1 .. k : i = 1 \/ i - 1 \in 1 .. k - 1
    BY <1>1, <1>2
  <2> QED
    BY <1>5, <2>1 DEF Flattens
<1> QED
  BY <1>1, <1>6

\* And one only, whatever follows the first n.
LEMMA FlattenAgree ==
  ASSUME NEW s, NEW t, NEW m \in Nat, NEW n \in Nat, n <= m,
         \A i \in 1 .. n : s[i] = t[i],
         NEW f, NEW g, Flattens(f, s, n), Flattens(g, t, m)
  PROVE  \A i \in 1 .. n : f[i] = g[i]
<1> DEFINE Bad == {i \in 1 .. n : f[i] # g[i]}
<1> SUFFICES ASSUME Bad # {}
             PROVE  FALSE
  OBVIOUS
<1>1. PICK k \in Bad : \A j \in Bad : k <= j
  <2> HIDE DEF Bad
  <2>1. Bad \subseteq Nat
    BY DEF Bad
  <2> QED
    BY <2>1, LeastOfNat
<1>2. /\ f[k] = IF k = 1 THEN s[k] ELSE f[k - 1] \o s[k]
      /\ g[k] = IF k = 1 THEN t[k] ELSE g[k - 1] \o t[k]
  BY <1>1, FlattensAt
<1>3. k # 1 => k - 1 \in 1 .. n /\ k - 1 \notin Bad
  BY <1>1
<1> QED
  BY <1>1, <1>2, <1>3

\* The first n parts of s, flattened.
FlatUpTo(s, n) == FlattenSeq([i \in 1 .. n |-> s[i]])

\* What is flattened ends with the last of its parts.
LEMMA FlattenLast ==
  ASSUME NEW S, NEW n \in Nat, NEW s, \A i \in 1 .. n + 1 : s[i] \in Seq(S)
  PROVE  FlatUpTo(s, n + 1) = FlatUpTo(s, n) \o s[n + 1]
<1> DEFINE a == [i \in 1 .. n |-> s[i]]
           b == [i \in 1 .. n + 1 |-> s[i]]
<1>1. Len(a) = n /\ Len(b) = n + 1 /\ (n = 0 => a = << >>)
  OBVIOUS
<1>2. /\ \A i \in 1 .. n : a[i] = b[i] /\ a[i] = s[i]
      /\ b[n + 1] = s[n + 1]
  OBVIOUS
<1> HIDE DEF a, b
<1> DEFINE f == CHOOSE h : Flattens(h, a, n)
           g == CHOOSE h : Flattens(h, b, n + 1)
<1>3. Flattens(f, a, n) /\ Flattens(g, b, n + 1)
  <2>1. (\E h : Flattens(h, a, n)) /\ \E h : Flattens(h, b, n + 1)
    <3>1. n + 1 \in Nat
      OBVIOUS
    <3> QED
      BY <3>1, FlattenExists, Zenon
  <2> QED
    BY <2>1
<1>4. FlattenSeq(a) = IF n = 0 THEN a ELSE f[n]
  BY <1>1 DEF FlattenSeq, Flattens
<1>5. FlattenSeq(b) = g[n + 1]
  BY <1>1 DEF FlattenSeq, Flattens
<1> HIDE DEF f, g
<1>6. g[n + 1] = IF n = 0 THEN b[n + 1] ELSE g[n] \o b[n + 1]
  <2>1. n + 1 \in Nat /\ n + 1 \in 1 .. n + 1 /\ (n + 1) - 1 = n /\ (n + 1 = 1 <=> n = 0)
    OBVIOUS
  <2> QED
    BY <1>3, <2>1, FlattensAt
<1>7. \A i \in 1 .. n : f[i] = g[i]
  <2>1. n + 1 \in Nat /\ n <= n + 1
    OBVIOUS
  <2>2. \A i \in 1 .. n : a[i] = b[i]
    BY <1>2
  <2> QED
    BY SMTT(30), <1>3, <2>1, <2>2, FlattenAgree
<1>8. CASE n = 0
  <2>1. << >> \o s[n + 1] = s[n + 1]
    BY ConcatEmptySeq
  <2> QED
    BY <1>1, <1>2, <1>4, <1>5, <1>6, <1>8, <2>1 DEF a, b, FlatUpTo
<1>9. CASE n # 0
  <2>1. n \in 1 .. n
    BY <1>9
  <2>2. FlattenSeq(b) = FlattenSeq(a) \o s[n + 1]
    BY ONLY <1>2, <1>4, <1>5, <1>6, <1>7, <1>9, <2>1, Zenon
  <2> QED
    BY <2>2 DEF a, b, FlatUpTo
<1> QED
  BY <1>8, <1>9

\* Whether d begins with c.
BeginsWith(d, c) == Len(c) <= Len(d) /\ \A j \in 1 .. Len(c) : d[j] = c[j]

\* What is flattened begins with what its first parts make.
LEMMA FlattenPrefix ==
  ASSUME NEW S, NEW n \in Nat, NEW s, \A i \in 1 .. n : s[i] \in Seq(S)
  PROVE  \A k \in 0 .. n :
           /\ FlatUpTo(s, k) \in Seq(S)
           /\ \A m \in 0 .. k : BeginsWith(FlatUpTo(s, k), FlatUpTo(s, m))
<1> DEFINE P(k) == FlatUpTo(s, k)
           Good(k) == /\ P(k) \in Seq(S)
                      /\ \A m \in 0 .. k : /\ Len(P(m)) <= Len(P(k))
                                           /\ \A j \in 1 .. Len(P(m)) : P(k)[j] = P(m)[j]
           Bad == {k \in 0 .. n : ~Good(k)}
<1> SUFFICES ASSUME Bad # {}
             PROVE  FALSE
  BY DEF BeginsWith
<1>1. PICK k \in Bad : \A j \in Bad : k <= j
  <2> HIDE DEF Bad
  <2>1. Bad \subseteq Nat
    BY DEF Bad
  <2> QED
    BY <2>1, LeastOfNat
<1>2. Good(0)
  <2> DEFINE e == [i \in 1 .. 0 |-> s[i]]
  <2>1. e = << >> /\ Len(e) = 0
    OBVIOUS
  <2>2. P(0) = e
    <3> HIDE DEF e
    <3>1. FlattenSeq(e) = e
      BY <2>1 DEF FlattenSeq
    <3> QED
      BY <3>1 DEF e, FlatUpTo
  <2> HIDE DEF P, e
  <2>3. P(0) \in Seq(S) /\ Len(P(0)) = 0
    <3>1. << >> \in Seq(S)
      BY EmptySeq
    <3> QED
      BY <2>1, <2>2, <3>1, Zenon
  <2> QED
    BY <2>3
<1>3. k \in 1 .. n /\ k - 1 \in 0 .. n /\ Good(k - 1)
  <2> HIDE DEF Good
  <2>1. k \in 0 .. n /\ ~Good(k)
    BY <1>1
  <2>2. k # 0
    BY <1>2, <2>1
  <2>3. k \in 1 .. n /\ k - 1 \in 0 .. n /\ k - 1 < k
    BY <2>1, <2>2
  <2>4. k - 1 \notin Bad
    <3> HIDE DEF Bad
    <3> QED
      BY <1>1, <2>3
  <2> QED
    BY <2>3, <2>4
<1>4. P(k) = P(k - 1) \o s[k]
  <2>1. k - 1 \in Nat /\ (k - 1) + 1 = k /\ \A i \in 1 .. (k - 1) + 1 : s[i] \in Seq(S)
    BY <1>3
  <2> QED
    BY <2>1, FlattenLast
<1> HIDE DEF P
<1>5. P(k - 1) \in Seq(S) /\ s[k] \in Seq(S)
  BY <1>3
<1>6. /\ P(k) \in Seq(S) /\ Len(P(k - 1)) <= Len(P(k))
      /\ Len(P(k - 1)) \in Nat /\ Len(P(k)) \in Nat
      /\ \A j \in 1 .. Len(P(k - 1)) : P(k)[j] = P(k - 1)[j]
  <2> DEFINE a == P(k - 1)
             b == s[k]
  <2>1. /\ a \o b \in Seq(S) /\ Len(a \o b) = Len(a) + Len(b) /\ Len(a) \in Nat /\ Len(b) \in Nat
        /\ \A j \in 1 .. Len(a) : (a \o b)[j] = a[j]
    <3> HIDE DEF a, b
    <3>1. a \in Seq(S) /\ b \in Seq(S)
      BY <1>5 DEF a, b
    <3> QED
      BY <3>1
  <2> DEFINE c == a \o b
  <2>2. P(k) = c /\ c \in Seq(S) /\ Len(c) = Len(a) + Len(b) /\ \A j \in 1 .. Len(a) : c[j] = a[j]
    BY <1>4, <2>1
  <2> HIDE DEF b, c
  <2>3. Len(a) <= Len(c) /\ Len(c) \in Nat
    BY <2>1, <2>2
  <2> QED
    BY <2>1, <2>2, <2>3
<1>7. \A m \in 0 .. k : /\ Len(P(m)) <= Len(P(k))
                        /\ \A j \in 1 .. Len(P(m)) : P(k)[j] = P(m)[j]
  <2> SUFFICES ASSUME NEW m \in 0 .. k
               PROVE  /\ Len(P(m)) <= Len(P(k))
                      /\ \A j \in 1 .. Len(P(m)) : P(k)[j] = P(m)[j]
    OBVIOUS
  <2>1. CASE m = k
    BY <1>6, <2>1
  <2>2. CASE m # k
    <3>1. m \in 0 .. k - 1 /\ m \in 0 .. n
      BY <1>3, <2>2
    <3>2. /\ Len(P(m)) <= Len(P(k - 1))
          /\ \A j \in 1 .. Len(P(m)) : P(k - 1)[j] = P(m)[j]
      BY <1>3, <3>1
    <3>3. m \notin Bad
      <4>1. m < k
        BY <1>3, <3>1
      <4> HIDE DEF Bad
      <4> QED
        BY <1>1, <1>3, <3>1, <4>1
    <3>4. Len(P(m)) \in Nat
      BY <3>1, <3>3
    <3> QED
      BY <1>6, <3>2, <3>4
  <2> QED
    BY <2>1, <2>2
<1> QED
  BY <1>1, <1>6, <1>7 DEF BeginsWith

\* Where part k + 1 of the n of s is when they are flattened.
HasPlace(s, n, k) ==
  /\ Len(FlatUpTo(s, k)) \in Nat
  /\ Len(FlatUpTo(s, k + 1)) = Len(FlatUpTo(s, k)) + Len(s[k + 1])
  /\ Len(FlatUpTo(s, k + 1)) <= Len(FlatUpTo(s, n))
  /\ \A j \in 1 .. Len(s[k + 1]) : FlatUpTo(s, n)[Len(FlatUpTo(s, k)) + j] = s[k + 1][j]

\* Each part has its place.
LEMMA FlattenPlaces ==
  ASSUME NEW S, NEW n \in Nat, NEW s, \A i \in 1 .. n : s[i] \in Seq(S), NEW k \in 0 .. n - 1
  PROVE  HasPlace(s, n, k)
<1> DEFINE a == FlatUpTo(s, k)
           b == s[k + 1]
           c == FlatUpTo(s, k + 1)
           d == FlatUpTo(s, n)
<1>1. k \in 0 .. n /\ k + 1 \in 0 .. n /\ n \in 0 .. n /\ k + 1 \in 1 .. n /\ k \in Nat
  OBVIOUS
<1>2. a \in Seq(S) /\ b \in Seq(S)
  BY <1>1, FlattenPrefix
<1>3. c = a \o b
  <2>1. \A i \in 1 .. k + 1 : s[i] \in Seq(S)
    BY <1>1
  <2> QED
    BY <1>1, <2>1, FlattenLast
<1>4. d \in Seq(S) /\ Len(c) <= Len(d) /\ \A j \in 1 .. Len(c) : d[j] = c[j]
  <2>1. d \in Seq(S) /\ BeginsWith(d, c)
    BY <1>1, FlattenPrefix
  <2> QED
    BY <2>1 DEF BeginsWith
<1> HIDE DEF a, b, c, d
<1>5. Len(a) \in Nat /\ Len(b) \in Nat /\ Len(c) = Len(a) + Len(b)
  BY <1>2, <1>3
<1>6. \A j \in 1 .. Len(b) : c[Len(a) + j] = b[j]
  BY <1>2, <1>3
<1>7. \A j \in 1 .. Len(b) : d[Len(a) + j] = b[j]
  BY <1>4, <1>5, <1>6
<1> QED
  BY <1>4, <1>5, <1>7 DEF a, b, c, d, HasPlace

---------------------------------------------------------------------------
\* Powers.

\* That p is the function Power() defines, up to n.
Powers(p, b, n) == p = [k \in 0 .. n |-> IF k = 0 THEN 1 ELSE b * p[k - 1]]

\* There is such a function.
LEMMA PowersExist ==
  ASSUME NEW b \in Nat, NEW n \in Nat
  PROVE  \E p : Powers(p, b, n)
<1> DEFINE Bad == {k \in Nat : ~\E p : Powers(p, b, k)}
<1> SUFFICES ASSUME Bad # {}
             PROVE  FALSE
  OBVIOUS
<1>1. PICK k \in Bad : \A j \in Bad : k <= j
  <2> HIDE DEF Bad
  <2>1. Bad \subseteq Nat
    BY DEF Bad
  <2> QED
    BY <2>1, LeastOfNat
<1>2. k # 0
  <2> DEFINE p == [i \in 0 .. 0 |-> IF i = 0 THEN 1 ELSE b]
  <2>1. Powers(p, b, 0)
    BY DEF Powers
  <2> QED
    BY <1>1, <2>1
<1>3. k - 1 \in Nat /\ k - 1 \notin Bad
  BY <1>1, <1>2
<1>4. PICK p : Powers(p, b, k - 1)
  BY <1>3
<1> DEFINE q == [i \in 0 .. k |-> IF i = 0 THEN 1 ELSE b * p[i - 1]]
<1>5. \A i \in 0 .. k - 1 : q[i] = p[i]
  <2> SUFFICES ASSUME NEW i \in 0 .. k - 1
               PROVE  q[i] = p[i]
    OBVIOUS
  <2>1. q[i] = IF i = 0 THEN 1 ELSE b * p[i - 1]
    BY <1>1
  <2>2. p[i] = IF i = 0 THEN 1 ELSE b * p[i - 1]
    <3> DEFINE V(h, j) == IF j = 0 THEN 1 ELSE b * h[j - 1]
               r == [j \in 0 .. k - 1 |-> V(p, j)]
    <3>1. p = r
      BY <1>4 DEF Powers
    <3>2. r[i] = V(p, i)
      OBVIOUS
    <3> HIDE DEF r
    <3> QED
      BY <3>1, <3>2
  <2> QED
    BY <2>1, <2>2
<1>6. Powers(q, b, k)
  <2>1. \A i \in 0 .. k : i = 0 \/ i - 1 \in 0 .. k - 1
    BY <1>1, <1>2
  <2> QED
    BY <1>5, <2>1 DEF Powers
<1> QED
  BY <1>1, <1>6

\* One power from the one before.
LEMMA PowerIs ==
  ASSUME NEW b \in Nat
  PROVE  /\ Power(b)[0] = 1
         /\ \A k \in 1 .. LONG : Power(b)[k] = b * Power(b)[k - 1]
<1>1. LONG \in Nat
  BY FormatAssumption
<1> DEFINE p == CHOOSE q : Powers(q, b, LONG)
<1>2. Powers(p, b, LONG)
  BY <1>1, PowersExist
<1>3. Power(b) = p
  BY DEF Power, Powers
<1> HIDE DEF p
<1>4. \A k \in 0 .. LONG : p[k] = IF k = 0 THEN 1 ELSE b * p[k - 1]
  <2> SUFFICES ASSUME NEW i \in 0 .. LONG
               PROVE  p[i] = IF i = 0 THEN 1 ELSE b * p[i - 1]
    OBVIOUS
  <2> DEFINE V(h, j) == IF j = 0 THEN 1 ELSE b * h[j - 1]
             r == [j \in 0 .. LONG |-> V(p, j)]
  <2>1. p = r
    BY <1>2 DEF Powers
  <2>2. r[i] = V(p, i)
    OBVIOUS
  <2> HIDE DEF r
  <2> QED
    BY <2>1, <2>2
<1> QED
  BY <1>1, <1>3, <1>4

\* Powers are positive, ascend, and those of a larger base are not smaller.
LEMMA PowersAscend ==
  ASSUME NEW b \in Nat, b >= 2
  PROVE  \A k \in 0 .. LONG :
           /\ Power(b)[k] \in Nat \ {0}
           /\ Power(2)[k] \in Nat \ {0} /\ Power(2)[k] <= Power(b)[k]
           /\ \A j \in 0 .. k : Power(b)[j] <= Power(b)[k]
<1> DEFINE Good(k) ==
             /\ Power(b)[k] \in Nat \ {0}
             /\ Power(2)[k] \in Nat \ {0} /\ Power(2)[k] <= Power(b)[k]
             /\ \A j \in 0 .. k : Power(b)[j] <= Power(b)[k]
           Bad == {k \in 0 .. LONG : ~Good(k)}
<1> SUFFICES ASSUME Bad # {}
             PROVE  FALSE
  OBVIOUS
<1>0. LONG \in Nat
  BY FormatAssumption
<1>1. PICK k \in Bad : \A j \in Bad : k <= j
  <2> HIDE DEF Bad
  <2>1. Bad \subseteq Nat
    BY <1>0 DEF Bad
  <2> QED
    BY <2>1, LeastOfNat
<1>2. k \in 1 .. LONG
  <2>1. Good(0)
    BY PowerIs
  <2> HIDE DEF Good
  <2> QED
    BY <1>0, <1>1, <2>1
<1>3. Good(k - 1)
  <2>1. k - 1 \in 0 .. LONG /\ k - 1 < k
    BY <1>0, <1>2
  <2>2. k - 1 \notin Bad
    <3> HIDE DEF Bad
    <3> QED
      BY <1>1, <1>2, <2>1
  <2> HIDE DEF Good
  <2> QED
    BY <2>1, <2>2
<1>4. Power(b)[k] = b * Power(b)[k - 1] /\ Power(2)[k] = 2 * Power(2)[k - 1]
  BY <1>2, PowerIs
<1> DEFINE x == Power(b)[k - 1]
           y == Power(2)[k - 1]
<1>5. x \in Nat \ {0} /\ y \in Nat \ {0} /\ y <= x
  BY <1>3
<1>6. b * x \in Nat /\ 2 * x <= b * x
  <2> HIDE DEF x
  <2>1. b * x = 2 * x + (b - 2) * x /\ (b - 2) * x \in Nat
    BY <1>5
  <2> QED
    BY <1>5, <2>1
<1>7. \A j \in 0 .. k : Power(b)[j] <= Power(b)[k]
  <2> SUFFICES ASSUME NEW j \in 0 .. k
               PROVE  Power(b)[j] <= Power(b)[k]
    OBVIOUS
  <2>1. CASE j = k
    BY <1>4, <1>6, <2>1
  <2>2. CASE j # k
    <3>1. j \in 0 .. k - 1 /\ j \in 0 .. LONG
      BY ONLY <1>0, <1>2, <2>2, j \in 0 .. k
    <3>2. Power(b)[j] <= x
      BY <1>3, <3>1
    <3>3. Power(b)[j] \in Nat
      <4>1. j < k
        BY <1>2, <3>1
      <4>2. j \notin Bad
        <5> HIDE DEF Bad
        <5> QED
          BY <1>1, <1>2, <3>1, <4>1
      <4> QED
        BY <3>1, <4>2
    <3> HIDE DEF x
    <3> QED
      BY <1>4, <1>5, <1>6, <3>2, <3>3 DEF x
  <2> QED
    BY <2>1, <2>2
<1>8. Good(k)
  <2>1. Power(b)[k] \in Nat \ {0} /\ Power(2)[k] \in Nat \ {0} /\ Power(2)[k] <= Power(b)[k]
    <3>1. Power(b)[k] = b * x /\ Power(2)[k] = 2 * y
      BY <1>4
    <3> HIDE DEF x, y
    <3> QED
      BY <1>5, <1>6, <3>1
  <2> QED
    BY <1>7, <2>1
<1> QED
  BY <1>1, <1>8

---------------------------------------------------------------------------
\* Numerals.

\* Division with remainder,
LEMMA Divided ==
  ASSUME NEW n \in Nat, NEW d \in Nat \ {0}
  PROVE  /\ n \div d \in Nat /\ n % d \in 0 .. d - 1
         /\ n = (n \div d) * d + (n % d)
OBVIOUS

\* and what makes one.
LEMMA DivisionIs ==
  ASSUME NEW n \in Nat, NEW d \in Nat \ {0}, NEW q \in Nat, NEW r \in 0 .. d - 1, n = q * d + r
  PROVE  n \div d = q /\ n % d = r
<1> DEFINE p == n \div d
           s == n % d
<1>1. p \in Nat /\ s \in 0 .. d - 1 /\ n = p * d + s
  BY Divided
<1> HIDE DEF p, s
<1>2. ~ p < q
  <2> SUFFICES ASSUME p < q
               PROVE  FALSE
    OBVIOUS
  <2>1. q - p - 1 \in Nat
    BY <1>1
  <2>2. (q - p - 1) * d \in Nat
    BY <2>1
  <2>3. q * d = p * d + d + (q - p - 1) * d
    BY <1>1
  <2> QED
    BY <1>1, <2>2, <2>3
<1>3. ~ q < p
  <2> SUFFICES ASSUME q < p
               PROVE  FALSE
    OBVIOUS
  <2>1. p - q - 1 \in Nat
    BY <1>1
  <2>2. (p - q - 1) * d \in Nat
    BY <2>1
  <2>3. p * d = q * d + d + (p - q - 1) * d
    BY <1>1
  <2> QED
    BY <1>1, <2>2, <2>3
<1>4. p = q
  BY <1>1, <1>2, <1>3
<1>5. s = r
  BY <1>1, <1>4
<1> QED
  BY <1>4, <1>5 DEF p, s

\* Dividing twice.
LEMMA DividedTwice ==
  ASSUME NEW n \in Nat, NEW b \in Nat \ {0}, NEW d \in Nat \ {0}
  PROVE  (n \div b) \div d = n \div (b * d)
<1> DEFINE q == n \div b
           t == q \div d
           r == n % b
           u == q % d
<1>1. q \in Nat /\ r \in 0 .. b - 1 /\ n = q * b + r
  BY Divided
<1>2. t \in Nat /\ u \in 0 .. d - 1 /\ q = t * d + u
  BY <1>1, Divided
<1> HIDE DEF q, t, r, u
<1>3. b * d \in Nat \ {0}
  <2>1. b * d = d + (b - 1) * d /\ (b - 1) * d \in Nat
    OBVIOUS
  <2> QED
    BY <2>1
<1>4. u * b \in Nat /\ (d - 1 - u) * b \in Nat /\ d * b = u * b + b + (d - 1 - u) * b
  BY <1>2
<1>5. b * d = d * b
  OBVIOUS
<1>6. u * b + r \in 0 .. (b * d) - 1
  BY <1>1, <1>3, <1>4, <1>5
<1>7. n = t * (b * d) + (u * b + r)
  <2>1. q * b = (t * d) * b + u * b
    BY <1>2
  <2>2. (t * d) * b = t * (b * d)
    BY <1>2
  <2>3. (t * d) * b \in Nat
    BY <1>2
  <2> QED
    BY <1>1, <1>4, <2>1, <2>2, <2>3
<1>8. n \div (b * d) = t
  BY <1>2, <1>3, <1>6, <1>7, DivisionIs
<1> QED
  BY <1>8 DEF t, q

Bases == {8, 10, 16}

\* The number of digits of n.
Long(n, b, k) ==
  k \in 1 .. LONG /\ n < Power(b)[k] /\ (k > 1 => n >= Power(b)[k - 1])

\* There is one such number only,
LEMMA OneLength ==
  ASSUME NEW b \in Bases, NEW n \in Nat, NEW k, NEW l, Long(n, b, k), Long(n, b, l)
  PROVE  k = l
<1>1. ASSUME NEW i \in 1 .. LONG, NEW j \in 1 .. LONG, i < j, Long(n, b, i), Long(n, b, j)
      PROVE  FALSE
  <2>1. i \in 0 .. j - 1 /\ j - 1 \in 0 .. LONG /\ i \in 0 .. LONG /\ j > 1
    BY <1>1, FormatAssumption
  <2>2. Power(b)[i] <= Power(b)[j - 1] /\ Power(b)[i] \in Nat /\ Power(b)[j - 1] \in Nat
    BY <2>1, PowersAscend DEF Bases
  <2> QED
    BY <1>1, <2>1, <2>2 DEF Long
<1>2. k \in 1 .. LONG /\ l \in 1 .. LONG
  BY DEF Long
<1> QED
  BY <1>1, <1>2, FormatAssumption

\* one for less than the base,
LEMMA LengthOne ==
  ASSUME NEW b \in Bases, NEW n \in Nat, n < b
  PROVE  Long(n, b, 1)
BY PowerIs, FormatAssumption DEF Long, Bases

\* and one more for a digit more.
LEMMA LengthGrows ==
  ASSUME NEW b \in Bases, NEW n \in Nat, n >= b, n < Power(2)[LONG],
         NEW l, Long(n \div b, b, l)
  PROVE  Long(n, b, l + 1)
<1> DEFINE q == n \div b
           x == Power(b)[l]
<1>1. q \in Nat /\ n >= q * b /\ n <= q * b + b - 1
  <2> DEFINE r == n % b
  <2>1. b \in Nat \ {0}
    BY DEF Bases
  <2>2. q \in Nat /\ r \in 0 .. b - 1 /\ n = q * b + r
    BY <2>1, Divided
  <2> HIDE DEF q, r
  <2>3. q * 8 \in Nat /\ q * 10 \in Nat /\ q * 16 \in Nat
    BY <2>2
  <2> QED
    BY <2>2, <2>3 DEF Bases
<1>2. l \in 1 .. LONG /\ l \in 0 .. LONG /\ l - 1 \in 0 .. LONG /\ LONG \in 0 .. LONG
  BY FormatAssumption DEF Long
<1>3. /\ x \in Nat /\ Power(b)[l - 1] \in Nat /\ x = b * Power(b)[l - 1]
      /\ Power(2)[LONG] \in Nat /\ Power(b)[LONG] \in Nat
      /\ Power(2)[LONG] <= Power(b)[LONG]
  BY <1>2, PowersAscend, PowerIs DEF Bases
<1>4. q < x /\ (l > 1 => q >= Power(b)[l - 1])
  BY DEF Long
<1> HIDE DEF q, x
<1>5. n >= x
  <2>1. CASE l = 1
    BY <1>3, <2>1, PowerIs DEF Bases, x
  <2>2. CASE l > 1
    BY <1>1, <1>3, <1>4, <2>2 DEF Bases
  <2> QED
    BY <1>2, <2>1, <2>2
<1>6. l < LONG
  <2>1. l # LONG
    BY <1>3, <1>5 DEF x
  <2> QED
    BY <1>2, <2>1
<1>7. l + 1 \in 1 .. LONG /\ (l + 1) - 1 = l /\ Power(b)[l + 1] = b * x
  <2>1. l + 1 \in 1 .. LONG /\ (l + 1) - 1 = l
    BY <1>2, <1>6, FormatAssumption
  <2> QED
    BY <2>1, PowerIs DEF Bases, x
<1>8. n < b * x
  BY <1>1, <1>3, <1>4 DEF Bases
<1> QED
  BY <1>5, <1>7, <1>8 DEF Long, x

\* A numeral of a known length.
LEMMA NumeralIs ==
  ASSUME NEW b \in Bases, NEW n \in Nat, NEW l, Long(n, b, l)
  PROVE  /\ Numeral(n, b) = [i \in 1 .. l |-> DigitChars[((n \div Power(b)[l - i]) % b) + 1]]
         /\ l \in Nat
<1> DEFINE len == CHOOSE k \in 1 .. LONG : n < Power(b)[k] /\ (k > 1 => n >= Power(b)[k - 1])
<1>1. len = l
  <2>1. l \in 1 .. LONG /\ n < Power(b)[l] /\ (l > 1 => n >= Power(b)[l - 1])
    BY DEF Long
  <2>2. len \in 1 .. LONG /\ n < Power(b)[len] /\ (len > 1 => n >= Power(b)[len - 1])
    BY ONLY <2>1
  <2> HIDE DEF len
  <2>3. Long(n, b, len)
    BY <2>2 DEF Long
  <2> QED
    BY <2>3, OneLength
<1>2. l \in Nat
  BY FormatAssumption DEF Long
<1>3. Numeral(n, b) = [i \in 1 .. len |-> DigitChars[((n \div Power(b)[len - i]) % b) + 1]]
  BY DEF Numeral
<1> HIDE DEF len
<1> QED
  BY <1>1, <1>2, <1>3

\* A character more.
LEMMA OneMore ==
  ASSUME NEW S, NEW s \in Seq(S), NEW e \in S
  PROVE  s \o <<e>> \in Seq(S) /\ << >> \o <<e>> = <<e>> /\ <<e>> \in Seq(S)
<1>1. <<e>> \in Seq(S)
  OBVIOUS
<1>2. << >> \o <<e>> = <<e>>
  BY <1>1, ConcatEmptySeq
<1> QED
  BY <1>1, <1>2

\* The digits are characters.
LEMMA DigitsAreChars ==
  ASSUME NEW k \in 0 .. 15
  PROVE  DigitChars[k + 1] \in Char
<1>1. DigitChars[k + 1] \in ToSet(DigitChars)
  BY DEF DigitChars, ToSet
<1> QED
  BY <1>1, FormatAssumption DEF OwnChars

\* The function Digits() defines.
DigitsOf(f, m, b) ==
  f = [n \in 0 .. m |->
         (IF n >= b THEN f[n \div b] ELSE << >>) \o <<DigitChars[(n % b) + 1]>>]

\* A shorter number to go on with.
LEMMA QuotientLess ==
  ASSUME NEW b \in Bases, NEW n \in Nat
  PROVE  /\ n \div b \in Nat /\ n % b \in 0 .. b - 1
         /\ n >= b => n \div b < n
         /\ n < b => n % b = n
<1>1. b \in Nat \ {0}
  BY DEF Bases
<1> DEFINE q == n \div b
           r == n % b
<1>2. q \in Nat /\ r \in 0 .. b - 1 /\ n = q * b + r
  BY <1>1, Divided
<1>3. n < b => r = n
  <2>1. n = 0 * b + n
    BY <1>1
  <2> QED
    BY <1>1, <2>1, DivisionIs
<1> HIDE DEF q, r
<1>4. n >= b => q < n
  <2>1. q * 8 \in Nat /\ q * 10 \in Nat /\ q * 16 \in Nat
    BY <1>2
  <2> QED
    BY <1>2, <2>1 DEF Bases
<1> QED
  BY <1>2, <1>3, <1>4 DEF q, r

\* There is one.
LEMMA DigitsExist ==
  ASSUME NEW b \in Bases, NEW m \in Nat
  PROVE  \E f : DigitsOf(f, m, b)
<1> DEFINE Bad == {k \in Nat : ~\E f : DigitsOf(f, k, b)}
           V(h, n) == (IF n >= b THEN h[n \div b] ELSE << >>) \o <<DigitChars[(n % b) + 1]>>
<1> SUFFICES ASSUME Bad # {}
             PROVE  FALSE
  OBVIOUS
<1>1. PICK k \in Bad : \A j \in Bad : k <= j
  <2> HIDE DEF Bad
  <2>1. Bad \subseteq Nat
    BY DEF Bad
  <2> QED
    BY <2>1, LeastOfNat
<1>k. k \in Nat /\ ~\E f : DigitsOf(f, k, b)
  BY <1>1
<1>2. k # 0
  <2> DEFINE f == [n \in 0 .. 0 |-> << >> \o <<DigitChars[(n % b) + 1]>>]
  <2>1. \A n \in 0 .. 0 : V(f, n) = << >> \o <<DigitChars[(n % b) + 1]>>
    <3> HIDE DEF f
    <3>1. \A n \in 0 .. 0 : ~ n >= b
      BY DEF Bases
    <3> QED
      BY ONLY <3>1, Zenon DEF V
  <2>2. f = [n \in 0 .. 0 |-> V(f, n)]
    <3> HIDE DEF V
    <3> QED
      BY <2>1
  <2>3. DigitsOf(f, 0, b)
    BY <2>2 DEF DigitsOf
  <2> HIDE DEF f
  <2> QED
    BY <1>k, <2>3
<1>3. k - 1 \in Nat /\ k - 1 \notin Bad
  <2>1. k - 1 \in Nat /\ k - 1 < k
    BY <1>k, <1>2
  <2> HIDE DEF Bad
  <2> QED
    BY <1>1, <1>k, <2>1
<1>4. PICK f : DigitsOf(f, k - 1, b)
  BY <1>3
<1> DEFINE g == [n \in 0 .. k |-> V(f, n)]
<1>5. f = [n \in 0 .. k - 1 |-> V(f, n)]
  BY <1>4 DEF DigitsOf
<1> HIDE DEF Bad, V
<1>6. \A n \in 0 .. k - 1 : g[n] = f[n]
  <2> SUFFICES ASSUME NEW n \in 0 .. k - 1
               PROVE  g[n] = f[n]
    OBVIOUS
  <2>1. n \in 0 .. k
    BY <1>k
  <2>2. g[n] = V(f, n)
    BY <2>1
  <2> DEFINE r == [i \in 0 .. k - 1 |-> V(f, i)]
  <2>3. r[n] = V(f, n)
    OBVIOUS
  <2>4. f = r
    BY <1>5
  <2> HIDE DEF r
  <2> QED
    BY <2>2, <2>3, <2>4
<1>7. \A n \in 0 .. k : V(f, n) = V(g, n)
  <2> SUFFICES ASSUME NEW n \in 0 .. k
               PROVE  V(f, n) = V(g, n)
    OBVIOUS
  <2>1. n \in Nat
    BY <1>k
  <2>2. n >= b => n \div b \in 0 .. k - 1
    BY <1>k, <2>1, QuotientLess
  <2>3. n >= b => g[n \div b] = f[n \div b]
    BY <1>6, <2>2
  <2> HIDE DEF g
  <2> QED
    BY <2>3 DEF V
<1>8. g = [n \in 0 .. k |-> V(g, n)]
  <2> DEFINE r == [n \in 0 .. k |-> V(g, n)]
  <2>1. \A n \in 0 .. k : V(f, n) = V(g, n)
    BY <1>7
  <2>2. [n \in 0 .. k |-> V(f, n)] = r
    <3> HIDE DEF g
    <3> QED
      BY <2>1
  <2> QED
    BY ONLY <2>2
<1>9. DigitsOf(g, k, b)
  BY <1>8 DEF DigitsOf, V
<1> HIDE DEF g
<1> QED
  BY <1>k, <1>9

\* The numeral of a number with one digit more.
LEMMA NumeralGrows ==
  ASSUME NEW b \in Bases, NEW n \in Nat, n >= b, n < Power(2)[LONG],
         NEW l, Long(n \div b, b, l)
  PROVE  Numeral(n, b) = Numeral(n \div b, b) \o <<DigitChars[(n % b) + 1]>>
<1> DEFINE q == n \div b
           D(m, i) == DigitChars[((m \div Power(b)[i]) % b) + 1]
           c == DigitChars[(n % b) + 1]
<1>1. b \in Nat \ {0} /\ q \in Nat
  BY QuotientLess DEF Bases
<1>2. Numeral(q, b) = [i \in 1 .. l |-> D(q, l - i)] /\ l \in Nat
  BY <1>1, NumeralIs
<1>3. /\ Numeral(n, b) = [i \in 1 .. l + 1 |-> D(n, (l + 1) - i)]
      /\ Long(n, b, l + 1)
  <2>1. Long(n, b, l + 1)
    BY LengthGrows
  <2>2. \A k : Long(n, b, k) => Numeral(n, b) = [i \in 1 .. k |-> D(n, k - i)]
    BY NumeralIs
  <2> QED
    BY <2>1, <2>2
<1>4. l + 1 \in 1 .. LONG
  BY <1>3 DEF Long
<1>5. \A i \in 1 .. l : D(n, (l + 1) - i) = D(q, l - i)
  <2> SUFFICES ASSUME NEW i \in 1 .. l
               PROVE  n \div Power(b)[(l + 1) - i] = q \div Power(b)[l - i]
    OBVIOUS
  <2>1. (l + 1) - i \in 1 .. LONG /\ l - i \in 0 .. LONG /\ ((l + 1) - i) - 1 = l - i
    BY <1>2, <1>4, FormatAssumption
  <2>2. Power(b)[(l + 1) - i] = b * Power(b)[l - i] /\ Power(b)[l - i] \in Nat \ {0}
    BY <1>1, <2>1, PowerIs, PowersAscend DEF Bases
  <2> DEFINE x == Power(b)[l - i]
  <2>3. q \div x = n \div (b * x)
    <3>1. x \in Nat \ {0}
      BY <2>2
    <3> HIDE DEF x
    <3> QED
      BY <1>1, <3>1, DividedTwice
  <2> QED
    BY <2>2, <2>3, Zenon
<1>6. D(n, (l + 1) - (l + 1)) = c
  <2>1. (l + 1) - (l + 1) = 0 /\ Power(b)[0] = 1
    BY <1>1, <1>2, PowerIs
  <2>2. n \div 1 = n
    <3>1. n = n * 1 + 0 /\ 0 \in 0 .. 1 - 1
      OBVIOUS
    <3> QED
      BY <3>1, DivisionIs
  <2> QED
    BY <2>1, <2>2
<1> HIDE DEF D, c, q
<1>7. [i \in 1 .. l + 1 |-> D(n, (l + 1) - i)] = [i \in 1 .. l |-> D(q, l - i)] \o <<c>>
  BY <1>2, <1>5, <1>6
<1> QED
  BY <1>2, <1>3, <1>7 DEF c, q

\* printnum()'s digits are the numeral.
LEMMA DigitsAre ==
  ASSUME NEW b \in Bases, NEW m \in Nat, m < Power(2)[LONG]
  PROVE  Digits(m, b) = Numeral(m, b) /\ Numeral(m, b) \in Seq(Char)
<1> DEFINE f == CHOOSE h : DigitsOf(h, m, b)
           V(h, n) == (IF n >= b THEN h[n \div b] ELSE << >>) \o <<DigitChars[(n % b) + 1]>>
<1>1. DigitsOf(f, m, b)
  BY DigitsExist
<1>2. Digits(m, b) = f[m]
  BY DEF Digits, DigitsOf
<1> HIDE DEF f
<1>3. \A n \in 0 .. m : f[n] = V(f, n)
  <2> SUFFICES ASSUME NEW n \in 0 .. m
               PROVE  f[n] = V(f, n)
    OBVIOUS
  <2> DEFINE r == [i \in 0 .. m |-> V(f, i)]
  <2>1. f = r
    BY <1>1 DEF DigitsOf
  <2> HIDE DEF V
  <2>2. r[n] = V(f, n)
    OBVIOUS
  <2> HIDE DEF r
  <2> QED
    BY <2>1, <2>2
<1> DEFINE Good(n) == /\ f[n] = Numeral(n, b) /\ f[n] \in Seq(Char)
                      /\ \E l : Long(n, b, l)
           Bad == {n \in 0 .. m : ~Good(n)}
<1>4. ASSUME Bad # {}
      PROVE  FALSE
  <2>1. PICK k \in Bad : \A j \in Bad : k <= j
    <3> HIDE DEF Bad
    <3>1. Bad \subseteq Nat
      BY DEF Bad
    <3> QED
      BY <1>4, <3>1, LeastOfNat
  <2>2. k \in 0 .. m /\ ~Good(k) /\ k \in Nat
    BY <2>1
  <2>3. f[k] = V(f, k)
    BY <1>3, <2>2
  <2> DEFINE q == k \div b
             c == DigitChars[(k % b) + 1]
  <2>4. c \in Char
    <3>1. k % b \in 0 .. b - 1
      BY <2>2, QuotientLess
    <3>2. k % b \in 0 .. 15
      BY <3>1 DEF Bases
    <3> QED
      BY <3>2, DigitsAreChars
  <2>5. CASE k >= b
    <3>1. q \in Nat /\ q < k
      BY <2>2, <2>5, QuotientLess
    <3>2. q \notin Bad /\ q \in 0 .. m
      <4> HIDE DEF Bad, q
      <4> QED
        BY <2>1, <2>2, <3>1
    <3>3. Good(q)
      BY <3>2
    <3>4. k < Power(2)[LONG]
      BY <2>2, PowersAscend, FormatAssumption
    <3>5. PICK l : Long(q, b, l)
      BY <3>3
    <3>6. Numeral(k, b) = Numeral(q, b) \o <<c>> /\ Long(k, b, l + 1)
      BY <2>2, <2>5, <3>4, <3>5, NumeralGrows, LengthGrows
    <3>7. f[k] = f[q] \o <<c>>
      BY <2>3, <2>5
    <3> HIDE DEF q, c
    <3>8. f[q] \o <<c>> \in Seq(Char)
      BY <2>4, <3>3, OneMore
    <3> QED
      BY <2>2, <3>3, <3>6, <3>7, <3>8
  <2>6. CASE k < b
    <3>1. Long(k, b, 1)
      BY <2>2, <2>6, LengthOne
    <3>2. Numeral(k, b) = [i \in 1 .. 1 |-> DigitChars[((k \div Power(b)[1 - i]) % b) + 1]]
      BY <2>2, <3>1, NumeralIs
    <3>3. Power(b)[1 - 1] = 1 /\ k \div 1 = k
      <4>1. k = k * 1 + 0 /\ 0 \in 0 .. 1 - 1
        BY <2>2
      <4>2. Power(b)[0] = 1
        BY PowerIs DEF Bases
      <4> QED
        BY <2>2, <4>1, <4>2, DivisionIs
    <3>4. Numeral(k, b) = <<c>>
      <4>1. [i \in 1 .. 1 |-> DigitChars[((k \div Power(b)[1 - i]) % b) + 1]] = [i \in 1 .. 1 |-> c]
        BY <3>3
      <4> HIDE DEF c
      <4>2. [i \in 1 .. 1 |-> c] = <<c>>
        OBVIOUS
      <4> QED
        BY <3>2, <4>1, <4>2
    <3>5. f[k] = << >> \o <<c>>
      <4>1. ~ k >= b
        BY <2>2, <2>6 DEF Bases
      <4> QED
        BY ONLY <2>3, <4>1, Zenon DEF V, c
    <3> HIDE DEF c
    <3>6. << >> \o <<c>> = <<c>> /\ <<c>> \in Seq(Char)
      BY <2>4, OneMore, EmptySeq
    <3> QED
      BY <2>2, <3>1, <3>4, <3>5, <3>6
  <2> QED
    BY <2>2, <2>5, <2>6 DEF Bases
<1>5. m \in 0 .. m
  OBVIOUS
<1> QED
  BY <1>2, <1>4, <1>5

---------------------------------------------------------------------------
\* Texts.

\* A text of one character.
LEMMA OneChar ==
  ASSUME NEW S, NEW e \in S
  PROVE  <<e>> \in Seq(S)
OBVIOUS

\* Two texts, one behind the other.
LEMMA Joined ==
  ASSUME NEW S, NEW s \in Seq(S), NEW t \in Seq(S)
  PROVE  s \o t \in Seq(S) /\ Len(s) \in Nat /\ Len(s \o t) = Len(s) + Len(t)
OBVIOUS

\* What a conversion prints.

IsConv(d) == DirectiveOK(d) /\ d.kind = "conv"

\* The fields of d were read.
FlagsRead(d) ==
  /\ padc = d.pad /\ altflag = d.alt
  /\ width = IF d.width # 0 THEN d.width ELSE IF d.prec # 0 THEN 0 ELSE -1
  /\ precision = IF d.prec # 0 THEN d.prec ELSE -1

\* Its argument is next.
ArgNext(d) == d.c # "%" => Head(ap) = d.arg

WordMax == Power(2)[LONG]

\* Words.
LEMMA WordSize ==
  /\ WordMax \in Nat \ {0} /\ Power(2)[LONG - 1] \in Nat \ {0}
  /\ WordMax = 2 * Power(2)[LONG - 1]
<1>1. LONG \in 1 .. LONG /\ LONG \in 0 .. LONG /\ LONG - 1 \in 0 .. LONG
  BY FormatAssumption
<1> QED
  BY <1>1, PowerIs, PowersAscend DEF WordMax

\* An argument read as an unsigned long long is itself, or its two's complement.
LEMMA WordIs ==
  ASSUME NEW n \in Int, -WordMax <= n, n < WordMax
  PROVE  Word(n) = IF n < 0 THEN n + WordMax ELSE n
<1> DEFINE m == WordMax
<1>1. m \in Nat \ {0} /\ Word(n) = n % m
  BY WordSize DEF Word, WordMax
<1> HIDE DEF m
<1>2. CASE n >= 0
  <2>1. n = 0 * m + n /\ n \in 0 .. m - 1 /\ n \in Nat
    BY <1>1, <1>2 DEF m
  <2>2. n % m = n
    BY <1>1, <2>1, DivisionIs
  <2> QED
    BY <1>1, <1>2, <2>2
<1>3. CASE n < 0
  <2>1. n % m = n + m
    <3>1. n >= -m /\ n < 0
      BY <1>3 DEF m
    <3> QED
      BY ONLY <1>1, <3>1, n \in Int, Z3
  <2> QED
    BY <1>1, <1>3, <2>1 DEF m
<1> QED
  BY <1>2, <1>3

\* Pads, and none.
LEMMA PadsAre ==
  ASSUME NEW n \in Int, NEW c \in Char
  PROVE  /\ Pads(n, c) \in Seq(Char)
         /\ Len(Pads(n, c)) = IF n > 0 THEN n ELSE 0
         /\ n <= 0 => Pads(n, c) = << >>
BY DEF Pads

\* The characters vprintfmt() puts of its own are characters.
LEMMA OwnChar ==
  /\ SPACE \in Char /\ "%" \in Char /\ "-" \in Char /\ "x" \in Char /\ "?" \in Char
  /\ ERROR_PREFIX \in Char /\ "0" \in Char
<1>1. /\ SPACE \in Char /\ "%" \in Char /\ "-" \in Char /\ "x" \in Char /\ "?" \in Char
      /\ ERROR_PREFIX \in Char
  BY FormatAssumption DEF OwnChars
<1>2. "0" \in Char
  BY DigitsAreChars DEF DigitChars
<1> QED
  BY <1>1, <1>2

\* So are those of its own texts.
LEMMA OwnText ==
  /\ NullString \in Seq(Char)
  /\ \A k \in DOMAIN error_string : error_string[k] \in Char
<1>3. \A k \in DOMAIN error_string : error_string[k] \in Char
  BY FormatAssumption DEF OwnChars, ToSet
<1>4. \A k \in 1 .. 6 : NullString[k] \in Char
  <2>1. \A k \in 1 .. 6 : NullString[k] \in ToSet(NullString)
    BY DEF ToSet, NullString
  <2> QED
    BY <2>1, FormatAssumption DEF OwnChars
<1>5. NullString \in Seq({NullString[k] : k \in 1 .. 6})
  BY DEF NullString
<1>6. NullString \in Seq(Char)
  BY <1>4, <1>5 DEF NullString
<1> QED
  BY <1>3, <1>6

\* A number behind its pads.
LEMMA NumberPrinted ==
  ASSUME NEW b \in Bases, NEW n \in Nat, n < WordMax, NEW w, NEW c
  PROVE  /\ printnum(n, b, w, c) = Pads(w - Len(Numeral(n, b)), c) \o Numeral(n, b)
         /\ Numeral(n, b) \in Seq(Char) /\ Len(Numeral(n, b)) \in Nat
<1>1. Digits(n, b) = Numeral(n, b) /\ Numeral(n, b) \in Seq(Char)
  BY DigitsAre DEF WordMax
<1> QED
  BY <1>1 DEF printnum

\* A number without a width is its numeral.
LEMMA NumberAlone ==
  ASSUME NEW b \in Bases, NEW n \in Nat, n < WordMax, NEW w \in Int, w <= 0, NEW c \in Char
  PROVE  printnum(n, b, w, c) = Numeral(n, b)
<1> DEFINE s == Numeral(n, b)
<1>1. printnum(n, b, w, c) = Pads(w - Len(s), c) \o s /\ s \in Seq(Char) /\ Len(s) \in Nat
  BY NumberPrinted
<1> HIDE DEF s
<1>2. Pads(w - Len(s), c) = << >>
  BY <1>1, PadsAre
<1>3. << >> \o s = s
  BY <1>1, ConcatEmptySeq
<1> QED
  BY <1>1, <1>2, <1>3 DEF s

\* A text without a width is printed as it is.
LEMMA PlainPrinted ==
  ASSUME NEW d, IsConv(d), d.width = 0, d.pad # "-", Body(d) \in Seq(Char)
  PROVE  Printed(d) = Body(d)
<1> DEFINE s == Body(d)
<1>0. s \in Seq(Char)
  OBVIOUS
<1>a. d.pad \in {SPACE, "-", "0"}
  BY DEF IsConv, DirectiveOK
<1>1. Len(s) \in Nat /\ s \in Seq(Char) /\ d.pad \in Char
  <2> HIDE DEF s
  <2> QED
    BY <1>0, <1>a, OwnChar
<1>2. Printed(d) = Pads(0 - Len(s), d.pad) \o s
  BY DEF Printed, IsConv
<1> HIDE DEF s
<1>3. Pads(0 - Len(s), d.pad) = << >>
  BY <1>1, PadsAre
<1>4. << >> \o s = s
  BY <1>1, ConcatEmptySeq
<1> QED
  BY <1>2, <1>3, <1>4 DEF s

\* %% prints a %.
LEMMA PercentPrints ==
  ASSUME NEW d, IsConv(d), d.c = "%"
  PROVE  Printed(d) = <<"%">> /\ Printed(d) \in Seq(Char)
<1>1. d.width = 0 /\ d.pad # "-"
  BY DEF IsConv, DirectiveOK, Numeric
<1>2. Body(d) = <<"%">> /\ <<"%">> \in Seq(Char)
  <2>1. Body(d) = <<"%">>
    BY DEF Body
  <2> QED
    BY <2>1, OwnChar, OneChar
<1> QED
  BY <1>1, <1>2, PlainPrinted

\* %c prints its argument.
LEMMA CharPrints ==
  ASSUME NEW d, IsConv(d), d.c = "c"
  PROVE  Printed(d) = <<d.arg>> /\ Printed(d) \in Seq(Char)
<1>1. d.width = 0 /\ d.pad # "-" /\ d.arg \in Char
  BY DEF IsConv, DirectiveOK, Numeric, ArgOK
<1>2. Body(d) = <<d.arg>> /\ <<d.arg>> \in Seq(Char)
  BY <1>1 DEF Body
<1> QED
  BY <1>1, <1>2, PlainPrinted

\* The error number's text, or the number.
ErrorText(e) ==
  IF e >= MAXERROR \/ e \notin DOMAIN error_string
  THEN <<ERROR_PREFIX>> \o printnum(e, 10, -1, SPACE)
  ELSE <<error_string[e]>>

\* %e prints the text of its error, or its number behind a prefix.
LEMMA ErrorPrints ==
  ASSUME NEW d, IsConv(d), d.c = "e"
  PROVE  /\ Printed(d) = ErrorText(IF d.arg < 0 THEN -d.arg ELSE d.arg)
         /\ Printed(d) \in Seq(Char)
<1> DEFINE e == IF d.arg < 0 THEN -d.arg ELSE d.arg
<1>1. d.width = 0 /\ d.pad # "-" /\ d.arg \in 1 - WordMax .. WordMax - 1
  BY DEF IsConv, DirectiveOK, Numeric, ArgOK, WordMax
<1>2. e \in Nat /\ e < WordMax
  BY <1>1, WordSize
<1>3. Body(d) = IF e \in DOMAIN error_string THEN <<error_string[e]>>
                ELSE <<ERROR_PREFIX>> \o Numeral(e, 10)
  BY DEF Body
<1> HIDE DEF e
<1>4. DOMAIN error_string = 1 .. 6 /\ MAXERROR > 6 /\ MAXERROR \in Nat
  BY FormatAssumption DEF error_string
<1>5. printnum(e, 10, -1, SPACE) = Numeral(e, 10) /\ Numeral(e, 10) \in Seq(Char)
  <2>1. 10 \in Bases /\ -1 \in Int /\ -1 <= 0 /\ SPACE \in Char
    BY OwnChar DEF Bases
  <2> QED
    BY <1>2, <2>1, NumberAlone, NumberPrinted
<1>6. Body(d) = ErrorText(e)
  <2>1. (e >= MAXERROR \/ e \notin DOMAIN error_string) <=> e \notin DOMAIN error_string
    BY <1>2, <1>4
  <2> QED
    BY <1>3, <1>5, <2>1, Zenon DEF ErrorText
<1>7. Body(d) \in Seq(Char)
  <2> DEFINE s == Numeral(e, 10)
  <2>1. s \in Seq(Char) /\ <<ERROR_PREFIX>> \in Seq(Char)
    BY <1>5, OwnChar, OneChar
  <2> HIDE DEF s
  <2>2. <<ERROR_PREFIX>> \o s \in Seq(Char)
    BY <2>1, Joined
  <2>3. e \in DOMAIN error_string => <<error_string[e]>> \in Seq(Char)
    BY OwnText, OneChar
  <2> QED
    BY <1>3, <2>2, <2>3 DEF s
<1> QED
  BY <1>1, <1>6, <1>7, PlainPrinted DEF e

\* The text of a string argument.
LEMMA StringPrints ==
  ASSUME NEW d, IsConv(d), d.c = "s", FlagsRead(d), ArgNext(d)
  PROVE  LET p == IF Head(ap) = NullArg THEN NullString ELSE Head(ap)
             n == IF precision < 0 THEN Len(p) ELSE LesserOf(Len(p), precision)
             left == IF padc = "-" THEN << >> ELSE Pads(width - n, padc)
             shown == [k \in 1 .. n |-> IF altflag /\ ~Printable(p[k]) THEN "?" ELSE p[k]]
         IN  /\ left \o shown \o Pads(width - Len(left) - n, SPACE) = Printed(d)
             /\ Printed(d) \in Seq(Char)
<1> DEFINE p == IF Head(ap) = NullArg THEN NullString ELSE Head(ap)
           n == IF precision < 0 THEN Len(p) ELSE LesserOf(Len(p), precision)
           left == IF padc = "-" THEN << >> ELSE Pads(width - n, padc)
           shown == [k \in 1 .. n |-> IF altflag /\ ~Printable(p[k]) THEN "?" ELSE p[k]]
           q == IF d.prec = 0 THEN p ELSE SubSeq(p, 1, LesserOf(d.prec, Len(p)))
<1>1. d.width \in 0 .. 99 /\ d.prec \in 0 .. 99 /\ d.pad \in {SPACE, "-", "0"}
  BY DEF IsConv, DirectiveOK
<1>a. d.arg \in Seq(Char) \cup {NullArg}
  BY DEF IsConv, DirectiveOK, ArgOK
<1>2. p \in Seq(Char) /\ Len(p) \in Nat
  <2>1. Head(ap) = d.arg
    BY DEF ArgNext
  <2>2. p \in Seq(Char)
    BY <1>a, <2>1, OwnText
  <2> HIDE DEF p
  <2> QED
    BY <2>2
<1>3. Body(d) = [k \in DOMAIN q |-> IF d.alt /\ ~Printable(q[k]) THEN "?" ELSE q[k]]
  BY DEF Body, ArgNext
<1>4. n \in 0 .. Len(p) /\ q = [k \in 1 .. n |-> p[k]]
  <2>1. CASE d.prec = 0
    <3>1. n = Len(p) /\ q = p
      BY <2>1 DEF FlagsRead
    <3> HIDE DEF n, q, p
    <3> QED
      BY <1>2, <3>1
  <2>2. CASE d.prec # 0
    <3>1. n = LesserOf(Len(p), d.prec) /\ q = SubSeq(p, 1, LesserOf(d.prec, Len(p)))
      <4>1. precision = d.prec /\ ~ precision < 0
        BY ONLY <1>1, <2>2, FlagsRead(d) DEF FlagsRead
      <4> QED
        BY ONLY <2>2, <4>1, Zenon DEF n, q
    <3> HIDE DEF n, q, p
    <3>2. LesserOf(d.prec, Len(p)) = n /\ n \in 0 .. Len(p)
      <4>0. d.prec \in Nat
        BY ONLY <1>1
      <4>1. Len(p) \in Nat /\ d.prec \in Nat
        BY ONLY <1>2, <4>0, Zenon
      <4> QED
        BY ONLY <3>1, <4>1 DEF LesserOf
    <3> QED
      BY <1>2, <3>1, <3>2
  <2> QED
    BY <2>1, <2>2
<1>5. Body(d) = shown
  <2> HIDE DEF q, p, n
  <2>1. DOMAIN q = 1 .. n /\ \A k \in 1 .. n : q[k] = p[k]
    BY <1>4
  <2> QED
    BY <1>3, <2>1 DEF FlagsRead
<1>6. shown \in Seq(Char) /\ Len(shown) = n
  <2> HIDE DEF q, p, n
  <2>1. \A k \in 1 .. n : (IF altflag /\ ~Printable(p[k]) THEN "?" ELSE p[k]) \in Char
    <3>1. \A k \in 1 .. n : p[k] \in Char
      BY <1>2, <1>4
    <3> QED
      BY <3>1, OwnChar
  <2>2. n \in Nat
    BY <1>2, <1>4
  <2> QED
    BY <2>1, <2>2
<1>7. n \in Nat
  BY <1>2, <1>4
<1> HIDE DEF p, n, q, shown
<1>8. /\ width \in Int /\ padc = d.pad /\ padc \in Char /\ SPACE \in Char
      /\ \A x \in Nat : Pads(width - x, padc) = Pads(d.width - x, padc)
      /\ \A x \in Nat : Pads(width - x, SPACE) = Pads(d.width - x, SPACE)
  <2>1. width \in Int /\ (width = d.width \/ (d.width = 0 /\ width = -1))
    BY ONLY <1>1, FlagsRead(d) DEF FlagsRead
  <2>2. padc = d.pad /\ padc \in Char /\ SPACE \in Char /\ d.width \in Nat
    BY ONLY <1>1, OwnChar, FlagsRead(d) DEF FlagsRead
  <2>3. ASSUME NEW x \in Nat, NEW c
        PROVE  Pads(width - x, c) = Pads(d.width - x, c)
    <3>1. (IF width - x > 0 THEN width - x ELSE 0) = (IF d.width - x > 0 THEN d.width - x ELSE 0)
      BY <2>1, <2>2
    <3> QED
      BY <3>1, Zenon DEF Pads
  <2> QED
    BY <2>1, <2>2, <2>3
<1>t. d.width - n \in Int /\ width - n \in Int
  <2>1. d.width \in Int
    BY ONLY <1>1
  <2>2. n \in Int /\ width \in Int
    BY ONLY <1>7, <1>8
  <2> QED
    BY ONLY <2>1, <2>2
<1>9. CASE d.pad = "-"
  <2>1. left = << >> /\ Len(left) = 0
    BY <1>8, <1>9
  <2>2. left \o shown = shown
    BY <1>6, <2>1, ConcatEmptySeq
  <2>3. width - 0 - n = width - n
    BY <1>t, <1>7, <1>8
  <2>4. Printed(d) = shown \o Pads(d.width - n, SPACE)
    BY <1>5, <1>6, <1>9 DEF Printed, IsConv
  <2>5. Pads(d.width - n, SPACE) \in Seq(Char)
    BY <1>t, <1>8, PadsAre
  <2>6. Printed(d) \in Seq(Char)
    BY <1>6, <2>4, <2>5, Joined
  <2>7. Pads(width - Len(left) - n, SPACE) = Pads(d.width - n, SPACE)
    BY <1>7, <1>8, <2>1, <2>3
  <2> HIDE DEF left
  <2> QED
    BY <2>2, <2>4, <2>6, <2>7 DEF left, shown, n, p
<1>10. CASE d.pad # "-"
  <2>1. left = Pads(width - n, padc) /\ left = Pads(d.width - n, d.pad)
    BY <1>7, <1>8, <1>10
  <2>2. left \in Seq(Char) /\ Len(left) = IF width - n > 0 THEN width - n ELSE 0
    BY <1>t, <1>8, <2>1, PadsAre
  <2> HIDE DEF left
  <2>3. width - Len(left) - n <= 0 /\ width - Len(left) - n \in Int
    BY ONLY <1>t, <1>7, <1>8, <2>2
  <2>4. Pads(width - Len(left) - n, SPACE) = << >>
    BY <1>8, <2>3, PadsAre
  <2>5. left \o shown \in Seq(Char)
    BY <1>6, <2>2, Joined
  <2>6. left \o shown \o << >> = left \o shown
    BY <2>5, ConcatEmptySeq
  <2>7. Printed(d) = left \o shown
    BY <1>5, <1>6, <1>10, <2>1 DEF Printed, IsConv
  <2> QED
    BY <2>4, <2>5, <2>6, <2>7 DEF left, shown, n, p
<1> QED
  BY <1>9, <1>10

\* Numbers that are not negative, with their width.
LEMMA UnsignedPrints ==
  ASSUME NEW d, IsConv(d), NEW b \in Bases, NEW n \in Nat, n < WordMax, FlagsRead(d),
         d.c # "s", d.c # "e", Body(d) = Numeral(n, b)
  PROVE  Printed(d) = printnum(n, b, width, padc) /\ Printed(d) \in Seq(Char)
<1> DEFINE s == Numeral(n, b)
<1>1. /\ d.width \in 0 .. 99 /\ d.prec = 0 /\ d.pad # "-" /\ d.pad \in Char
  BY OwnChar DEF IsConv, DirectiveOK
<1>2. printnum(n, b, width, padc) = Pads(width - Len(s), padc) \o s
  BY NumberPrinted
<1>3. s \in Seq(Char) /\ Len(s) \in Nat
  BY NumberPrinted
<1>4. Printed(d) = Pads(d.width - Len(s), d.pad) \o s
  BY <1>1 DEF Printed, IsConv
<1> HIDE DEF s
<1>5. padc = d.pad /\ Pads(width - Len(s), padc) = Pads(d.width - Len(s), d.pad)
  BY <1>1, <1>3 DEF FlagsRead, Pads
<1>6. Pads(d.width - Len(s), d.pad) \in Seq(Char)
  <2>1. \A l \in Nat : d.width - l \in Int
    BY ONLY <1>1
  <2> QED
    BY <1>1, <1>3, <2>1, PadsAre
<1> QED
  BY <1>2, <1>3, <1>4, <1>5, <1>6, Joined

---------------------------------------------------------------------------
\* The conversions.

\* The last character of d is next.
AtConv(d) == IsConv(d) /\ at = "escape" /\ Ch = d.c /\ FlagsRead(d) /\ ArgNext(d)

\* What there is no room to print: no width.
LEMMA NoWidth ==
  ASSUME NEW d, IsConv(d), FlagsRead(d), d.c # "s", d.width = 0
  PROVE  width = -1 /\ d.pad # "-" /\ padc \in Char
<1>1. d.prec = 0 /\ d.pad # "-" /\ d.pad \in {SPACE, "-", "0"}
  BY DEF IsConv, DirectiveOK
<1> QED
  BY <1>1, OwnChar DEF FlagsRead

\* %d prints what SignedConv puts.
LEMMA SignedPrints ==
  ASSUME NEW d, AtConv(d), d.c = "d"
  PROVE  /\ LET num == Word(Head(ap))
            IN  Printed(d) = IF num >= Power(2)[LONG - 1]
                             THEN <<"-">> \o printnum(Word(-num), 10, width, padc)
                             ELSE printnum(num, 10, width, padc)
         /\ Printed(d) \in Seq(Char)
<1> DEFINE h == Power(2)[LONG - 1]
           a == d.arg
           num == Word(Head(ap))
<1>0. IsConv(d) /\ FlagsRead(d) /\ ArgNext(d) /\ d.kind = "conv"
  BY DEF AtConv, IsConv
<1>1. a \in -h .. h - 1 /\ (d.width # 0 => a >= 0)
  BY <1>0 DEF IsConv, DirectiveOK, ArgOK, Numeric
<1>2. h \in Nat \ {0} /\ WordMax \in Nat \ {0} /\ WordMax = 2 * h
  BY WordSize
<1>3. Body(d) = IF a < 0 THEN <<"-">> \o Numeral(-a, 10) ELSE Numeral(a, 10)
  BY DEF Body
<1>4. num = Word(a)
  BY <1>0 DEF ArgNext
<1> HIDE DEF h, num, a
<1>5. 10 \in Bases
  BY DEF Bases
<1>6. CASE a >= 0
  <2>1. num = a /\ ~ num >= h
    <3>1. a \in Int /\ -WordMax <= a /\ a < WordMax /\ ~ a < 0 /\ ~ a >= h
      BY <1>1, <1>2, <1>6
    <3> QED
      BY <1>4, <3>1, WordIs
  <2>2. a \in Nat /\ a < WordMax /\ Body(d) = Numeral(a, 10)
    BY <1>1, <1>2, <1>3, <1>6
  <2>3. Printed(d) = printnum(a, 10, width, padc) /\ Printed(d) \in Seq(Char)
    BY <1>0, <1>5, <2>2, UnsignedPrints
  <2> QED
    BY <2>1, <2>3 DEF h, num
<1>7. CASE a < 0
  <2>1. num = a + WordMax /\ num >= h /\ num \in Int
    <3>1. a \in Int /\ -WordMax <= a /\ a < WordMax
      BY <1>1, <1>2, <1>7
    <3>2. num = a + WordMax
      BY <1>4, <1>7, <3>1, WordIs
    <3> QED
      BY <1>1, <1>2, <3>2
  <2>2. Word(-num) = -a
    <3>1. -num \in Int /\ -WordMax <= -num /\ -num < WordMax /\ -num < 0 /\ -num + WordMax = -a
      BY <1>1, <1>2, <1>7, <2>1
    <3> QED
      BY <3>1, WordIs
  <2>3. -a \in Nat /\ -a < WordMax
    BY <1>1, <1>2, <1>7
  <2>4. d.width = 0
    BY ONLY <1>1, <1>7, <1>2
  <2>5. width = -1 /\ d.pad # "-" /\ padc \in Char
    BY <1>0, <2>4, NoWidth
  <2>6. printnum(-a, 10, width, padc) = Numeral(-a, 10) /\ Numeral(-a, 10) \in Seq(Char)
    <3>1. width \in Int /\ width <= 0
      BY <2>5
    <3> QED
      BY <1>5, <2>3, <2>5, <3>1, NumberAlone, NumberPrinted
  <2>7. Body(d) = <<"-">> \o Numeral(-a, 10)
    BY <1>3, <1>7
  <2>8. Body(d) \in Seq(Char)
    <3>1. <<"-">> \in Seq(Char)
      BY OwnChar, OneChar
    <3> QED
      BY <2>6, <2>7, <3>1, Joined
  <2>9. Printed(d) = Body(d)
    BY <1>0, <2>4, <2>5, <2>8, PlainPrinted
  <2> QED
    BY <2>1, <2>2, <2>6, <2>7, <2>8, <2>9 DEF h, num
<1> QED
  BY <1>1, <1>2, <1>6, <1>7

\* %u, %o and %x print what UnsignedConv puts.
LEMMA BasePrints ==
  ASSUME NEW d, AtConv(d), d.c \in DOMAIN BaseOf
  PROVE  /\ Printed(d) = printnum(Word(Head(ap)), BaseOf[d.c], width, padc)
         /\ Printed(d) \in Seq(Char)
<1> DEFINE a == d.arg
           b == BaseOf[d.c]
           n == IF a < 0 THEN a + WordMax ELSE a
<1>0. IsConv(d) /\ FlagsRead(d) /\ ArgNext(d) /\ d.c \in {"u", "o", "x"}
  BY DEF AtConv, BaseOf
<1>1. a \in 1 - WordMax .. WordMax - 1
  BY <1>0 DEF IsConv, DirectiveOK, ArgOK, WordMax
<1>2. Word(Head(ap)) = Word(a)
  BY <1>0 DEF ArgNext
<1>3. b \in Bases
  BY <1>0 DEF BaseOf, Bases
<1>4. Body(d) = Numeral(n, b)
  BY <1>0 DEF Body, WordMax
<1> HIDE DEF a, b
<1>5. n \in Nat /\ n < WordMax /\ Word(a) = n
  <2>1. a \in Int /\ -WordMax <= a /\ a < WordMax
    BY <1>1, WordSize
  <2>2. Word(a) = n
    BY <2>1, WordIs
  <2> QED
    BY <1>1, <2>1, <2>2, WordSize
<1> HIDE DEF n
<1>6. d.c # "s" /\ d.c # "e"
  BY <1>0
<1>7. Printed(d) = printnum(n, b, width, padc) /\ Printed(d) \in Seq(Char)
  BY <1>0, <1>3, <1>4, <1>5, <1>6, UnsignedPrints
<1> QED
  BY <1>2, <1>5, <1>7 DEF b

\* %p prints what PointerConv puts.
LEMMA PointerPrints ==
  ASSUME NEW d, AtConv(d), d.c = "p"
  PROVE  /\ Printed(d) = <<"0", "x">> \o printnum(Word(Head(ap)), 16, width, padc)
         /\ Printed(d) \in Seq(Char)
<1> DEFINE a == d.arg
<1>0. IsConv(d) /\ FlagsRead(d) /\ ArgNext(d)
  BY DEF AtConv
<1>1. a \in 0 .. WordMax - 1 /\ d.width = 0
  BY <1>0 DEF IsConv, DirectiveOK, ArgOK, WordMax, Numeric
<1>2. Word(Head(ap)) = Word(a)
  BY <1>0 DEF ArgNext
<1>3. Body(d) = <<"0", "x">> \o Numeral(a, 16)
  BY DEF Body
<1> HIDE DEF a
<1>4. width = -1 /\ d.pad # "-" /\ padc \in Char
  BY <1>0, <1>1, NoWidth
<1>5. a \in Nat /\ a < WordMax /\ Word(a) = a
  <2>1. a \in Int /\ -WordMax <= a /\ a < WordMax /\ ~ a < 0
    BY <1>1, WordSize
  <2>2. Word(a) = a
    BY <2>1, WordIs
  <2> QED
    BY <1>1, <2>1, <2>2, WordSize
<1>6. printnum(a, 16, width, padc) = Numeral(a, 16) /\ Numeral(a, 16) \in Seq(Char)
  <2>1. width \in Int /\ width <= 0 /\ 16 \in Bases
    BY <1>4 DEF Bases
  <2> QED
    BY <1>4, <1>5, <2>1, NumberAlone, NumberPrinted
<1>7. <<"0", "x">> \in Seq(Char)
  BY OwnChar
<1>8. Body(d) \in Seq(Char)
  BY <1>3, <1>6, <1>7, Joined
<1>9. Printed(d) = Body(d)
  BY <1>0, <1>1, <1>4, <1>8, PlainPrinted
<1> QED
  BY <1>2, <1>3, <1>5, <1>6, <1>8, <1>9

\* The actions that are not for what is next.
LEMMA ConvActions ==
  ASSUME NEW d, AtConv(d), FmtNext
  PROVE  \/ d.c = "c" /\ CharConv
         \/ d.c = "%" /\ PercentConv
         \/ d.c = "e" /\ ErrorConv
         \/ d.c = "s" /\ StringConv
         \/ d.c = "d" /\ SignedConv
         \/ d.c \in DOMAIN BaseOf /\ Convert(printnum(Word(Head(ap)), BaseOf[d.c], width, padc), TRUE)
         \/ d.c = "p" /\ PointerConv
<1>1. at = "escape" /\ Ch = d.c /\ d.c \in {"d", "u", "o", "x", "c", "e", "s", "p", "%"}
  BY DEF AtConv, IsConv, DirectiveOK, Conversions, Numeric
<1>2. d.c \in Escapes
  BY <1>1 DEF Escapes, Conversions, Numeric
<1>3. d.c \notin FieldDigit
  BY <1>1 DEF FieldDigit, DigitChars
<1>4. ~CallRefused /\ ~CallFormat /\ ~Text /\ ~FormatEnds /\ ~Escape
  BY <1>1 DEF CallRefused, CallFormat, Text, FormatEnds, Escape
<1>5. ~PadFlag /\ ~AltFlag /\ ~LongFlag /\ ~Dot /\ ~WidthField /\ ~Star
  BY <1>1, <1>3 DEF PadFlag, AltFlag, LongFlag, Dot, WidthField, Star
<1>6. ~Unrecognized
  BY <1>1, <1>2 DEF Unrecognized
<1>7. UnsignedConv => /\ d.c \in DOMAIN BaseOf
                      /\ Convert(printnum(Word(Head(ap)), BaseOf[d.c], width, padc), TRUE)
  BY <1>1 DEF UnsignedConv, At
<1> QED
  BY <1>1, <1>4, <1>5, <1>6, <1>7
     DEF FmtNext, CharConv, PercentConv, ErrorConv, StringConv, SignedConv, PointerConv, At

\* The directive is printed.
LEMMA ConvPrints ==
  ASSUME NEW d, AtConv(d), FmtNext
  PROVE  Convert(Printed(d), d.c # "%") /\ Printed(d) \in Seq(Char)
<1>0. IsConv(d) /\ FlagsRead(d) /\ ArgNext(d)
  BY DEF AtConv
<1>1. CASE d.c = "c" /\ CharConv
  <2>1. Head(ap) = d.arg
    BY <1>0, <1>1 DEF ArgNext
  <2> QED
    BY <1>0, <1>1, <2>1, CharPrints DEF CharConv
<1>2. CASE d.c = "%" /\ PercentConv
  BY <1>0, <1>2, PercentPrints DEF PercentConv
<1>3. CASE d.c = "e" /\ ErrorConv
  <2>1. Head(ap) = d.arg
    BY <1>0, <1>3 DEF ArgNext
  <2>2. Convert(ErrorText(IF d.arg < 0 THEN -d.arg ELSE d.arg), TRUE)
    BY <1>3, <2>1, Zenon DEF ErrorConv, ErrorText
  <2> QED
    BY <1>0, <1>3, <2>2, ErrorPrints
<1>4. CASE d.c = "s" /\ StringConv
  <2> DEFINE p == IF Head(ap) = NullArg THEN NullString ELSE Head(ap)
             n == IF precision < 0 THEN Len(p) ELSE LesserOf(Len(p), precision)
             left == IF padc = "-" THEN << >> ELSE Pads(width - n, padc)
             shown == [k \in 1 .. n |-> IF altflag /\ ~Printable(p[k]) THEN "?" ELSE p[k]]
             t == left \o shown \o Pads(width - Len(left) - n, SPACE)
  <2>1. Convert(t, TRUE)
    BY <1>4, Zenon DEF StringConv
  <2>2. t = Printed(d) /\ Printed(d) \in Seq(Char)
    BY <1>0, <1>4, StringPrints, Zenon
  <2> HIDE DEF t
  <2> QED
    BY <1>4, <2>1, <2>2
<1>5. CASE d.c = "d" /\ SignedConv
  <2> DEFINE num == Word(Head(ap))
             t == IF num >= Power(2)[LONG - 1]
                  THEN <<"-">> \o printnum(Word(-num), 10, width, padc)
                  ELSE printnum(num, 10, width, padc)
  <2>1. Convert(t, TRUE)
    BY <1>5, Zenon DEF SignedConv
  <2>2. t = Printed(d) /\ Printed(d) \in Seq(Char)
    BY <1>5, SignedPrints, Zenon
  <2> HIDE DEF t
  <2> QED
    BY <1>5, <2>1, <2>2
<1>6. CASE /\ d.c \in DOMAIN BaseOf
           /\ Convert(printnum(Word(Head(ap)), BaseOf[d.c], width, padc), TRUE)
  <2>1. d.c # "%"
    BY <1>6 DEF BaseOf
  <2> QED
    BY <1>6, <2>1, BasePrints
<1>7. CASE d.c = "p" /\ PointerConv
  BY <1>7, PointerPrints DEF PointerConv
<1> QED
  BY <1>1, <1>2, <1>3, <1>4, <1>5, <1>6, <1>7, ConvActions

---------------------------------------------------------------------------
\* The characters of a conversion.

FmtChar == Char \cup Escapes

(* How many characters of a conversion are in front of its fields, and of  *)
(* its last character.                                                     *)
AtAlt(d) == 1 + Len(FlagChars(d))
AtWidth(d) == AtAlt(d) + Len(AltChars(d))
AtPrec(d) == AtWidth(d) + Len(NumberChars(d, d.width))
AtEll(d) == AtPrec(d) + Len(PrecChars(d))
AtEnd(d) == AtEll(d) + d.ell

\* The digits and their values.
LEMMA DigitIs ==
  ASSUME NEW k \in 0 .. 9
  PROVE  /\ DigitChars[k + 1] \in FieldDigit /\ DigitValue(DigitChars[k + 1]) = k
         /\ k # 0 => DigitChars[k + 1] # "0"
<1>1. DigitChars[k + 1] \in FieldDigit
  <2>1. k + 1 \in 1 .. 10
    OBVIOUS
  <2> QED
    BY <2>1 DEF FieldDigit
<1>2. \A j \in 0 .. 9 : DigitChars[j + 1] = DigitChars[k + 1] => j = k
  <2> SUFFICES ASSUME NEW j \in 0 .. 9, j # k
               PROVE  DigitChars[j + 1] # DigitChars[k + 1]
    OBVIOUS
  <2>1. /\ \/ k = 0 \/ k = 1 \/ k = 2 \/ k = 3 \/ k = 4 \/ k = 5 \/ k = 6 \/ k = 7 \/ k = 8 \/ k = 9
        /\ \/ j = 0 \/ j = 1 \/ j = 2 \/ j = 3 \/ j = 4 \/ j = 5 \/ j = 6 \/ j = 7 \/ j = 8 \/ j = 9
    OBVIOUS
  <2> QED
    BY <2>1 DEF DigitChars
<1>3. DigitValue(DigitChars[k + 1]) = k
  BY <1>2 DEF DigitValue
<1>4. k # 0 => DigitChars[k + 1] # "0"
  <2>1. DigitChars[0 + 1] = "0"
    BY DEF DigitChars
  <2> QED
    BY <1>2, <2>1
<1> QED
  BY <1>1, <1>3, <1>4

\* What the characters of a number are: a star, or its digits.
NumberShape(s, n, stars) ==
  /\ s \in Seq(FmtChar) /\ Len(s) \in 0 .. 2
  /\ n = 0 <=> Len(s) = 0
  /\ n # 0 /\ stars => Len(s) = 1 /\ s[1] = "*"
  /\ n # 0 /\ ~stars =>
       /\ s[1] # "0" /\ \A i \in 1 .. Len(s) : s[i] \in FieldDigit
       /\ n = IF Len(s) = 1 THEN DigitValue(s[1]) ELSE DigitValue(s[1]) * 10 + DigitValue(s[2])

\* The characters of a number.
LEMMA NumberIs ==
  ASSUME NEW d, d.stars \in BOOLEAN, NEW n \in 0 .. 99
  PROVE  NumberShape(NumberChars(d, n), n, d.stars)
<1>1. FieldDigit \subseteq FmtChar /\ "*" \in FmtChar
  BY DEF FmtChar, Escapes
<1>2. CASE n = 0
  BY <1>2 DEF NumberChars, NumberShape
<1>3. CASE n # 0 /\ d.stars
  <2>1. NumberChars(d, n) = <<"*">>
    BY <1>3 DEF NumberChars
  <2> QED
    BY <1>1, <1>3, <2>1 DEF NumberShape
<1>4. CASE n # 0 /\ ~d.stars /\ n < 10
  <2> DEFINE c == DigitChars[n + 1]
  <2>1. NumberChars(d, n) = <<c>>
    BY <1>4 DEF NumberChars, Decimal
  <2>2. c \in FieldDigit /\ DigitValue(c) = n /\ c # "0"
    BY <1>4, DigitIs
  <2> HIDE DEF c
  <2>3. /\ <<c>> \in Seq(FmtChar) /\ Len(<<c>>) = 1 /\ <<c>>[1] = c
        /\ \A i \in 1 .. 1 : <<c>>[i] = c
    BY <1>1, <2>2
  <2> QED
    BY <1>4, <2>1, <2>2, <2>3 DEF NumberShape
<1>5. CASE n # 0 /\ ~d.stars /\ ~ n < 10
  <2> DEFINE q == n \div 10
             r == n % 10
             b == DigitChars[q + 1]
             c == DigitChars[r + 1]
  <2>1. NumberChars(d, n) = <<b, c>>
    BY <1>5 DEF NumberChars, Decimal
  <2>2. q \in 1 .. 9 /\ r \in 0 .. 9 /\ n = q * 10 + r
    BY <1>5
  <2> HIDE DEF q, r
  <2>3. b \in FieldDigit /\ DigitValue(b) = q /\ b # "0" /\ c \in FieldDigit /\ DigitValue(c) = r
    BY <2>2, DigitIs
  <2> HIDE DEF b, c
  <2>4. /\ <<b, c>> \in Seq(FmtChar) /\ Len(<<b, c>>) = 2 /\ <<b, c>>[1] = b /\ <<b, c>>[2] = c
        /\ \A i \in 1 .. 2 : <<b, c>>[i] = b \/ <<b, c>>[i] = c
    BY <1>1, <2>3
  <2> QED
    BY <1>5, <2>1, <2>2, <2>3, <2>4 DEF NumberShape
<1> QED
  BY <1>2, <1>3, <1>4, <1>5

\* The places of s and t in s \o t.
LEMMA JoinedPlaces ==
  ASSUME NEW S, NEW s \in Seq(S), NEW t \in Seq(S)
  PROVE  /\ s \o t \in Seq(S) /\ Len(s) \in Nat /\ Len(t) \in Nat
         /\ Len(s \o t) = Len(s) + Len(t)
         /\ \A i \in 1 .. Len(s) : (s \o t)[i] = s[i]
         /\ \A i \in 1 .. Len(t) : (s \o t)[Len(s) + i] = t[i]
OBVIOUS

\* Where t is in c from o on.
Within(c, o, t) == o + Len(t) <= Len(c) /\ \A i \in 1 .. Len(t) : c[o + i] = t[i]

\* What is within s stays so when something is added.
LEMMA WithinMore ==
  ASSUME NEW S, NEW s \in Seq(S), NEW t \in Seq(S), NEW o \in Nat, NEW u \in Seq(S), Within(s, o, u)
  PROVE  Within(s \o t, o, u)
<1>1. /\ Len(s) \in Nat /\ Len(t) \in Nat /\ Len(u) \in Nat /\ Len(s \o t) = Len(s) + Len(t)
      /\ \A i \in 1 .. Len(s) : (s \o t)[i] = s[i]
  BY JoinedPlaces
<1>2. o + Len(u) <= Len(s) /\ \A i \in 1 .. Len(u) : s[o + i] = u[i]
  BY DEF Within
<1>3. \A i \in 1 .. Len(u) : o + i \in 1 .. Len(s)
  BY <1>1, <1>2
<1> HIDE DEF Within
<1> DEFINE c == s \o t
<1>4. \A i \in 1 .. Len(u) : c[o + i] = u[i]
  BY <1>1, <1>2, <1>3
<1>5. o + Len(u) <= Len(c)
  BY <1>1, <1>2
<1> QED
  BY <1>4, <1>5 DEF Within

\* The second of two texts is within both.
LEMMA WithinLast ==
  ASSUME NEW S, NEW s \in Seq(S), NEW t \in Seq(S)
  PROVE  Within(s \o t, Len(s), t)
BY JoinedPlaces DEF Within

\* What adding t to s leaves and makes.
Grows(S, s, t, c) ==
  /\ c \in Seq(S) /\ Len(s) \in Nat /\ Len(t) \in Nat /\ Len(c) = Len(s) + Len(t)
  /\ Within(c, Len(s), t)
  /\ \A o \in Nat, u \in Seq(S) : Within(s, o, u) => Within(c, o, u)

\* A text added leaves those that are there and is one of them.
LEMMA Adding ==
  ASSUME NEW S, NEW s \in Seq(S), NEW t \in Seq(S)
  PROVE  Grows(S, s, t, s \o t)
<1>1. \A o \in Nat, u \in Seq(S) : Within(s, o, u) => Within(s \o t, o, u)
  BY WithinMore
<1>2. Within(s \o t, Len(s), t)
  BY WithinLast
<1>3. s \o t \in Seq(S) /\ Len(s) \in Nat /\ Len(t) \in Nat /\ Len(s \o t) = Len(s) + Len(t)
  BY JoinedPlaces
<1> QED
  BY <1>1, <1>2, <1>3, Zenon DEF Grows

\* The fields of a conversion and where they are.
LEMMA ConvFields ==
  ASSUME NEW d, IsConv(d)
  PROVE  /\ DirectiveChars(d) \in Seq(FmtChar)
         /\ AtAlt(d) \in Nat /\ AtWidth(d) \in Nat /\ AtPrec(d) \in Nat
         /\ AtEll(d) \in Nat /\ AtEnd(d) \in Nat
         /\ Len(DirectiveChars(d)) = AtEnd(d) + 1
         /\ Within(DirectiveChars(d), 0, <<"%">>)
         /\ Within(DirectiveChars(d), 1, FlagChars(d))
         /\ Within(DirectiveChars(d), AtAlt(d), AltChars(d))
         /\ Within(DirectiveChars(d), AtWidth(d), NumberChars(d, d.width))
         /\ Within(DirectiveChars(d), AtPrec(d), PrecChars(d))
         /\ Within(DirectiveChars(d), AtEll(d), [k \in 1 .. d.ell |-> "l"])
         /\ Within(DirectiveChars(d), AtEnd(d), <<d.c>>)
<1>1. /\ d.pad \in {SPACE, "-", "0"} /\ d.alt \in BOOLEAN /\ d.stars \in BOOLEAN
      /\ d.ell \in Nat /\ d.c \in Conversions
  BY DEF IsConv, DirectiveOK
<1>2. d.width \in 0 .. 99 /\ d.prec \in 0 .. 99
  BY DEF IsConv, DirectiveOK
<1> DEFINE e0 == <<"%">>
           e1 == FlagChars(d)
           e2 == AltChars(d)
           e3 == NumberChars(d, d.width)
           e4 == PrecChars(d)
           e5 == [k \in 1 .. d.ell |-> "l"]
           e6 == <<d.c>>
<1>3. "%" \in FmtChar /\ "-" \in FmtChar /\ "0" \in FmtChar /\ "#" \in FmtChar
      /\ "." \in FmtChar /\ "l" \in FmtChar /\ d.c \in FmtChar
  BY <1>1, OwnChar DEF FmtChar, Escapes, Conversions, Numeric
<1>4. e0 \in Seq(FmtChar) /\ e6 \in Seq(FmtChar) /\ e2 \in Seq(FmtChar)
  <2>1. <<"%">> \in Seq(FmtChar) /\ <<d.c>> \in Seq(FmtChar) /\ <<"#">> \in Seq(FmtChar)
    BY <1>3, OneChar
  <2>2. << >> \in Seq(FmtChar)
    BY EmptySeq
  <2> QED
    BY <2>1, <2>2, Zenon DEF AltChars
<1>5. e1 \in Seq(FmtChar)
  <2>1. << >> \in Seq(FmtChar)
    BY EmptySeq
  <2>2. d.pad # SPACE => <<d.pad>> \in Seq(FmtChar)
    BY <1>1, <1>3, OneChar
  <2> QED
    BY <2>1, <2>2, Zenon DEF FlagChars
<1>6. e3 \in Seq(FmtChar) /\ e4 \in Seq(FmtChar)
  <2>1. NumberChars(d, d.width) \in Seq(FmtChar) /\ NumberChars(d, d.prec) \in Seq(FmtChar)
    <3>1. ASSUME NEW n \in 0 .. 99
          PROVE  NumberChars(d, n) \in Seq(FmtChar)
      <4>1. d.stars \in BOOLEAN
        BY <1>1
      <4>2. NumberShape(NumberChars(d, n), n, d.stars)
        BY <4>1, NumberIs
      <4> QED
        BY ONLY <4>2, Zenon DEF NumberShape
    <3> QED
      BY ONLY <1>2, <3>1, Zenon
  <2>2. <<".">> \in Seq(FmtChar) /\ << >> \in Seq(FmtChar)
    BY <1>3, OneChar, EmptySeq
  <2>3. <<".">> \o NumberChars(d, d.prec) \in Seq(FmtChar)
    BY <2>1, <2>2, Joined
  <2> QED
    BY <2>1, <2>2, <2>3, Zenon DEF PrecChars
<1>7. e5 \in Seq(FmtChar) /\ Len(e5) = d.ell
  BY <1>1, <1>3
<1>8. Len(e0) = 1 /\ Len(e6) = 1
  OBVIOUS
<1>9. DirectiveChars(d) = e0 \o e1 \o e2 \o e3 \o e4 \o e5 \o e6
  BY DEF DirectiveChars, IsConv
<1>10. /\ AtAlt(d) = 1 + Len(e1) /\ AtWidth(d) = AtAlt(d) + Len(e2)
       /\ AtPrec(d) = AtWidth(d) + Len(e3) /\ AtEll(d) = AtPrec(d) + Len(e4)
       /\ AtEnd(d) = AtEll(d) + Len(e5)
  BY <1>7 DEF AtAlt, AtWidth, AtPrec, AtEll, AtEnd
<1>11. 1 = Len(e0) /\ Len(e6) = 1
  BY <1>8
<1> HIDE DEF e0, e1, e2, e3, e4, e5, e6
<1> DEFINE c == DirectiveChars(d)
           l2 == AtAlt(d)
           l3 == AtWidth(d)
           l4 == AtPrec(d)
           l5 == AtEll(d)
           l6 == AtEnd(d)
<1>12. /\ 1 = Len(e0) /\ l2 = 1 + Len(e1) /\ l3 = l2 + Len(e2) /\ l4 = l3 + Len(e3)
       /\ l5 = l4 + Len(e4) /\ l6 = l5 + Len(e5)
       /\ c = e0 \o e1 \o e2 \o e3 \o e4 \o e5 \o e6
  BY <1>9, <1>10, <1>11, Zenon
<1> HIDE DEF c, l2, l3, l4, l5, l6
<1>13. /\ c \in Seq(FmtChar) /\ Len(c) = l6 + Len(e6)
       /\ l2 \in Nat /\ l3 \in Nat /\ l4 \in Nat /\ l5 \in Nat /\ l6 \in Nat
       /\ Within(c, 0, e0) /\ Within(c, 1, e1) /\ Within(c, l2, e2) /\ Within(c, l3, e3)
       /\ Within(c, l4, e4) /\ Within(c, l5, e5) /\ Within(c, l6, e6)
  <2> DEFINE s1 == e0 \o e1
             s2 == s1 \o e2
             s3 == s2 \o e3
             s4 == s3 \o e4
             s5 == s4 \o e5
             s6 == s5 \o e6
  <2>0. Within(e0, 0, e0) /\ Len(e0) \in Nat
    BY <1>4 DEF Within
  <2>1. Grows(FmtChar, e0, e1, s1)
    BY <1>4, <1>5, Adding
  <2>a. s1 \in Seq(FmtChar)
    BY <2>1, <1>4, <1>5, <1>6, <1>7, Zenon DEF Grows
  <2> HIDE DEF s1
  <2>2. Grows(FmtChar, s1, e2, s2)
    BY <1>4, <2>a, Adding
  <2>b. s2 \in Seq(FmtChar)
    BY <2>2, <1>4, <1>5, <1>6, <1>7, Zenon DEF Grows
  <2> HIDE DEF s2
  <2>3. Grows(FmtChar, s2, e3, s3)
    BY <1>6, <2>b, Adding
  <2>c. s3 \in Seq(FmtChar)
    BY <2>3, <1>4, <1>5, <1>6, <1>7, Zenon DEF Grows
  <2> HIDE DEF s3
  <2>4. Grows(FmtChar, s3, e4, s4)
    BY <1>6, <2>c, Adding
  <2>d. s4 \in Seq(FmtChar)
    BY <2>4, <1>4, <1>5, <1>6, <1>7, Zenon DEF Grows
  <2> HIDE DEF s4
  <2>5. Grows(FmtChar, s4, e5, s5)
    BY <1>7, <2>d, Adding
  <2>e. s5 \in Seq(FmtChar)
    BY <2>5, <1>4, <1>5, <1>6, <1>7, Zenon DEF Grows
  <2> HIDE DEF s5
  <2>6. Grows(FmtChar, s5, e6, s6)
    BY <1>4, <2>e, Adding
  <2>7. c = s6
    BY <1>12, Zenon DEF s1, s2, s3, s4, s5
  <2> HIDE DEF s6
  <2>8. /\ Len(s1) = l2 /\ Len(s2) = l3 /\ Len(s3) = l4 /\ Len(s4) = l5 /\ Len(s5) = l6
        /\ Len(s6) = l6 + Len(e6)
    BY <1>12, <2>1, <2>2, <2>3, <2>4, <2>5, <2>6 DEF Grows
  <2>9. 1 \in Nat /\ l2 \in Nat /\ l3 \in Nat /\ l4 \in Nat /\ l5 \in Nat /\ l6 \in Nat
    BY <2>0, <2>1, <2>2, <2>3, <2>4, <2>5, <2>6, <2>8 DEF Grows
  <2>10. 0 \in Nat
    OBVIOUS
  <2>11. Within(s6, l6, e6)
    BY <2>6, <2>8 DEF Grows
  <2>12. Within(s6, l5, e5)
    <3>1. Within(s5, l5, e5)
      BY <2>5, <2>8, <1>4, <1>5, <1>6, <1>7, Zenon DEF Grows
    <3> QED
      BY <2>6, <2>9, <3>1, <1>4, <1>5, <1>6, <1>7, Zenon DEF Grows
  <2>13. Within(s6, l4, e4)
    <3>1. Within(s4, l4, e4)
      BY <2>4, <2>8, <1>4, <1>5, <1>6, <1>7, Zenon DEF Grows
    <3>2. Within(s5, l4, e4)
      BY <2>5, <2>9, <3>1, <1>4, <1>5, <1>6, <1>7, Zenon DEF Grows
    <3> QED
      BY <2>6, <2>9, <3>2, <1>4, <1>5, <1>6, <1>7, Zenon DEF Grows
  <2>14. Within(s6, l3, e3)
    <3>1. Within(s3, l3, e3)
      BY <2>3, <2>8, <1>4, <1>5, <1>6, <1>7, Zenon DEF Grows
    <3>2. Within(s4, l3, e3)
      BY <2>4, <2>9, <3>1, <1>4, <1>5, <1>6, <1>7, Zenon DEF Grows
    <3>3. Within(s5, l3, e3)
      BY <2>5, <2>9, <3>2, <1>4, <1>5, <1>6, <1>7, Zenon DEF Grows
    <3> QED
      BY <2>6, <2>9, <3>3, <1>4, <1>5, <1>6, <1>7, Zenon DEF Grows
  <2>15. Within(s2, 0, e0) /\ Within(s2, 1, e1) /\ Within(s2, l2, e2)
    <3>1. Within(s1, 1, e1)
      BY <1>11, <2>1, Zenon DEF Grows
    <3>3. Within(s1, 0, e0)
      BY <2>0, <2>1, <2>10, <1>4, <1>5, <1>6, <1>7, Zenon DEF Grows
    <3> QED
      BY <2>2, <2>8, <2>9, <2>10, <3>1, <3>3, <1>4, <1>5, <1>6, <1>7, Zenon DEF Grows
  <2>16. ASSUME NEW o \in Nat, NEW u \in Seq(FmtChar), Within(s2, o, u)
         PROVE  Within(s6, o, u)
    <3>1. Within(s3, o, u)
      BY <2>3, <2>16, <1>4, <1>5, <1>6, <1>7, Zenon DEF Grows
    <3>2. Within(s4, o, u)
      BY <2>4, <3>1, <1>4, <1>5, <1>6, <1>7, Zenon DEF Grows
    <3>3. Within(s5, o, u)
      BY <2>5, <3>2, <1>4, <1>5, <1>6, <1>7, Zenon DEF Grows
    <3> QED
      BY <2>6, <3>3, <1>4, <1>5, <1>6, <1>7, Zenon DEF Grows
  <2>17. Within(s6, 0, e0) /\ Within(s6, 1, e1) /\ Within(s6, l2, e2)
    BY <2>9, <2>10, <2>15, <2>16, <1>4, <1>5, <1>6, Zenon
  <2>18. s6 \in Seq(FmtChar)
    BY <2>6, <1>4, <1>5, <1>6, <1>7, Zenon DEF Grows
  <2> QED
    BY <2>7, <2>8, <2>9, <2>11, <2>12, <2>13, <2>14, <2>17, <2>18, Zenon
<1>14. Len(c) = l6 + 1
  BY <1>11, <1>13, Zenon
<1> QED
  BY <1>13, <1>14, Zenon DEF c, l2, l3, l4, l5, l6, e0, e1, e2, e3, e4, e5, e6

---------------------------------------------------------------------------
\* The format and its arguments, by directive.

CharsOf == [k \in DOMAIN dirs |-> DirectiveChars(dirs[k])]
ArgsOf == [k \in DOMAIN dirs |-> DirectiveArgs(dirs[k])]
PrintsOf == [k \in DOMAIN dirs |-> Printed(dirs[k])]
Arguments == FlattenSeq(ArgsOf)

(* How many characters and arguments are in front of directive k, and what *)
(* those in front of it print.                                             *)
Start(k) == Len(FlatUpTo(CharsOf, k - 1))
Used(k) == Len(FlatUpTo(ArgsOf, k - 1))
Shown(k) == FlatUpTo(PrintsOf, k - 1)

\* What FmtInit gives and no step takes.
Given ==
  /\ Len(dirs) \in Nat /\ DOMAIN dirs = 1 .. Len(dirs)
  /\ \A k \in DOMAIN dirs : DirectiveOK(dirs[k]) /\ (Unfinished(dirs[k]) => k = Len(dirs))
  /\ fmt = FlattenSeq(CharsOf)
  /\ sink \in Sinks

\* What an argument may be.
AnyArg == Int \cup Char \cup Seq(Char) \cup {NullArg}

\* The characters of a directive are characters of a format.
LEMMA CharsTyped ==
  ASSUME NEW d, DirectiveOK(d)
  PROVE  DirectiveChars(d) \in Seq(FmtChar)
<1>1. d.kind \in {"char", "odd", "conv"}
  BY DEF DirectiveOK
<1>2. CASE d.kind = "char"
  <2>1. DirectiveChars(d) = <<d.c>> /\ d.c \in FmtChar
    BY <1>2 DEF DirectiveChars, DirectiveOK, FmtChar
  <2> QED
    BY <2>1, OneChar
<1>3. CASE d.kind = "odd"
  <2>1. DirectiveChars(d) = <<"%">> \o d.cs /\ d.cs \in Seq(Char \ {"%", NUL})
    BY <1>3 DEF DirectiveChars, DirectiveOK
  <2>2. <<"%">> \in Seq(FmtChar)
    BY OwnChar, OneChar DEF FmtChar
  <2>3. d.cs \in Seq(FmtChar)
    BY <2>1, SeqMonotonic DEF FmtChar
  <2> QED
    BY <2>1, <2>2, <2>3, Joined
<1>4. CASE d.kind = "conv"
  BY <1>4, ConvFields DEF IsConv
<1> QED
  BY <1>1, <1>2, <1>3, <1>4

\* The arguments of a directive.
LEMMA ArgsTyped ==
  ASSUME NEW d, DirectiveOK(d)
  PROVE  DirectiveArgs(d) \in Seq(AnyArg)
<1>0. << >> \in Seq(AnyArg)
  BY EmptySeq
<1>1. CASE d.kind # "conv" \/ d.c = "%"
  BY <1>0, <1>1 DEF DirectiveArgs
<1>2. CASE ~(d.kind # "conv" \/ d.c = "%")
  <2>1. DirectiveArgs(d) = StarArg(d, d.width) \o StarArg(d, d.prec) \o <<d.arg>>
    BY <1>2 DEF DirectiveArgs
  <2>2. IsConv(d) /\ d.c \in Conversions /\ ArgOK(d) /\ d.width \in 0 .. 99 /\ d.prec \in 0 .. 99
    BY <1>2 DEF DirectiveOK, IsConv
  <2>3. d.arg \in AnyArg
    <3>1. Power(2)[LONG - 1] \in Int /\ Power(2)[LONG] \in Int
      BY WordSize DEF WordMax
    <3>2. \/ d.arg \in Char \/ d.arg \in Seq(Char) \cup {NullArg}
          \/ d.arg \in -Power(2)[LONG - 1] .. Power(2)[LONG - 1] - 1
          \/ d.arg \in 0 .. Power(2)[LONG] - 1
          \/ d.arg \in 1 - Power(2)[LONG] .. Power(2)[LONG] - 1
      BY <1>2, <2>2, Zenon DEF ArgOK
    <3>3. \/ d.arg \in Char \/ d.arg \in Seq(Char) \cup {NullArg} \/ d.arg \in Int
      BY <3>1, <3>2
    <3> QED
      BY <3>3, Zenon DEF AnyArg
  <2>4. <<d.arg>> \in Seq(AnyArg)
    BY <2>3, OneChar
  <2>5. d.width \in AnyArg /\ d.prec \in AnyArg
    <3>1. \A n \in 0 .. 99 : n \in Int
      OBVIOUS
    <3> QED
      BY <2>2, <3>1, Zenon DEF AnyArg
  <2>6. <<d.width>> \in Seq(AnyArg) /\ <<d.prec>> \in Seq(AnyArg)
    BY <2>5, OneChar
  <2>7. StarArg(d, d.width) \in Seq(AnyArg) /\ StarArg(d, d.prec) \in Seq(AnyArg)
    BY <1>0, <2>6, Zenon DEF StarArg
  <2>8. StarArg(d, d.width) \o StarArg(d, d.prec) \in Seq(AnyArg)
    BY <2>7, Joined
  <2> QED
    BY <2>1, <2>4, <2>8, Joined
<1> QED
  BY <1>1, <1>2

\* Nothing flattened.
LEMMA FlattenNone ==
  ASSUME NEW s
  PROVE  FlatUpTo(s, 0) = << >> /\ Len(FlatUpTo(s, 0)) = 0
<1> DEFINE e == [i \in 1 .. 0 |-> s[i]]
<1>1. e = << >> /\ Len(e) = 0
  OBVIOUS
<1> HIDE DEF e
<1>2. FlattenSeq(e) = e
  BY <1>1, Zenon DEF FlattenSeq
<1> QED
  BY <1>1, <1>2 DEF FlatUpTo, e

\* All flattened.
LEMMA FlattenWhole ==
  ASSUME NEW s, NEW n \in Nat, DOMAIN s = 1 .. n, s = [i \in DOMAIN s |-> s[i]]
  PROVE  FlatUpTo(s, n) = FlattenSeq(s)
<1>1. s = [i \in 1 .. n |-> s[i]]
  OBVIOUS
<1> QED
  BY <1>1, Zenon DEF FlatUpTo

\* Where directive k is in the format.
LEMMA CharPlaces ==
  ASSUME Given, NEW k \in 1 .. Len(dirs)
  PROVE  /\ Start(k) \in Nat
         /\ Start(k + 1) = Start(k) + Len(DirectiveChars(dirs[k]))
         /\ Start(k + 1) <= Len(fmt)
         /\ \A j \in 1 .. Len(DirectiveChars(dirs[k])) : fmt[Start(k) + j] = DirectiveChars(dirs[k])[j]
<1> DEFINE s == CharsOf
           n == Len(dirs)
           m == k - 1
<1>1. n \in Nat /\ DOMAIN s = 1 .. n /\ k \in 1 .. n /\ m \in 0 .. n - 1 /\ m + 1 = k
  BY DEF Given, CharsOf
<1>2. \A i \in 1 .. n : s[i] \in Seq(FmtChar) /\ s[i] = DirectiveChars(dirs[i])
  BY CharsTyped DEF Given, CharsOf
<1>3. s = [i \in DOMAIN s |-> s[i]]
  BY DEF CharsOf
<1>4. fmt = FlattenSeq(s)
  BY DEF Given
<1>5. Start(k) = Len(FlatUpTo(s, m)) /\ Start(k + 1) = Len(FlatUpTo(s, m + 1))
  <2>1. k + 1 - 1 = m + 1
    BY <1>1
  <2>2. Start(k) = Len(FlatUpTo(s, m))
    BY DEF Start
  <2>3. Start(k + 1) = Len(FlatUpTo(s, k + 1 - 1))
    BY DEF Start
  <2> HIDE DEF s, m
  <2> QED
    BY <2>1, <2>2, <2>3, Zenon
<1> HIDE DEF s, n, m
<1>6. HasPlace(s, n, m)
  BY <1>1, <1>2, FlattenPlaces
<1>7. fmt = FlatUpTo(s, n)
  BY <1>1, <1>3, <1>4, FlattenWhole
<1>8. s[m + 1] = DirectiveChars(dirs[k])
  BY <1>1, <1>2
<1> QED
  BY <1>5, <1>6, <1>7, <1>8, Zenon DEF HasPlace

\* Where its arguments are.
LEMMA ArgPlaces ==
  ASSUME Given, NEW k \in 1 .. Len(dirs)
  PROVE  /\ Used(k) \in Nat
         /\ Used(k + 1) = Used(k) + Len(DirectiveArgs(dirs[k]))
         /\ Used(k + 1) <= Len(Arguments)
         /\ \A j \in 1 .. Len(DirectiveArgs(dirs[k])) : Arguments[Used(k) + j] = DirectiveArgs(dirs[k])[j]
<1> DEFINE s == ArgsOf
           n == Len(dirs)
           m == k - 1
<1>1. n \in Nat /\ DOMAIN s = 1 .. n /\ k \in 1 .. n /\ m \in 0 .. n - 1 /\ m + 1 = k
  BY DEF Given, ArgsOf
<1>2. \A i \in 1 .. n : s[i] \in Seq(AnyArg) /\ s[i] = DirectiveArgs(dirs[i])
  BY ArgsTyped DEF Given, ArgsOf
<1>3. s = [i \in DOMAIN s |-> s[i]]
  BY DEF ArgsOf
<1>4. Arguments = FlattenSeq(s)
  BY DEF Arguments
<1>5. Used(k) = Len(FlatUpTo(s, m)) /\ Used(k + 1) = Len(FlatUpTo(s, m + 1))
  <2>1. k + 1 - 1 = m + 1
    BY <1>1
  <2>2. Used(k) = Len(FlatUpTo(s, m))
    BY DEF Used
  <2>3. Used(k + 1) = Len(FlatUpTo(s, k + 1 - 1))
    BY DEF Used
  <2> HIDE DEF s, m
  <2> QED
    BY <2>1, <2>2, <2>3, Zenon
<1> HIDE DEF s, n, m
<1>6. HasPlace(s, n, m)
  BY <1>1, <1>2, FlattenPlaces
<1>7. Arguments = FlatUpTo(s, n)
  BY <1>1, <1>3, <1>4, FlattenWhole
<1>8. s[m + 1] = DirectiveArgs(dirs[k])
  BY <1>1, <1>2
<1> QED
  BY <1>5, <1>6, <1>7, <1>8, Zenon DEF HasPlace

\* The first directive and the end of the last.
LEMMA Ends ==
  ASSUME Given
  PROVE  /\ Start(1) = 0 /\ Used(1) = 0 /\ Shown(1) = << >>
         /\ Start(Len(dirs) + 1) = Len(fmt) /\ Len(fmt) \in Nat
         /\ Used(Len(dirs) + 1) = Len(Arguments)
         /\ Shown(Len(dirs) + 1) = Meant
         /\ Arguments \in Seq(AnyArg)
<1> DEFINE n == Len(dirs)
<1>1. n \in Nat /\ DOMAIN dirs = 1 .. n /\ 1 - 1 = 0 /\ n + 1 - 1 = n
  BY DEF Given
<1>2. Start(1) = 0 /\ Used(1) = 0 /\ Shown(1) = << >>
  BY <1>1, FlattenNone DEF Start, Used, Shown
<1>3. FlatUpTo(CharsOf, n) = fmt
  <2>1. DOMAIN CharsOf = 1 .. n /\ CharsOf = [i \in DOMAIN CharsOf |-> CharsOf[i]]
    BY <1>1 DEF CharsOf
  <2> QED
    BY <1>1, <2>1, FlattenWhole DEF Given
<1>4. FlatUpTo(ArgsOf, n) = Arguments
  <2>1. DOMAIN ArgsOf = 1 .. n /\ ArgsOf = [i \in DOMAIN ArgsOf |-> ArgsOf[i]]
    BY <1>1 DEF ArgsOf
  <2> QED
    BY <1>1, <2>1, FlattenWhole DEF Arguments
<1>5. FlatUpTo(PrintsOf, n) = Meant
  <2>1. DOMAIN PrintsOf = 1 .. n /\ PrintsOf = [i \in DOMAIN PrintsOf |-> PrintsOf[i]]
    BY <1>1 DEF PrintsOf
  <2> QED
    BY <1>1, <2>1, FlattenWhole DEF Meant, PrintsOf
<1>6. Start(n + 1) = Len(fmt) /\ Used(n + 1) = Len(Arguments) /\ Shown(n + 1) = Meant
  BY <1>1, <1>3, <1>4, <1>5 DEF Start, Used, Shown
<1>7. \A i \in 1 .. n : CharsOf[i] \in Seq(FmtChar) /\ ArgsOf[i] \in Seq(AnyArg)
  BY <1>1, CharsTyped, ArgsTyped DEF Given, CharsOf, ArgsOf
<1>8. FlatUpTo(CharsOf, n) \in Seq(FmtChar) /\ FlatUpTo(ArgsOf, n) \in Seq(AnyArg)
  <2>1. n \in 0 .. n
    BY <1>1
  <2> QED
    BY <1>1, <1>7, <2>1, FlattenPrefix
<1>9. Len(fmt) \in Nat
  BY <1>3, <1>8, LenProperties
<1> QED
  BY <1>2, <1>4, <1>6, <1>8, <1>9

\* What the first k directives print.
PrintsKnown(k) == \A i \in 1 .. k - 1 : Printed(dirs[i]) \in Seq(Char)

\* One directive more.
LEMMA ShownMore ==
  ASSUME Given, NEW k \in 1 .. Len(dirs), PrintsKnown(k), Printed(dirs[k]) \in Seq(Char)
  PROVE  /\ Shown(k + 1) = Shown(k) \o Printed(dirs[k])
         /\ PrintsKnown(k + 1) /\ Shown(k) \in Seq(Char)
<1> DEFINE s == PrintsOf
           m == k - 1
<1>1. m \in Nat /\ m + 1 = k /\ k + 1 - 1 = m + 1 /\ Len(dirs) \in Nat /\ DOMAIN dirs = 1 .. Len(dirs)
  BY DEF Given
<1>2. \A i \in 1 .. m + 1 : s[i] = Printed(dirs[i])
  BY <1>1 DEF PrintsOf
<1>3. \A i \in 1 .. m + 1 : Printed(dirs[i]) \in Seq(Char)
  BY <1>1 DEF PrintsKnown
<1>4. Shown(k) = FlatUpTo(s, m) /\ Shown(k + 1) = FlatUpTo(s, m + 1)
  <2>1. Shown(k) = FlatUpTo(s, m)
    BY DEF Shown
  <2>2. Shown(k + 1) = FlatUpTo(s, k + 1 - 1)
    BY DEF Shown
  <2> HIDE DEF s, m
  <2> QED
    BY <1>1, <2>1, <2>2, Zenon
<1>5. PrintsKnown(k + 1)
  BY <1>1, <1>3 DEF PrintsKnown
<1> HIDE DEF s, m
<1>6. \A i \in 1 .. m + 1 : s[i] \in Seq(Char)
  BY <1>2, <1>3
<1>7. FlatUpTo(s, m + 1) = FlatUpTo(s, m) \o s[m + 1]
  BY <1>1, <1>6, FlattenLast
<1>8. FlatUpTo(s, m) \in Seq(Char)
  <2>1. m \in 0 .. m /\ \A i \in 1 .. m : s[i] \in Seq(Char)
    BY <1>1, <1>6
  <2> QED
    BY <1>1, <2>1, FlattenPrefix
<1>9. s[m + 1] = Printed(dirs[k])
  BY <1>1, <1>2
<1> QED
  BY <1>4, <1>5, <1>7, <1>8, <1>9, Zenon

---------------------------------------------------------------------------
\* Where a format is between two steps.

\* All arguments but the first u are left.
ArgsFrom(u) == ap = [i \in 1 .. Len(Arguments) - u |-> Arguments[u + i]]

\* The first j of p.
First(p, j) == [i \in 1 .. j |-> p[i]]

\* In front of directive k, or behind the last.
Fresh(k) ==
  /\ fp = Start(k) + 1 /\ ArgsFrom(Used(k)) /\ out = Shown(k) /\ PrintsKnown(k)

\* In directive k, which is none, with j of it printed.
OddText(k, j) ==
  /\ dirs[k].kind = "odd" /\ fp = Start(k) + 1 + j /\ ArgsFrom(Used(k)) /\ PrintsKnown(k)
  /\ out = Shown(k) \o First(Printed(dirs[k]), j)

TextAt ==
  \/ \E k \in 1 .. Len(dirs) + 1 : Fresh(k)
  \/ \E k \in 1 .. Len(dirs) : \E j \in 1 .. Len(dirs[k].cs) : OddText(k, j)

\* One more of p.
LEMMA FirstMore ==
  ASSUME NEW S, NEW s \in Seq(S), NEW p \in Seq(S), NEW j \in 0 .. Len(p) - 1
  PROVE  s \o First(p, j) \o <<p[j + 1]>> = s \o First(p, j + 1)
<1>1. First(p, j) \in Seq(S) /\ Len(First(p, j)) = j
  BY DEF First
<1>2. First(p, j) \o <<p[j + 1]>> = First(p, j + 1)
  BY DEF First
<1>3. p[j + 1] \in S
  OBVIOUS
<1>4. <<p[j + 1]>> \in Seq(S)
  BY <1>3, OneChar
<1>5. s \o First(p, j) \o <<p[j + 1]>> = s \o (First(p, j) \o <<p[j + 1]>>)
  <2> DEFINE a == First(p, j)
             b == <<p[j + 1]>>
  <2> HIDE DEF a, b
  <2> QED
    BY <1>1, <1>4, ConcatAssociative DEF a, b
<1> QED
  BY <1>2, <1>5

\* None of it, and all of it.
LEMMA FirstEnds ==
  ASSUME NEW S, NEW s \in Seq(S), NEW p \in Seq(S)
  PROVE  s \o First(p, 0) = s /\ First(p, Len(p)) = p
<1>1. First(p, 0) = << >>
  BY DEF First
<1>2. First(p, Len(p)) = p
  BY DEF First
<1> QED
  BY <1>1, <1>2, ConcatEmptySeq

\* The character that is read.
LEMMA ChIs ==
  ASSUME Given, NEW k \in 1 .. Len(dirs), NEW x \in 1 .. Len(DirectiveChars(dirs[k])),
         fp = Start(k) + x
  PROVE  /\ Ch = DirectiveChars(dirs[k])[x] /\ fp \in 1 .. Len(fmt) /\ fmt[fp] = Ch
         /\ Len(DirectiveChars(dirs[k])) \in Nat /\ Start(k) \in Nat
<1> DEFINE c == DirectiveChars(dirs[k])
           l == Len(c)
<1>1. /\ Start(k) \in Nat /\ Start(k + 1) = Start(k) + l /\ Start(k + 1) <= Len(fmt)
      /\ \A j \in 1 .. l : fmt[Start(k) + j] = c[j]
  BY CharPlaces
<1>2. k \in DOMAIN dirs
  BY DEF Given
<1>3. c \in Seq(FmtChar)
  BY <1>2, CharsTyped DEF Given
<1> HIDE DEF c
<1>4. l \in Nat
  BY <1>3
<1>5. Len(fmt) \in Nat
  BY Ends
<1> HIDE DEF l
<1>6. x \in 1 .. l
  BY DEF l, c
<1>7. fp \in 1 .. Len(fmt) /\ fmt[fp] = c[x]
  BY <1>1, <1>4, <1>5, <1>6
<1>8. Ch = c[x]
  BY <1>5, <1>7 DEF Ch
<1> QED
  BY <1>1, <1>4, <1>7, <1>8 DEF c, l

\* The end of the format.
LEMMA ChEnds ==
  ASSUME Given, fp = Start(Len(dirs) + 1) + 1
  PROVE  Ch = NUL
BY Ends DEF Ch

\* What is not a directive.
LEMMA OddChars ==
  ASSUME NEW d, DirectiveOK(d), d.kind = "odd"
  PROVE  /\ DirectiveChars(d) = <<"%">> \o d.cs /\ Printed(d) = <<"%">> \o d.cs
         /\ Printed(d) \in Seq(Char) /\ d.cs \in Seq(Char \ {"%", NUL})
         /\ Len(d.cs) \in Nat /\ Len(Printed(d)) = Len(d.cs) + 1
         /\ Printed(d)[1] = "%" /\ \A j \in 1 .. Len(d.cs) : Printed(d)[j + 1] = d.cs[j]
         /\ DirectiveArgs(d) = << >>
<1>1. DirectiveChars(d) = <<"%">> \o d.cs /\ Printed(d) = <<"%">> \o d.cs /\ DirectiveArgs(d) = << >>
  BY DEF DirectiveChars, Printed, DirectiveArgs
<1>2. d.cs \in Seq(Char \ {"%", NUL})
  BY DEF DirectiveOK
<1> DEFINE s == d.cs
<1> HIDE DEF s
<1>3. s \in Seq(Char) /\ <<"%">> \in Seq(Char) /\ Len(s) \in Nat
  <2>1. s \in Seq(Char) /\ Len(s) \in Nat
    BY <1>2, SeqMonotonic DEF s
  <2>2. <<"%">> \in Seq(Char)
    BY OwnChar, OneChar
  <2> QED
    BY <2>1, <2>2
<1>4. /\ <<"%">> \o s \in Seq(Char) /\ Len(<<"%">> \o s) = Len(s) + 1
      /\ (<<"%">> \o s)[1] = "%" /\ \A j \in 1 .. Len(s) : (<<"%">> \o s)[j + 1] = s[j]
  BY <1>3
<1> QED
  BY <1>1, <1>2, <1>3, <1>4 DEF s

\* The next argument.
LEMMA ArgTaken ==
  ASSUME Given, NEW u \in Nat, u < Len(Arguments), ArgsFrom(u)
  PROVE  /\ Head(ap) = Arguments[u + 1]
         /\ Tail(ap) = [i \in 1 .. Len(Arguments) - (u + 1) |-> Arguments[u + 1 + i]]
<1> DEFINE a == Arguments
           n == Len(a)
<1>1. a \in Seq(AnyArg) /\ n \in Nat /\ u < n
  BY Ends
<1>2. ap = [i \in 1 .. n - u |-> a[u + i]]
  BY DEF ArgsFrom
<1> HIDE DEF a
<1>3. ap \in Seq(AnyArg) /\ Len(ap) = n - u /\ ap # << >>
  <2> DEFINE m == n - u
             A == AnyArg
  <2>1. m \in Nat \ {0}
    BY <1>1
  <2>2. \A i \in 1 .. m : a[u + i] \in A
    <3> HIDE DEF A
    <3>1. \A i \in 1 .. m : u + i \in 1 .. n
      BY <1>1
    <3> QED
      BY <1>1, <3>1 DEF A
  <2> HIDE DEF A, m
  <2>3. ap = [i \in 1 .. m |-> a[u + i]]
    BY <1>2 DEF m
  <2>4. ap \in Seq(A) /\ Len(ap) = m
    BY <2>1, <2>2, <2>3
  <2> QED
    BY <2>1, <2>4 DEF A, m
<1> HIDE DEF n
<1>4. Head(ap) = a[u + 1]
  BY <1>1, <1>2, <1>3
<1>5. Tail(ap) = [i \in 1 .. n - (u + 1) |-> a[u + 1 + i]]
  <2>1. Tail(ap) = [i \in 1 .. Len(ap) - 1 |-> ap[i + 1]]
    <3> DEFINE t == Tail(ap)
    <3>1. t \in Seq(AnyArg) /\ Len(t) = Len(ap) - 1 /\ \A i \in 1 .. Len(t) : t[i] = ap[i + 1]
      BY <1>3, HeadTailProperties
    <3> HIDE DEF t
    <3>2. t = [i \in 1 .. Len(t) |-> t[i]]
      BY <3>1
    <3> QED
      BY <3>1, <3>2 DEF t
  <2>2. \A i \in 1 .. Len(ap) - 1 : ap[i + 1] = a[u + 1 + i]
    BY <1>1, <1>2, <1>3
  <2>3. 1 .. Len(ap) - 1 = 1 .. n - (u + 1)
    BY <1>1, <1>3
  <2> QED
    BY <2>1, <2>2, <2>3
<1> QED
  BY <1>4, <1>5 DEF a, n

\* What a step leaves.
Kept == UNCHANGED <<dirs, fmt, sink>>

\* What depends on the format alone is kept with it.
LEMMA KeptAll ==
  ASSUME Kept
  PROVE  /\ Given => Given'
         /\ Len(dirs)' = Len(dirs) /\ Arguments' = Arguments
         /\ \A k : dirs'[k] = dirs[k] /\ Start(k)' = Start(k) /\ Used(k)' = Used(k)
         /\ \A k : Shown(k)' = Shown(k) /\ PrintsKnown(k)' = PrintsKnown(k)
<1>1. dirs' = dirs /\ fmt' = fmt /\ sink' = sink
  BY DEF Kept
<1>2. CharsOf' = CharsOf /\ ArgsOf' = ArgsOf /\ PrintsOf' = PrintsOf
  BY <1>1 DEF CharsOf, ArgsOf, PrintsOf
<1>3. Given => Given'
  BY <1>1, <1>2 DEF Given
<1>4. \A k : dirs'[k] = dirs[k] /\ Start(k)' = Start(k) /\ Used(k)' = Used(k)
  BY <1>1, <1>2 DEF Start, Used
<1>5. \A k : Shown(k)' = Shown(k) /\ PrintsKnown(k)' = PrintsKnown(k)
  BY <1>1, <1>2 DEF Shown, PrintsKnown
<1>6. Arguments' = Arguments /\ Len(dirs)' = Len(dirs)
  BY <1>1, <1>2 DEF Arguments
<1> QED
  BY <1>3, <1>4, <1>5, <1>6

---------------------------------------------------------------------------
\* The steps in a text.

\* One character more of what is no directive.
LEMMA OddStep ==
  ASSUME Given, Kept, NEW k \in 1 .. Len(dirs), dirs[k].kind = "odd", PrintsKnown(k),
         ArgsFrom(Used(k)), ap' = ap,
         NEW j \in 0 .. Len(dirs[k].cs),
         out = Shown(k) \o First(Printed(dirs[k]), j),
         out' = out \o <<Printed(dirs[k])[j + 1]>>,
         fp' = Start(k) + 1 + j + 1
  PROVE  TextAt'
<1> DEFINE d == dirs[k]
           p == Printed(d)
           l == Len(d.cs)
<1>1. k \in DOMAIN dirs /\ DirectiveOK(d) /\ Len(dirs) \in Nat
  BY DEF Given
<1>2. /\ p \in Seq(Char) /\ l \in Nat /\ Len(p) = l + 1 /\ DirectiveArgs(d) = << >>
      /\ DirectiveChars(d) = p
  BY <1>1, OddChars
<1>3. /\ Shown(k + 1) = Shown(k) \o p /\ PrintsKnown(k + 1) /\ Shown(k) \in Seq(Char)
  BY <1>2, ShownMore
<1>4. /\ Len(dirs)' = Len(dirs) /\ Arguments' = Arguments /\ dirs'[k] = d
      /\ Start(k)' = Start(k) /\ Used(k)' = Used(k) /\ Shown(k)' = Shown(k)
      /\ PrintsKnown(k)' = PrintsKnown(k)
      /\ Start(k + 1)' = Start(k + 1) /\ Used(k + 1)' = Used(k + 1)
      /\ Shown(k + 1)' = Shown(k + 1) /\ PrintsKnown(k + 1)' = PrintsKnown(k + 1)
  BY KeptAll
<1>5. out' = Shown(k) \o First(p, j + 1)
  <2>1. j \in 0 .. Len(p) - 1
    BY <1>2
  <2> DEFINE s == Shown(k)
  <2>2. s \in Seq(Char)
    BY <1>3
  <2> HIDE DEF p, s
  <2>3. s \o First(p, j) \o <<p[j + 1]>> = s \o First(p, j + 1)
    BY <1>2, <2>1, <2>2, FirstMore
  <2> QED
    BY <2>3 DEF p, s
<1>8. fp' = Start(k) + 1 + j + 1 /\ Start(k) \in Nat /\ j \in Nat /\ Start(k) + 1 + j + 1 \in Nat
  <2>1. j \in Nat
    BY <1>2
  <2>2. Start(k) \in Nat
    BY CharPlaces
  <2> QED
    BY <2>1, <2>2
<1>6. CASE j < l
  <2>1. j + 1 \in 1 .. l
    BY <1>2, <1>6
  <2>2. dirs'[k].kind = "odd" /\ Len(dirs'[k].cs) = l
    BY <1>4
  <2>3. fp' = Start(k) + 1 + (j + 1)
    BY ONLY <1>8
  <2>4. ArgsFrom(Used(k))'
    BY <1>4 DEF ArgsFrom
  <2>5. out' = Shown(k)' \o First(Printed(dirs[k]), j + 1)'
    BY <1>4, <1>5, Zenon DEF First, Printed
  <2>6. OddText(k, j + 1)'
    BY <1>4, <2>2, <2>3, <2>4, <2>5, Zenon DEF OddText
  <2> QED
    BY <1>4, <2>1, <2>2, <2>6, Zenon DEF TextAt
<1>7. CASE ~ j < l
  <2>1. j = l /\ j + 1 = Len(p)
    BY <1>2, <1>7
  <2>2. First(p, j + 1) = p
    BY <1>2, <2>1, FirstEnds
  <2>3. out' = Shown(k + 1)'
    BY <1>3, <1>4, <1>5, <2>2, Zenon
  <2>4. Start(k + 1) = Start(k) + (l + 1) /\ Start(k) \in Nat
    BY <1>2, CharPlaces
  <2>5. fp' = Start(k + 1)' + 1
    <3>1. fp' = Start(k + 1) + 1
      <4> HIDE DEF l, p
      <4>1. l \in Nat /\ j = l
        BY ONLY <1>2, <2>1
      <4> QED
        BY ONLY <1>8, <4>1, <2>4
    <3> QED
      BY ONLY <1>4, <3>1
  <2>6. Used(k + 1) = Used(k)
    <3> DEFINE a == DirectiveArgs(d)
    <3>1. Len(a) = 0
      BY <1>2
    <3>2. Used(k + 1) = Used(k) + Len(a) /\ Used(k) \in Nat
      BY ArgPlaces
    <3> HIDE DEF a
    <3> QED
      BY ONLY <3>1, <3>2
  <2>7. ArgsFrom(Used(k + 1))'
    BY <1>4, <2>6, Zenon DEF ArgsFrom
  <2>8. Fresh(k + 1)'
    BY <1>3, <1>4, <2>3, <2>5, <2>7, Zenon DEF Fresh
  <2>9. k + 1 \in 1 .. Len(dirs)' + 1
    BY <1>1, <1>4
  <2> QED
    BY <2>8, <2>9, Zenon DEF TextAt
<1> QED
  BY <1>6, <1>7

\* What follows directive k when it was printed as a whole.
LEMMA WholeStep ==
  ASSUME Given, Kept, NEW k \in 1 .. Len(dirs), PrintsKnown(k), Printed(dirs[k]) \in Seq(Char),
         out = Shown(k), out' = out \o Printed(dirs[k]),
         fp' = Start(k) + Len(DirectiveChars(dirs[k])) + 1,
         ap' = [i \in 1 .. Len(Arguments) - Used(k + 1) |-> Arguments[Used(k + 1) + i]]
  PROVE  TextAt'
<1>1. Len(dirs) \in Nat
  BY DEF Given
<1>2. /\ Shown(k + 1) = Shown(k) \o Printed(dirs[k]) /\ PrintsKnown(k + 1)
  BY ShownMore
<1>3. /\ Len(dirs)' = Len(dirs) /\ Arguments' = Arguments
      /\ Start(k + 1)' = Start(k + 1) /\ Used(k + 1)' = Used(k + 1)
      /\ Shown(k + 1)' = Shown(k + 1) /\ PrintsKnown(k + 1)' = PrintsKnown(k + 1)
  BY KeptAll
<1>4. fp' = Start(k + 1)' + 1
  BY <1>3, CharPlaces
<1>5. ArgsFrom(Used(k + 1))'
  BY <1>3, Zenon DEF ArgsFrom
<1>6. out' = Shown(k + 1)'
  BY <1>2, <1>3, Zenon
<1>7. Fresh(k + 1)'
  BY <1>2, <1>3, <1>4, <1>5, <1>6, Zenon DEF Fresh
<1>8. k + 1 \in 1 .. Len(dirs)' + 1
  BY <1>1, <1>3
<1> QED
  BY <1>7, <1>8, Zenon DEF TextAt

\* The first character of a directive.
LEMMA FirstIs ==
  ASSUME NEW d, DirectiveOK(d)
  PROVE  /\ Len(DirectiveChars(d)) \in Nat /\ 1 <= Len(DirectiveChars(d))
         /\ d.kind = "char" => DirectiveChars(d)[1] \notin {"%", NUL} /\ DirectiveChars(d)[1] \in Char
                               /\ DirectiveChars(d) = <<DirectiveChars(d)[1]>> /\ Printed(d) = DirectiveChars(d)
                               /\ DirectiveArgs(d) = << >> /\ Printed(d) \in Seq(Char)
                               /\ Len(DirectiveChars(d)) = 1
         /\ d.kind # "char" => DirectiveChars(d)[1] = "%"
<1>1. d.kind \in {"char", "odd", "conv"}
  BY DEF DirectiveOK
<1>2. CASE d.kind = "char"
  <2> DEFINE c == d.c
  <2>1. DirectiveChars(d) = <<c>> /\ Printed(d) = <<c>> /\ DirectiveArgs(d) = << >>
    BY <1>2 DEF DirectiveChars, Printed, DirectiveArgs
  <2>2. c \in Char \ {"%", NUL}
    BY <1>2 DEF DirectiveOK
  <2> HIDE DEF c
  <2>3. <<c>> \in Seq(Char) /\ <<c>>[1] = c /\ Len(<<c>>) = 1
    BY <2>2, OneChar
  <2> QED
    BY <1>2, <2>1, <2>2, <2>3
<1>3. CASE d.kind = "odd"
  <2>1. /\ DirectiveChars(d) = Printed(d) /\ Len(Printed(d)) = Len(d.cs) + 1 /\ Len(d.cs) \in Nat
        /\ Printed(d)[1] = "%"
    BY <1>3, OddChars
  <2> QED
    BY <1>3, <2>1
<1>4. CASE d.kind = "conv"
  <2> DEFINE c == DirectiveChars(d)
             n == AtEnd(d)
  <2>1. IsConv(d)
    BY <1>4 DEF IsConv
  <2>2. Within(c, 0, <<"%">>) /\ Len(c) = n + 1 /\ n \in Nat
    BY <2>1, ConvFields
  <2> HIDE DEF c, n
  <2>3. c[1] = "%" /\ Len(c) \in Nat /\ 1 <= Len(c)
    BY <2>2 DEF Within
  <2> QED
    BY <1>4, <2>3 DEF c
<1> QED
  BY <1>1, <1>2, <1>3, <1>4

\* What is read in front of directive k.
LEMMA FreshCh ==
  ASSUME Given, NEW k \in 1 .. Len(dirs) + 1, Fresh(k)
  PROVE  \/ k = Len(dirs) + 1 /\ Ch = NUL
         \/ k \in 1 .. Len(dirs) /\ Ch = DirectiveChars(dirs[k])[1] /\ DirectiveOK(dirs[k])
<1>1. Len(dirs) \in Nat
  BY DEF Given
<1>2. fp = Start(k) + 1
  BY DEF Fresh
<1>3. CASE k = Len(dirs) + 1
  BY <1>2, <1>3, ChEnds
<1>4. CASE k # Len(dirs) + 1
  <2>1. k \in 1 .. Len(dirs) /\ k \in DOMAIN dirs
    BY <1>1, <1>4 DEF Given
  <2>2. DirectiveOK(dirs[k])
    BY <2>1 DEF Given
  <2>3. 1 \in 1 .. Len(DirectiveChars(dirs[k]))
    BY <2>2, FirstIs
  <2> QED
    BY <1>2, <2>1, <2>2, <2>3, ChIs
<1> QED
  BY <1>3, <1>4

\* In what is not a directive.
LEMMA OddCh ==
  ASSUME Given, NEW k \in 1 .. Len(dirs), NEW j \in 1 .. Len(dirs[k].cs), OddText(k, j)
  PROVE  /\ Ch = Printed(dirs[k])[j + 1] /\ Ch \in Char \ {"%", NUL} /\ DirectiveOK(dirs[k])
<1> DEFINE d == dirs[k]
<1>1. DirectiveOK(d) /\ d.kind = "odd" /\ fp = Start(k) + 1 + j
  BY DEF Given, OddText
<1>2. /\ DirectiveChars(d) = Printed(d) /\ Len(Printed(d)) = Len(d.cs) + 1 /\ Len(d.cs) \in Nat
      /\ \A i \in 1 .. Len(d.cs) : Printed(d)[i + 1] = d.cs[i]
      /\ d.cs \in Seq(Char \ {"%", NUL})
  BY <1>1, OddChars
<1> HIDE DEF d
<1>3. j \in 1 .. Len(d.cs)
  BY DEF d
<1>4. j + 1 \in 1 .. Len(DirectiveChars(d)) /\ fp = Start(k) + (j + 1)
  <2>1. Start(k) \in Nat
    BY CharPlaces
  <2> QED
    BY <1>1, <1>2, <1>3, <2>1
<1>5. Ch = DirectiveChars(d)[j + 1]
  BY <1>4, ChIs DEF d
<1>6. Printed(d)[j + 1] = d.cs[j] /\ d.cs[j] \in Char \ {"%", NUL}
  <2> DEFINE s == d.cs
  <2>1. s \in Seq(Char \ {"%", NUL}) /\ j \in 1 .. Len(s)
    BY <1>2, <1>3
  <2> HIDE DEF s
  <2>2. s[j] \in Char \ {"%", NUL}
    BY <2>1
  <2> QED
    BY <1>2, <1>3, <2>2 DEF s
<1> QED
  BY <1>1, <1>2, <1>5, <1>6 DEF d

\* A character of a text.
LEMMA TextStep ==
  ASSUME Given, TextAt, Text
  PROVE  TextAt' /\ Ch \in Char /\ Put(<<Ch>>)
<1>1. /\ Ch \notin {"%", NUL} /\ fp' = fp + 1 /\ ap' = ap /\ Kept /\ Put(<<Ch>>)
      /\ out' = out \o <<Ch>>
  BY DEF Text, Kept, Put
<1>2. ASSUME NEW k \in 1 .. Len(dirs) + 1, Fresh(k)
      PROVE  TextAt' /\ Ch \in Char
  <2> DEFINE d == dirs[k]
  <2>1. k \in 1 .. Len(dirs) /\ Ch = DirectiveChars(d)[1] /\ DirectiveOK(d)
    BY <1>1, <1>2, FreshCh
  <2>2. /\ Ch \in Char /\ Printed(d) = <<Ch>> /\ DirectiveArgs(d) = << >> /\ Printed(d) \in Seq(Char)
        /\ Len(DirectiveChars(d)) = 1
    BY <1>1, <2>1, FirstIs
  <2>3. fp = Start(k) + 1 /\ ArgsFrom(Used(k)) /\ out = Shown(k) /\ PrintsKnown(k)
    BY <1>2 DEF Fresh
  <2>4. fp' = Start(k) + Len(DirectiveChars(d)) + 1
    BY <1>1, <2>2, <2>3
  <2>5. Used(k + 1) = Used(k)
    BY <2>1, <2>2, ArgPlaces
  <2>6. ap' = [i \in 1 .. Len(Arguments) - Used(k + 1) |-> Arguments[Used(k + 1) + i]]
    BY <1>1, <2>3, <2>5 DEF ArgsFrom
  <2>7. out' = out \o Printed(d)
    BY <1>1, <2>2
  <2> QED
    BY <1>1, <2>1, <2>2, <2>3, <2>4, <2>6, <2>7, WholeStep
<1>3. ASSUME NEW k \in 1 .. Len(dirs), NEW j \in 1 .. Len(dirs[k].cs), OddText(k, j)
      PROVE  TextAt' /\ Ch \in Char
  <2> DEFINE d == dirs[k]
  <2>1. Ch = Printed(d)[j + 1] /\ Ch \in Char
    BY <1>3, OddCh
  <2>2. /\ d.kind = "odd" /\ fp = Start(k) + 1 + j /\ ArgsFrom(Used(k)) /\ PrintsKnown(k)
        /\ out = Shown(k) \o First(Printed(d), j)
    BY <1>3 DEF OddText
  <2>3. j \in 0 .. Len(d.cs)
    OBVIOUS
  <2>4. fp' = Start(k) + 1 + j + 1
    BY <1>1, <2>2
  <2> QED
    BY <1>1, <2>1, <2>2, <2>3, <2>4, OddStep
<1> QED
  BY <1>1, <1>2, <1>3 DEF TextAt

\* At the end everything was printed.
LEMMA TextEnds ==
  ASSUME Given, TextAt, Ch = NUL
  PROVE  out = Meant
<1>1. NUL # "%"
  BY DEF NUL
<1>2. ASSUME NEW k \in 1 .. Len(dirs) + 1, Fresh(k)
      PROVE  out = Meant
  <2>1. k = Len(dirs) + 1
    BY <1>1, <1>2, FreshCh, FirstIs
  <2> QED
    BY <1>2, <2>1, Ends DEF Fresh
<1>3. ASSUME NEW k \in 1 .. Len(dirs), NEW j \in 1 .. Len(dirs[k].cs), OddText(k, j)
      PROVE  FALSE
  BY <1>3, OddCh
<1> QED
  BY <1>2, <1>3 DEF TextAt

---------------------------------------------------------------------------
\* Numbers read.

\* That f is the function NumberTo(e) defines.
Numbers(f, e) ==
  f = [k \in fp - 1 .. e |-> IF k < fp THEN 0 ELSE f[k - 1] * 10 + DigitValue(fmt[k])]

\* A number of one digit or of two.
LEMMA NumberToIs ==
  ASSUME fp \in Nat, NEW e \in fp .. fp + 1,
         \A k \in fp .. e : DigitValue(fmt[k]) \in Nat
  PROVE  NumberTo(e) = IF e = fp THEN DigitValue(fmt[fp])
                       ELSE DigitValue(fmt[fp]) * 10 + DigitValue(fmt[fp + 1])
<1> DEFINE v(k) == DigitValue(fmt[k])
           a == v(fp)
           b == v(fp + 1)
           f == CHOOSE h : Numbers(h, e)
           g == [k \in fp - 1 .. e |-> IF k < fp THEN 0 ELSE IF k = fp THEN a ELSE a * 10 + b]
<1>1. a \in Nat /\ (e = fp + 1 => b \in Nat) /\ e \in Nat /\ fp \in Nat /\ (e = fp \/ e = fp + 1)
  OBVIOUS
<1>2. Numbers(g, e)
  <2> DEFINE r == [k \in fp - 1 .. e |-> IF k < fp THEN 0 ELSE g[k - 1] * 10 + v(k)]
  <2>1. g = r
    <3> SUFFICES ASSUME NEW k \in fp - 1 .. e
                 PROVE  g[k] = r[k]
      OBVIOUS
    <3>1. CASE k < fp
      BY <3>1
    <3>2. CASE k = fp
      <4>1. g[k - 1] = 0 /\ g[k] = a /\ r[k] = g[k - 1] * 10 + v(k) /\ v(k) = a
        BY <3>2
      <4> HIDE DEF g, r, v, a
      <4> QED
        BY <1>1, <4>1
    <3>3. CASE k = fp + 1
      <4>1. k - 1 = fp /\ fp \in fp - 1 .. e
        BY <1>1, <3>3
      <4>2. g[fp] = a
        BY <4>1
      <4>3. g[k] = a * 10 + b
        BY <1>1, <3>3
      <4>4. r[k] = g[k - 1] * 10 + v(k) /\ v(k) = b
        BY <1>1, <3>3
      <4> HIDE DEF g, r, v, a, b
      <4> QED
        BY <4>1, <4>2, <4>3, <4>4
    <3> QED
      BY <1>1, <3>1, <3>2, <3>3
  <2> HIDE DEF g
  <2> QED
    BY <2>1 DEF Numbers
<1> HIDE DEF g
<1>3. Numbers(f, e)
  BY <1>2
<1>4. NumberTo(e) = f[e]
  BY DEF NumberTo, Numbers
<1> HIDE DEF f
<1> DEFINE V(h, k) == IF k < fp THEN 0 ELSE h[k - 1] * 10 + v(k)
           r == [k \in fp - 1 .. e |-> V(f, k)]
<1>5. f = r
  BY <1>3 DEF Numbers
<1>6. \A k \in fp - 1 .. e : r[k] = V(f, k)
  OBVIOUS
<1> HIDE DEF r
<1>7. \A k \in fp - 1 .. e : f[k] = V(f, k)
  BY <1>5, <1>6
<1>8. f[fp - 1] = 0
  <2>1. fp - 1 \in fp - 1 .. e /\ fp - 1 < fp
    BY <1>1
  <2> QED
    BY <1>7, <2>1
<1>9. f[fp] = a
  <2>1. fp \in fp - 1 .. e /\ ~ fp < fp
    BY <1>1
  <2>2. f[fp] = f[fp - 1] * 10 + v(fp)
    BY <1>7, <2>1
  <2> HIDE DEF v
  <2> QED
    BY <1>1, <1>8, <2>2
<1>10. CASE e = fp
  BY <1>4, <1>9, <1>10
<1>11. CASE e = fp + 1
  <2>1. e \in fp - 1 .. e /\ ~ e < fp /\ e - 1 = fp
    BY <1>1, <1>11
  <2>2. f[e] = f[e - 1] * 10 + v(e)
    BY <1>7, <2>1
  <2>3. f[e] = a * 10 + b
    BY <1>9, <1>11, <2>1, <2>2
  <2> QED
    BY <1>1, <1>4, <1>11, <2>3
<1> QED
  BY <1>1, <1>10, <1>11

\* What a character after a % leads to.
LEMMA FieldOf ==
  ASSUME at = "escape", FmtNext
  PROVE  /\ Ch \in {"-", "0"} => PadFlag
         /\ Ch = "#" => AltFlag
         /\ Ch = "l" => LongFlag
         /\ Ch = "." => Dot
         /\ Ch = "*" => Star
         /\ Ch \in FieldDigit \ {"0"} => WidthField
         /\ Ch \notin Escapes => Unrecognized
<1>1. ~CallRefused /\ ~CallFormat /\ ~Text /\ ~FormatEnds /\ ~Escape
  BY DEF CallRefused, CallFormat, Text, FormatEnds, Escape
<1> DEFINE Convs == \/ CharConv \/ PercentConv \/ ErrorConv \/ StringConv
                    \/ SignedConv \/ UnsignedConv \/ PointerConv
<1>2. Convs => Ch \in Conversions
  BY DEF CharConv, PercentConv, ErrorConv, StringConv, SignedConv, UnsignedConv, PointerConv, At,
         Conversions, Numeric, BaseOf
<1>3. /\ PadFlag => Ch \in {"-", "0"}
      /\ AltFlag => Ch = "#"
      /\ LongFlag => Ch = "l"
      /\ Dot => Ch = "."
      /\ Star => Ch = "*"
      /\ WidthField => Ch \in FieldDigit \ {"0"}
      /\ Unrecognized => Ch \notin Escapes
  BY DEF PadFlag, AltFlag, LongFlag, Dot, Star, WidthField, Unrecognized
<1> HIDE DEF Convs
<1>4. Convs \/ PadFlag \/ AltFlag \/ LongFlag \/ Dot \/ Star \/ WidthField \/ Unrecognized
  BY <1>1 DEF FmtNext, Convs
<1>5. /\ "-" \notin FieldDigit /\ "#" \notin FieldDigit /\ "l" \notin FieldDigit /\ "." \notin FieldDigit /\ "*" \notin FieldDigit
      /\ "0" \in FieldDigit /\ \A c \in Conversions : c \notin FieldDigit
  BY DEF FieldDigit, DigitChars, Conversions, Numeric
<1>6. /\ "-" \notin Conversions /\ "#" \notin Conversions /\ "l" \notin Conversions
      /\ "." \notin Conversions /\ "*" \notin Conversions /\ "0" \notin Conversions
  BY DEF Conversions, Numeric
<1>7. /\ FieldDigit \subseteq Escapes /\ Conversions \subseteq Escapes
      /\ "-" \in Escapes /\ "#" \in Escapes /\ "l" \in Escapes /\ "." \in Escapes /\ "*" \in Escapes
  BY DEF Escapes
<1>8. Ch \in {"-", "0"} => PadFlag
  BY <1>2, <1>3, <1>4, <1>5, <1>6, <1>7
<1>9. /\ Ch = "#" => AltFlag
      /\ Ch = "l" => LongFlag
      /\ Ch = "." => Dot
      /\ Ch = "*" => Star
  BY <1>2, <1>3, <1>4, <1>5, <1>6, <1>7
<1>10. Ch \in FieldDigit \ {"0"} => WidthField
  BY <1>2, <1>3, <1>4, <1>5, <1>6, <1>7
<1>11. Ch \notin Escapes => Unrecognized
  BY <1>2, <1>3, <1>4, <1>5, <1>6, <1>7
<1> QED
  BY <1>8, <1>9, <1>10, <1>11

---------------------------------------------------------------------------
\* A step that reads a field: what it leaves.
FieldKept == Kept /\ at' = at /\ answer' = answer /\ UNCHANGED sinkVars

\* What stands where a text is within another.
LEMMA WithinAt ==
  ASSUME NEW c, NEW o \in Nat, NEW t, Within(c, o, t), NEW i \in 1 .. Len(t)
  PROVE  c[o + i] = t[i]
BY DEF Within

\* The digits of a number.
LEMMA DigitsRead ==
  ASSUME Given, at = "escape", FmtNext,
         NEW k \in 1 .. Len(dirs), NEW c, c = DirectiveChars(dirs[k]),
         NEW o \in Nat, NEW n \in 1 .. 99, NEW s, NumberShape(s, n, FALSE), Within(c, o, s),
         o + Len(s) + 1 <= Len(c), c[o + Len(s) + 1] \notin FieldDigit,
         fp = Start(k) + (o + 1)
  PROVE  /\ FieldKept /\ ProcessPrecision(n) /\ ap' = ap
         /\ fp' = Start(k) + (o + Len(s) + 1)
<1> DEFINE l == Len(s)
<1>1. /\ l \in 1 .. 2 /\ s[1] # "0" /\ \A i \in 1 .. l : s[i] \in FieldDigit
      /\ n = IF l = 1 THEN DigitValue(s[1]) ELSE DigitValue(s[1]) * 10 + DigitValue(s[2])
  <2>1. /\ Len(s) \in 0 .. 2 /\ Len(s) # 0 /\ s[1] # "0" /\ \A i \in 1 .. Len(s) : s[i] \in FieldDigit
        /\ n = IF Len(s) = 1 THEN DigitValue(s[1]) ELSE DigitValue(s[1]) * 10 + DigitValue(s[2])
    BY DEF NumberShape
  <2> QED
    BY <2>1
<1>2. \A i \in 1 .. l : c[o + i] = s[i]
  BY DEF Within
<1> HIDE DEF l
<1>3. Start(k) \in Nat /\ Len(c) \in Nat /\ o + l + 1 \in 1 .. Len(c)
  <2>1. Start(k) \in Nat /\ o + l + 1 <= Len(c)
    BY CharPlaces DEF l
  <2>2. k \in DOMAIN dirs
    BY DEF Given
  <2>3. c \in Seq(FmtChar)
    BY <2>2, CharsTyped DEF Given
  <2>4. Len(c) \in Nat
    BY <2>3
  <2> QED
    BY <1>1, <2>1, <2>4
<1>4. \A x \in 1 .. Len(c) : fmt[Start(k) + x] = c[x]
  BY CharPlaces
<1>5. Start(k) + Len(c) <= Len(fmt) /\ Len(fmt) \in Nat
  <2>1. Start(k + 1) = Start(k) + Len(c) /\ Start(k + 1) <= Len(fmt)
    BY CharPlaces
  <2> QED
    BY <2>1, Ends
<1> DEFINE z == Start(k)
<1>6. \A i \in 1 .. l : fmt[z + (o + i)] = s[i]
  <2>1. \A i \in 1 .. l : o + i \in 1 .. Len(c)
    BY <1>1, <1>3
  <2> QED
    BY <1>2, <1>4, <2>1
<1>7. fmt[z + (o + l + 1)] \notin FieldDigit
  BY <1>3, <1>4 DEF l
<1>8. fp = z + (o + 1) /\ z \in Nat /\ z + (o + l + 1) <= Len(fmt)
  BY <1>3, <1>5
<1> HIDE DEF z
<1>9. fp \in Nat /\ fp <= Len(fmt)
  BY <1>1, <1>5, <1>8
<1>10. Ch \in FieldDigit \ {"0"}
  <2>1. fmt[z + (o + 1)] = s[1] /\ s[1] \in FieldDigit
    BY <1>1, <1>6
  <2>2. Ch = fmt[fp]
    BY <1>5, <1>9 DEF Ch
  <2> QED
    BY <1>1, <1>8, <2>1, <2>2
<1>11. WidthField
  BY <1>10, FieldOf
<1>12. PICK e \in fp .. Len(fmt) :
         /\ \A i \in fp .. e : fmt[i] \in FieldDigit
         /\ e < Len(fmt) => fmt[e + 1] \notin FieldDigit
         /\ ProcessPrecision(NumberTo(e))
         /\ fp' = e + 1
  BY <1>11 DEF WidthField
<1> DEFINE last == z + (o + l)
<1>13. \A i \in fp .. last : fmt[i] \in FieldDigit
  <2> SUFFICES ASSUME NEW i \in fp .. last
               PROVE  fmt[i] \in FieldDigit
    OBVIOUS
  <2>1. i - z - o \in 1 .. l /\ z + (o + (i - z - o)) = i
    BY <1>1, <1>8
  <2> QED
    BY <1>1, <1>6, <2>1
<1>14. fmt[last + 1] \notin FieldDigit /\ last < Len(fmt) /\ last \in Nat /\ fp <= last
       /\ last = fp + l - 1
  <2>1. last + 1 = z + (o + l + 1)
    BY <1>1, <1>8
  <2> QED
    BY <1>1, <1>7, <1>8, <2>1
<1> HIDE DEF last
<1>15. e = last
  <2>1. ~ e < last
    <3> SUFFICES ASSUME e < last
                 PROVE  FALSE
      OBVIOUS
    <3>1. e + 1 \in fp .. last /\ e < Len(fmt)
      BY <1>5, <1>9, <1>14
    <3> QED
      BY <1>12, <1>13, <3>1
  <2>2. ~ last < e
    <3> SUFFICES ASSUME last < e
                 PROVE  FALSE
      OBVIOUS
    <3>1. last + 1 \in fp .. e
      BY <1>5, <1>9, <1>14
    <3> QED
      BY <1>12, <1>14, <3>1
  <2> QED
    BY <1>5, <1>9, <1>14, <2>1, <2>2
<1>16. NumberTo(e) = n
  <2>1. \A d \in FieldDigit : DigitValue(d) \in Nat
    <3> SUFFICES ASSUME NEW d \in FieldDigit
                 PROVE  DigitValue(d) \in Nat
      OBVIOUS
    <3>1. PICK i \in 1 .. 10 : d = DigitChars[i]
      BY DEF FieldDigit
    <3>2. i - 1 \in 0 .. 9 /\ i - 1 + 1 = i
      OBVIOUS
    <3>3. DigitValue(DigitChars[i - 1 + 1]) = i - 1
      BY <3>2, DigitIs
    <3> QED
      BY <3>1, <3>2, <3>3
  <2>2. e \in fp .. fp + 1 /\ \A i \in fp .. e : DigitValue(fmt[i]) \in Nat
    <3>1. e \in fp .. fp + 1
      BY ONLY <1>1, <1>9, <1>14, <1>15
    <3>2. \A i \in fp .. e : fmt[i] \in FieldDigit
      BY <1>12
    <3> QED
      BY ONLY <2>1, <3>1, <3>2, Zenon
  <2>3. NumberTo(e) = IF e = fp THEN DigitValue(fmt[fp])
                      ELSE DigitValue(fmt[fp]) * 10 + DigitValue(fmt[fp + 1])
    BY <1>9, <2>2, NumberToIs
  <2>4. fmt[fp] = s[1] /\ (l = 2 => fmt[fp + 1] = s[2])
    <3>1. fp + 1 = z + (o + 2)
      BY <1>8
    <3> QED
      BY <1>1, <1>6, <1>8, <3>1
  <2>5. e = fp <=> l = 1
    BY <1>1, <1>9, <1>14, <1>15
  <2> QED
    BY <1>1, <2>3, <2>4, <2>5
<1>17. fp' = z + (o + l + 1)
  BY <1>1, <1>8, <1>12, <1>15 DEF last
<1>18. FieldKept /\ ap' = ap
  BY <1>11 DEF WidthField, Field, FieldKept, Kept
<1> QED
  BY <1>12, <1>16, <1>17, <1>18 DEF z, l

\* A star.
LEMMA StarRead ==
  ASSUME Given, at = "escape", FmtNext, Ch = "*",
         NEW u \in Nat, u < Len(Arguments), ArgsFrom(u)
  PROVE  /\ FieldKept /\ ProcessPrecision(Arguments[u + 1])
         /\ ap' = [i \in 1 .. Len(Arguments) - (u + 1) |-> Arguments[u + 1 + i]]
         /\ fp' = fp + 1
<1>1. Star
  BY FieldOf
<1>2. FieldKept
  BY <1>1 DEF Star, Field, FieldKept, Kept
<1> QED
  BY <1>1, <1>2, ArgTaken DEF Star

\* The numbers of directive k.
LEMMA NumberOf ==
  ASSUME NEW k, IsConv(dirs[k])
  PROVE  \A m \in 0 .. 99 : NumberShape(NumberChars(dirs[k], m), m, dirs[k].stars)
<1>1. dirs[k].stars \in BOOLEAN
  BY DEF IsConv, DirectiveOK
<1> TAKE m \in 0 .. 99
<1> QED
  BY <1>1, NumberIs

\* A number of a conversion, in whichever form it has.
LEMMA NumberRead ==
  ASSUME Given, at = "escape", FmtNext,
         NEW k \in 1 .. Len(dirs), NEW c, c = DirectiveChars(dirs[k]), IsConv(dirs[k]),
         NEW o \in Nat, NEW n \in 1 .. 99, NEW s, s = NumberChars(dirs[k], n), Within(c, o, s),
         o + Len(s) + 1 <= Len(c), c[o + Len(s) + 1] \notin FieldDigit,
         fp = Start(k) + (o + 1),
         NEW u \in Nat, ArgsFrom(u),
         dirs[k].stars => u < Len(Arguments) /\ Arguments[u + 1] = n
  PROVE  /\ FieldKept /\ ProcessPrecision(n)
         /\ fp' = Start(k) + (o + Len(s) + 1)
         /\ ArgsFrom(u + (IF dirs[k].stars THEN 1 ELSE 0))'
<1> DEFINE st == dirs[k].stars
<1>1. st \in BOOLEAN /\ n \in 0 .. 99
  BY DEF IsConv, DirectiveOK
<1>2. NumberShape(s, n, st)
  <2>1. NumberShape(NumberChars(dirs[k], n), n, dirs[k].stars)
    <3>1. \A m \in 0 .. 99 : NumberShape(NumberChars(dirs[k], m), m, dirs[k].stars)
      BY NumberOf, Zenon
    <3> QED
      BY ONLY <1>1, <3>1, Zenon
  <2>2. s = NumberChars(dirs[k], n)
    OBVIOUS
  <2> QED
    BY ONLY <2>1, <2>2, Zenon
<1>a. Kept => Arguments' = Arguments /\ dirs'[k] = dirs[k]
  BY KeptAll
<1> HIDE DEF st
<1>3. CASE st
  <2>1. Len(s) = 1 /\ s[1] = "*"
    <3>1. n # 0
      OBVIOUS
    <3> QED
      BY <1>2, <1>3, <3>1, Zenon DEF NumberShape
  <2>2. c[o + 1] = "*" /\ o + 1 \in 1 .. Len(c)
    <3>1. c[o + 1] = s[1]
      BY <2>1, WithinAt
    <3>2. k \in DOMAIN dirs
      BY DEF Given
    <3>3. c \in Seq(FmtChar)
      BY <3>2, CharsTyped DEF Given
    <3>4. Len(c) \in Nat
      BY <3>3
    <3> QED
      BY <2>1, <3>1, <3>4
  <2>3. Ch = "*" /\ Start(k) \in Nat
    BY <2>2, ChIs
  <2>4. u < Len(Arguments) /\ Arguments[u + 1] = n
    BY <1>3 DEF st
  <2>5. /\ FieldKept /\ ProcessPrecision(n)
        /\ ap' = [i \in 1 .. Len(Arguments) - (u + 1) |-> Arguments[u + 1 + i]]
        /\ fp' = fp + 1
    BY <2>3, <2>4, StarRead
  <2>6. fp' = Start(k) + (o + Len(s) + 1)
    BY <2>1, <2>3, <2>5
  <2>7. Arguments' = Arguments
    BY <1>a, <2>5 DEF FieldKept
  <2>8. ArgsFrom(u + 1)'
    BY <2>5, <2>7 DEF ArgsFrom
  <2>9. dirs'[k].stars
    BY <1>3, <1>a, <2>5 DEF FieldKept, st
  <2> QED
    BY <1>3, <2>5, <2>6, <2>8, <2>9 DEF st
<1>4. CASE ~st
  <2>1. NumberShape(s, n, FALSE)
    BY <1>1, <1>2, <1>4
  <2>2. /\ FieldKept /\ ProcessPrecision(n) /\ ap' = ap
        /\ fp' = Start(k) + (o + Len(s) + 1)
    BY <2>1, DigitsRead
  <2>3. Arguments' = Arguments
    BY <1>a, <2>2 DEF FieldKept
  <2>4. ArgsFrom(u + 0)'
    BY <2>2, <2>3 DEF ArgsFrom
  <2>5. ~dirs'[k].stars
    BY <1>4, <1>a, <2>2 DEF FieldKept, st
  <2> QED
    BY <1>4, <2>2, <2>4, <2>5 DEF st
<1> QED
  BY <1>1, <1>3, <1>4

---------------------------------------------------------------------------
\* The fields of a conversion as they are read.

WidthLen(d) == Len(NumberChars(d, d.width))
PrecLen(d) == Len(NumberChars(d, d.prec))

\* How wide they are.
SpansOf(d) ==
  /\ d.pad \in {SPACE, "-", "0"} /\ d.alt \in BOOLEAN /\ d.stars \in BOOLEAN
  /\ d.ell \in Nat /\ d.width \in 0 .. 99 /\ d.prec \in 0 .. 99
  /\ AtAlt(d) = IF d.pad = SPACE THEN 1 ELSE 2
  /\ AtWidth(d) = AtAlt(d) + (IF d.alt THEN 1 ELSE 0)
  /\ WidthLen(d) \in 0 .. 2 /\ (d.width = 0 <=> WidthLen(d) = 0)
  /\ AtPrec(d) = AtWidth(d) + WidthLen(d)
  /\ PrecLen(d) \in 0 .. 2 /\ (d.prec = 0 <=> PrecLen(d) = 0)
  /\ AtEll(d) = AtPrec(d) + (IF d.prec = 0 THEN 0 ELSE 1 + PrecLen(d))
  /\ AtEnd(d) = AtEll(d) + d.ell

\* Where the fields of a conversion begin and end.
LEMMA Spans ==
  ASSUME NEW d, IsConv(d)
  PROVE  SpansOf(d)
<1>1. /\ d.pad \in {SPACE, "-", "0"} /\ d.alt \in BOOLEAN /\ d.stars \in BOOLEAN
      /\ d.ell \in Nat /\ d.width \in 0 .. 99 /\ d.prec \in 0 .. 99
  BY DEF IsConv, DirectiveOK
<1>2. AtAlt(d) = IF d.pad = SPACE THEN 1 ELSE 2
  <2>1. Len(<< >>) = 0 /\ Len(<<d.pad>>) = 1
    OBVIOUS
  <2>2. Len(FlagChars(d)) = IF d.pad = SPACE THEN 0 ELSE 1
    <3>1. CASE d.pad = SPACE
      <4>1. FlagChars(d) = << >>
        BY <3>1, Zenon DEF FlagChars
      <4> QED
        BY <2>1, <3>1, <4>1, Zenon
    <3>2. CASE d.pad # SPACE
      <4>1. FlagChars(d) = <<d.pad>>
        BY <3>2, Zenon DEF FlagChars
      <4> QED
        BY <2>1, <3>2, <4>1, Zenon
    <3> QED
      BY <3>1, <3>2
  <2> QED
    BY <2>2 DEF AtAlt
<1>3. AtWidth(d) = AtAlt(d) + (IF d.alt THEN 1 ELSE 0)
  <2>1. Len(<< >>) = 0 /\ Len(<<"#">>) = 1
    OBVIOUS
  <2>2. Len(AltChars(d)) = IF d.alt THEN 1 ELSE 0
    <3>1. CASE d.alt
      <4>1. AltChars(d) = <<"#">>
        BY <3>1, Zenon DEF AltChars
      <4> QED
        BY <2>1, <3>1, <4>1, Zenon
    <3>2. CASE ~d.alt
      <4>1. AltChars(d) = << >>
        BY <3>2, Zenon DEF AltChars
      <4> QED
        BY <2>1, <3>2, <4>1, Zenon
    <3> QED
      BY <3>1, <3>2
  <2> QED
    BY <2>2 DEF AtWidth
<1>4. \A n \in 0 .. 99 : NumberShape(NumberChars(d, n), n, d.stars)
  <2> TAKE n \in 0 .. 99
  <2> QED
    BY <1>1, NumberIs
<1>5. \A n \in 0 .. 99 : /\ Len(NumberChars(d, n)) \in 0 .. 2
                         /\ n = 0 <=> Len(NumberChars(d, n)) = 0
                         /\ NumberChars(d, n) \in Seq(FmtChar)
  BY ONLY <1>4, Zenon DEF NumberShape
<1>6. /\ WidthLen(d) \in 0 .. 2 /\ (d.width = 0 <=> WidthLen(d) = 0)
      /\ PrecLen(d) \in 0 .. 2 /\ (d.prec = 0 <=> PrecLen(d) = 0)
  BY ONLY <1>1, <1>5, Zenon DEF WidthLen, PrecLen
<1>7. AtPrec(d) = AtWidth(d) + WidthLen(d)
  BY Zenon DEF AtPrec, WidthLen
<1>8. AtEll(d) = AtPrec(d) + (IF d.prec = 0 THEN 0 ELSE 1 + PrecLen(d))
  <2> DEFINE s == NumberChars(d, d.prec)
  <2>1. s \in Seq(FmtChar)
    BY ONLY <1>1, <1>5, Zenon
  <2>2. <<".">> \in Seq(FmtChar)
    BY OneChar DEF FmtChar, Escapes
  <2> HIDE DEF s
  <2>3. Len(<<".">> \o s) = 1 + Len(s) /\ Len(<< >>) = 0
    BY <2>1, <2>2
  <2>4. Len(PrecChars(d)) = IF d.prec = 0 THEN 0 ELSE 1 + PrecLen(d)
    BY ONLY <2>3, Zenon DEF PrecChars, PrecLen, s
  <2> QED
    BY <2>4, Zenon DEF AtEll
<1>9. AtEnd(d) = AtEll(d) + d.ell
  BY DEF AtEnd
<1> QED
  BY ONLY <1>1, <1>2, <1>3, <1>6, <1>7, <1>8, <1>9, Zenon DEF SpansOf

\* What they hold.
ReadsOf(d, c) ==
  /\ AtEnd(d) \in Nat /\ Len(c) = AtEnd(d) + 1
  /\ d.pad # SPACE => c[2] = d.pad
  /\ d.alt => c[AtAlt(d) + 1] = "#"
  /\ Within(c, AtWidth(d), NumberChars(d, d.width))
  /\ d.prec # 0 => c[AtPrec(d) + 1] = "." /\ Within(c, AtPrec(d) + 1, NumberChars(d, d.prec))
  /\ \A x \in AtEll(d) + 1 .. AtEnd(d) : c[x] = "l"
  /\ c[AtEnd(d) + 1] = d.c
  /\ c[AtPrec(d) + 1] \notin FieldDigit /\ c[AtEll(d) + 1] \notin FieldDigit

\* The characters of a conversion, field by field.
LEMMA Reads ==
  ASSUME NEW d, IsConv(d)
  PROVE  ReadsOf(d, DirectiveChars(d))
<1> DEFINE c == DirectiveChars(d)
           l2 == AtAlt(d)
           l3 == AtWidth(d)
           l4 == AtPrec(d)
           l5 == AtEll(d)
           l6 == AtEnd(d)
           e1 == FlagChars(d)
           e2 == AltChars(d)
           e3 == NumberChars(d, d.width)
           e4 == PrecChars(d)
           e5 == [k \in 1 .. d.ell |-> "l"]
           e6 == <<d.c>>
           pn == NumberChars(d, d.prec)
<1>1. /\ c \in Seq(FmtChar)
      /\ l2 \in Nat /\ l3 \in Nat /\ l4 \in Nat /\ l5 \in Nat /\ l6 \in Nat
      /\ Len(c) = l6 + 1
      /\ Within(c, 1, e1) /\ Within(c, l2, e2) /\ Within(c, l3, e3)
      /\ Within(c, l4, e4) /\ Within(c, l5, e5) /\ Within(c, l6, e6)
  BY ConvFields, Zenon
<1>2. SpansOf(d)
  BY Spans
<1>3. /\ d.ell \in Nat /\ d.prec \in 0 .. 99 /\ l6 = l5 + d.ell
      /\ l5 = l4 + (IF d.prec = 0 THEN 0 ELSE 1 + PrecLen(d)) /\ PrecLen(d) \in 0 .. 2
  BY <1>2 DEF SpansOf
<1>4. d.pad # SPACE => c[2] = d.pad
  <2> SUFFICES ASSUME d.pad # SPACE
               PROVE  c[2] = d.pad
    OBVIOUS
  <2> DEFINE p == d.pad
  <2>1. e1 = <<p>>
    BY Zenon DEF FlagChars
  <2> HIDE DEF c, p, e1
  <2>2. Within(c, 1, <<p>>)
    BY <1>1, <2>1
  <2>3. c[1 + 1] = <<p>>[1] /\ <<p>>[1] = p
    BY <2>2 DEF Within
  <2>4. 1 + 1 = 2
    OBVIOUS
  <2> QED
    BY <2>3, <2>4 DEF p
<1>5. d.alt => c[l2 + 1] = "#"
  <2> SUFFICES ASSUME d.alt
               PROVE  c[l2 + 1] = "#"
    OBVIOUS
  <2>1. e2 = <<"#">>
    BY Zenon DEF AltChars
  <2> HIDE DEF c, l2, e2
  <2>2. Within(c, l2, <<"#">>)
    BY <1>1, <2>1
  <2> QED
    BY <2>2 DEF Within
<1>6. d.prec # 0 => c[l4 + 1] = "." /\ Within(c, l4 + 1, pn)
  <2> SUFFICES ASSUME d.prec # 0
               PROVE  c[l4 + 1] = "." /\ Within(c, l4 + 1, pn)
    OBVIOUS
  <2>1. e4 = <<".">> \o pn
    BY Zenon DEF PrecChars
  <2>2. pn \in Seq(FmtChar)
    <3>1. \A n \in 0 .. 99 : NumberShape(NumberChars(d, n), n, d.stars)
      <4>1. d.stars \in BOOLEAN
        BY <1>2 DEF SpansOf
      <4> TAKE n \in 0 .. 99
      <4> QED
        BY <4>1, NumberIs
    <3> QED
      BY ONLY <1>3, <3>1, Zenon DEF NumberShape
  <2>3. <<".">> \in Seq(FmtChar)
    BY OneChar DEF FmtChar, Escapes
  <2> HIDE DEF c, l4, e4, pn
  <2>4. /\ Len(<<".">> \o pn) = 1 + Len(pn) /\ (<<".">> \o pn)[1] = "." /\ Len(pn) \in Nat
        /\ \A i \in 1 .. Len(pn) : (<<".">> \o pn)[i + 1] = pn[i]
    BY <2>2, <2>3
  <2> DEFINE t == <<".">> \o pn
  <2>5. Within(c, l4, t)
    BY ONLY <1>1, <2>1, Zenon
  <2>6. /\ Len(t) = 1 + Len(pn) /\ t[1] = "." /\ Len(pn) \in Nat
        /\ \A i \in 1 .. Len(pn) : t[i + 1] = pn[i]
    BY <2>4
  <2> HIDE DEF t
  <2>7. l4 \in Nat /\ l4 + Len(t) <= Len(c) /\ \A i \in 1 .. Len(t) : c[l4 + i] = t[i]
    BY <1>1, <2>5 DEF Within
  <2>8. c[l4 + 1] = "."
    BY ONLY <2>6, <2>7
  <2>9. l4 + 1 + Len(pn) <= Len(c)
    <3>1. Len(c) \in Nat
      BY <1>1
    <3> QED
      BY ONLY <2>6, <2>7, <3>1
  <2>10. \A i \in 1 .. Len(pn) : c[l4 + 1 + i] = pn[i]
    <3> SUFFICES ASSUME NEW i \in 1 .. Len(pn)
                 PROVE  c[l4 + 1 + i] = pn[i]
      OBVIOUS
    <3>1. i + 1 \in 1 .. Len(t) /\ l4 + 1 + i = l4 + (i + 1)
      BY <2>6, <2>7
    <3> QED
      BY <2>6, <2>7, <3>1
  <2> QED
    BY <2>8, <2>9, <2>10 DEF Within
<1>7. \A x \in l5 + 1 .. l6 : c[x] = "l"
  <2> DEFINE m == d.ell
  <2>1. Len(e5) = m /\ \A i \in 1 .. m : e5[i] = "l"
    BY <1>3
  <2>2. m \in Nat /\ l6 = l5 + m /\ l5 \in Nat
    BY <1>1, <1>3
  <2> HIDE DEF c, l5, l6, e5, m
  <2>3. \A i \in 1 .. m : c[l5 + i] = "l"
    BY <1>1, <2>1 DEF Within
  <2> SUFFICES ASSUME NEW x \in l5 + 1 .. l6
               PROVE  c[x] = "l"
    OBVIOUS
  <2>4. x - l5 \in 1 .. m /\ l5 + (x - l5) = x
    BY <2>2
  <2> QED
    BY <2>3, <2>4
<1>8. c[l6 + 1] = d.c
  <2> DEFINE p == d.c
  <2> HIDE DEF c, l6, p
  <2>1. Within(c, l6, <<p>>)
    BY <1>1 DEF p
  <2> QED
    BY <2>1 DEF Within, p
<1>9. d.c \notin FieldDigit /\ "l" \notin FieldDigit /\ "." \notin FieldDigit
  <2>1. d.c \in {"d", "u", "o", "x", "c", "e", "s", "p", "%"}
    BY DEF IsConv, DirectiveOK, Conversions, Numeric
  <2> QED
    BY <2>1 DEF FieldDigit, DigitChars
<1>10. c[l5 + 1] \notin FieldDigit
  <2>1. CASE d.ell = 0
    BY <1>1, <1>3, <1>8, <1>9, <2>1
  <2>2. CASE d.ell # 0
    <3>1. l5 + 1 \in l5 + 1 .. l6
      BY <1>1, <1>3, <2>2
    <3> QED
      BY <1>7, <1>9, <3>1
  <2> QED
    BY <2>1, <2>2
<1>11. c[l4 + 1] \notin FieldDigit
  <2>1. CASE d.prec = 0
    <3>1. l5 = l4
      BY <1>1, <1>3, <2>1
    <3> QED
      BY <1>10, <3>1
  <2>2. CASE d.prec # 0
    BY <1>6, <1>9, <2>2
  <2> QED
    BY <2>1, <2>2
<1> QED
  BY ONLY <1>1, <1>4, <1>5, <1>6, <1>7, <1>8, <1>10, <1>11, Zenon DEF ReadsOf

---------------------------------------------------------------------------
\* What was read in front of character x of a conversion.

WidthRead(d, x) == d.width # 0 /\ x > AtPrec(d)
PrecRead(d, x) == d.prec # 0 /\ x > AtEll(d)

\* The arguments taken for stars.
Taken(d, x) ==
  IF d.stars THEN (IF WidthRead(d, x) THEN 1 ELSE 0) + (IF PrecRead(d, x) THEN 1 ELSE 0) ELSE 0

\* Where the reading stops: not within a number.
Placed(d, x) ==
  /\ x \in 2 .. AtEnd(d) + 1
  /\ x \notin AtWidth(d) + 2 .. AtPrec(d) /\ x \notin AtPrec(d) + 3 .. AtEll(d)

WidthOf(d, x) ==
  IF WidthRead(d, x) THEN d.width
  ELSE IF d.width = 0 /\ d.prec # 0 /\ x > AtPrec(d) + 1 THEN 0 ELSE -1

FlagsAre(d, x) ==
  /\ padc = (IF x > AtAlt(d) THEN d.pad ELSE SPACE)
  /\ altflag = (IF x > AtWidth(d) THEN d.alt ELSE FALSE)
  /\ width = WidthOf(d, x)
  /\ precision = IF PrecRead(d, x) THEN d.prec ELSE -1

\* From x to y.
Goes(d, x, y, stars) ==
  Placed(d, y) /\ FlagsAre(d, y)' /\ Taken(d, y) = Taken(d, x) + stars

\* Numbers about the fields only.
LEMMA SpanNumbers ==
  ASSUME NEW d, SpansOf(d)
  PROVE  /\ AtAlt(d) \in 1 .. 2 /\ AtWidth(d) \in AtAlt(d) .. AtAlt(d) + 1
         /\ AtPrec(d) \in AtWidth(d) .. AtWidth(d) + 2
         /\ AtEll(d) \in AtPrec(d) .. AtPrec(d) + 3 /\ AtEll(d) # AtPrec(d) + 1
         /\ AtEnd(d) \in Nat /\ AtEnd(d) >= AtEll(d)
         /\ d.width \in 0 .. 99 /\ d.prec \in 0 .. 99
         /\ d.width = 0 <=> AtPrec(d) = AtWidth(d)
         /\ d.prec = 0 <=> AtEll(d) = AtPrec(d)
         /\ d.alt <=> AtWidth(d) # AtAlt(d)
         /\ d.pad = SPACE <=> AtAlt(d) = 1
         /\ d.alt \in BOOLEAN /\ d.stars \in BOOLEAN
<1>1. /\ d.ell \in Nat /\ d.width \in 0 .. 99 /\ d.prec \in 0 .. 99
      /\ AtAlt(d) = IF d.pad = SPACE THEN 1 ELSE 2
      /\ AtWidth(d) = AtAlt(d) + (IF d.alt THEN 1 ELSE 0)
      /\ WidthLen(d) \in 0 .. 2 /\ (d.width = 0 <=> WidthLen(d) = 0)
      /\ AtPrec(d) = AtWidth(d) + WidthLen(d)
      /\ PrecLen(d) \in 0 .. 2 /\ (d.prec = 0 <=> PrecLen(d) = 0)
      /\ AtEll(d) = AtPrec(d) + (IF d.prec = 0 THEN 0 ELSE 1 + PrecLen(d))
      /\ AtEnd(d) = AtEll(d) + d.ell
      /\ d.alt \in BOOLEAN /\ d.stars \in BOOLEAN
  BY DEF SpansOf
<1>2. AtAlt(d) \in 1 .. 2 /\ (d.pad = SPACE <=> AtAlt(d) = 1)
  BY <1>1
<1>3. AtWidth(d) \in AtAlt(d) .. AtAlt(d) + 1 /\ (d.alt <=> AtWidth(d) # AtAlt(d))
  BY <1>1, <1>2
<1>4. AtPrec(d) \in AtWidth(d) .. AtWidth(d) + 2 /\ (d.width = 0 <=> AtPrec(d) = AtWidth(d))
  BY ONLY <1>1, <1>2, <1>3
<1>5. /\ AtEll(d) \in AtPrec(d) .. AtPrec(d) + 3 /\ AtEll(d) # AtPrec(d) + 1
      /\ (d.prec = 0 <=> AtEll(d) = AtPrec(d))
  BY ONLY <1>1, <1>2, <1>3, <1>4
<1>6. AtEnd(d) \in Nat /\ AtEnd(d) >= AtEll(d)
  BY ONLY <1>1, <1>2, <1>3, <1>4, <1>5
<1> QED
  BY <1>1, <1>2, <1>3, <1>4, <1>5, <1>6

\* The flags.
LEMMA PadGoes ==
  ASSUME NEW d, SpansOf(d), AtAlt(d) = 2, FlagsAre(d, 2), padc' = d.pad,
         UNCHANGED <<width, precision, altflag>>
  PROVE  Goes(d, 2, 3, 0)
<1> USE SpanNumbers
<1>1. padc' = (IF 3 > AtAlt(d) THEN d.pad ELSE SPACE)
  OBVIOUS
<1>2. altflag' = (IF 3 > AtWidth(d) THEN d.alt ELSE FALSE)
  <2>1. ~ 2 > AtWidth(d)
    OBVIOUS
  <2>2. altflag' = FALSE
    BY <2>1 DEF FlagsAre
  <2>3. 3 > AtWidth(d) => d.alt = FALSE
    OBVIOUS
  <2> QED
    BY <2>2, <2>3
<1>3. ~WidthRead(d, 2) /\ ~WidthRead(d, 3) /\ ~PrecRead(d, 2) /\ ~PrecRead(d, 3)
  BY DEF WidthRead, PrecRead
<1>4. width' = WidthOf(d, 3) /\ precision' = (IF PrecRead(d, 3) THEN d.prec ELSE -1)
  BY <1>3 DEF FlagsAre, WidthOf
<1>5. Placed(d, 3)
  BY DEF Placed
<1>6. Taken(d, 3) = Taken(d, 2) + 0
  BY <1>3 DEF Taken
<1> QED
  BY ONLY <1>1, <1>2, <1>4, <1>5, <1>6, Zenon DEF Goes, FlagsAre, WidthOf, WidthRead, PrecRead

\* The # sets the alternate flag and nothing else.
LEMMA AltGoes ==
  ASSUME NEW d, SpansOf(d), AtWidth(d) = AtAlt(d) + 1, NEW x, x = AtAlt(d) + 1, FlagsAre(d, x),
         altflag' = TRUE, UNCHANGED <<width, precision, padc>>
  PROVE  Goes(d, x, x + 1, 0)
<1> USE SpanNumbers
<1>1. padc' = (IF x + 1 > AtAlt(d) THEN d.pad ELSE SPACE)
  BY DEF FlagsAre
<1>2. altflag' = (IF x + 1 > AtWidth(d) THEN d.alt ELSE FALSE)
  <2>1. x + 1 > AtWidth(d) /\ d.alt = TRUE
    OBVIOUS
  <2> QED
    BY <2>1
<1>3. ~WidthRead(d, x) /\ ~WidthRead(d, x + 1) /\ ~PrecRead(d, x) /\ ~PrecRead(d, x + 1)
  BY DEF WidthRead, PrecRead
<1>4. width' = WidthOf(d, x + 1) /\ precision' = (IF PrecRead(d, x + 1) THEN d.prec ELSE -1)
  BY <1>3 DEF FlagsAre, WidthOf
<1>5. Placed(d, x + 1)
  BY DEF Placed
<1>6. Taken(d, x + 1) = Taken(d, x) + 0
  BY <1>3 DEF Taken
<1> QED
  BY ONLY <1>1, <1>2, <1>4, <1>5, <1>6, Zenon DEF Goes, FlagsAre, WidthOf, WidthRead, PrecRead

\* The width.
LEMMA WidthGoes ==
  ASSUME NEW d, SpansOf(d), d.width # 0, NEW x, x = AtWidth(d) + 1, FlagsAre(d, x),
         ProcessPrecision(d.width)
  PROVE  Goes(d, x, AtPrec(d) + 1, IF d.stars THEN 1 ELSE 0)
<1> USE SpanNumbers
<1> DEFINE y == AtPrec(d) + 1
<1>0. ~WidthRead(d, x) /\ WidthRead(d, y) /\ ~PrecRead(d, x) /\ ~PrecRead(d, y) /\ x > AtAlt(d)
      /\ y > AtAlt(d) /\ x > AtWidth(d) /\ y > AtWidth(d)
  BY DEF WidthRead, PrecRead
<1>1. width = -1
  BY <1>0 DEF FlagsAre, WidthOf
<1>2. width' = d.width /\ precision' = -1 /\ padc' = padc /\ altflag' = altflag
  BY <1>1 DEF ProcessPrecision
<1>3. padc' = (IF y > AtAlt(d) THEN d.pad ELSE SPACE)
  BY <1>0, <1>2 DEF FlagsAre
<1>4. altflag' = (IF y > AtWidth(d) THEN d.alt ELSE FALSE)
  BY <1>0, <1>2, Zenon DEF FlagsAre
<1>5. width' = WidthOf(d, y) /\ precision' = (IF PrecRead(d, y) THEN d.prec ELSE -1)
  BY <1>0, <1>2 DEF WidthOf
<1>6. Placed(d, y)
  BY DEF Placed
<1>7. Taken(d, y) = Taken(d, x) + (IF d.stars THEN 1 ELSE 0)
  BY <1>0 DEF Taken
<1> QED
  BY ONLY <1>3, <1>4, <1>5, <1>6, <1>7, Zenon DEF Goes, FlagsAre, WidthOf, WidthRead, PrecRead

\* The dot.
LEMMA DotGoes ==
  ASSUME NEW d, SpansOf(d), d.prec # 0, NEW x, x = AtPrec(d) + 1, FlagsAre(d, x),
         width' = (IF width < 0 THEN 0 ELSE width), UNCHANGED <<precision, padc, altflag>>
  PROVE  Goes(d, x, x + 1, 0)
<1> USE SpanNumbers
<1> DEFINE y == x + 1
<1>0. /\ WidthRead(d, x) <=> d.width # 0
      /\ WidthRead(d, y) <=> d.width # 0
      /\ ~PrecRead(d, x) /\ ~PrecRead(d, y) /\ x > AtAlt(d)
      /\ y > AtAlt(d) /\ x > AtWidth(d) /\ y > AtWidth(d) /\ y > AtPrec(d) + 1 /\ ~ x > AtPrec(d) + 1
  BY DEF WidthRead, PrecRead
<1>1. width = IF d.width # 0 THEN d.width ELSE -1
  BY <1>0 DEF FlagsAre, WidthOf
<1>2. width' = d.width
  BY <1>1
<1>3. padc' = (IF y > AtAlt(d) THEN d.pad ELSE SPACE)
  BY <1>0 DEF FlagsAre
<1>4. altflag' = (IF y > AtWidth(d) THEN d.alt ELSE FALSE)
  BY <1>0, Zenon DEF FlagsAre
<1>5. width' = WidthOf(d, y)
  BY <1>0, <1>2 DEF WidthOf
<1>6. precision' = (IF PrecRead(d, y) THEN d.prec ELSE -1)
  BY <1>0 DEF FlagsAre
<1>7. Placed(d, y)
  BY DEF Placed
<1>8. Taken(d, y) = Taken(d, x) + 0
  BY <1>0 DEF Taken
<1> QED
  BY ONLY <1>3, <1>4, <1>5, <1>6, <1>7, <1>8, Zenon DEF Goes, FlagsAre, WidthOf, WidthRead, PrecRead

\* The precision.
LEMMA PrecGoes ==
  ASSUME NEW d, SpansOf(d), d.prec # 0, NEW x, x = AtPrec(d) + 2, FlagsAre(d, x),
         ProcessPrecision(d.prec)
  PROVE  Goes(d, x, AtEll(d) + 1, IF d.stars THEN 1 ELSE 0)
<1> USE SpanNumbers
<1> DEFINE y == AtEll(d) + 1
<1>0. /\ WidthRead(d, x) <=> d.width # 0
      /\ WidthRead(d, y) <=> d.width # 0
      /\ ~PrecRead(d, x) /\ PrecRead(d, y) /\ x > AtAlt(d)
      /\ y > AtAlt(d) /\ x > AtWidth(d) /\ y > AtWidth(d) /\ y > AtPrec(d) + 1 /\ x > AtPrec(d) + 1
  BY DEF WidthRead, PrecRead
<1>1. width = d.width /\ d.width \in 0 .. 99
  BY <1>0 DEF FlagsAre, WidthOf
<1>2. width' = d.width /\ precision' = d.prec /\ padc' = padc /\ altflag' = altflag
  BY <1>1 DEF ProcessPrecision
<1>3. padc' = (IF y > AtAlt(d) THEN d.pad ELSE SPACE)
  BY <1>0, <1>2 DEF FlagsAre
<1>4. altflag' = (IF y > AtWidth(d) THEN d.alt ELSE FALSE)
  BY <1>0, <1>2, Zenon DEF FlagsAre
<1>5. width' = WidthOf(d, y) /\ precision' = (IF PrecRead(d, y) THEN d.prec ELSE -1)
  BY <1>0, <1>2 DEF WidthOf
<1>6. Placed(d, y)
  BY DEF Placed
<1>7. Taken(d, y) = Taken(d, x) + (IF d.stars THEN 1 ELSE 0)
  BY <1>0 DEF Taken
<1> QED
  BY ONLY <1>3, <1>4, <1>5, <1>6, <1>7, Zenon DEF Goes, FlagsAre, WidthOf, WidthRead, PrecRead

\* An l.
LEMMA EllGoes ==
  ASSUME NEW d, SpansOf(d), NEW x \in AtEll(d) + 1 .. AtEnd(d), FlagsAre(d, x), UNCHANGED flagVars
  PROVE  Goes(d, x, x + 1, 0)
<1> USE SpanNumbers
<1> DEFINE y == x + 1
<1>0. /\ WidthRead(d, x) <=> d.width # 0
      /\ WidthRead(d, y) <=> d.width # 0
      /\ PrecRead(d, x) <=> d.prec # 0
      /\ PrecRead(d, y) <=> d.prec # 0
      /\ x > AtAlt(d) /\ y > AtAlt(d) /\ x > AtWidth(d) /\ y > AtWidth(d)
      /\ d.prec # 0 => y > AtPrec(d) + 1 /\ x > AtPrec(d) + 1
  BY DEF WidthRead, PrecRead
<1>2. UNCHANGED <<width, precision, padc, altflag>>
  BY DEF flagVars
<1>3. padc' = (IF y > AtAlt(d) THEN d.pad ELSE SPACE)
  BY <1>0, <1>2 DEF FlagsAre
<1>4. altflag' = (IF y > AtWidth(d) THEN d.alt ELSE FALSE)
  BY <1>0, <1>2, Zenon DEF FlagsAre
<1>5. width' = WidthOf(d, y) /\ precision' = (IF PrecRead(d, y) THEN d.prec ELSE -1)
  BY <1>0, <1>2 DEF FlagsAre, WidthOf
<1>6. Placed(d, y)
  BY DEF Placed
<1>7. Taken(d, y) = Taken(d, x) + 0
  BY <1>0 DEF Taken
<1> QED
  BY ONLY <1>3, <1>4, <1>5, <1>6, <1>7, Zenon DEF Goes, FlagsAre, WidthOf, WidthRead, PrecRead

\* In front of all fields, and behind them.
LEMMA FieldEnds ==
  ASSUME NEW d, SpansOf(d)
  PROVE  /\ Placed(d, 2) /\ Taken(d, 2) = 0
         /\ padc = SPACE /\ width = -1 /\ precision = -1 /\ altflag = FALSE => FlagsAre(d, 2)
         /\ FlagsAre(d, AtEnd(d) + 1) => FlagsRead(d)
         /\ Taken(d, AtEnd(d) + 1) = IF d.stars THEN (IF d.width # 0 THEN 1 ELSE 0)
                                                     + (IF d.prec # 0 THEN 1 ELSE 0) ELSE 0
<1> USE SpanNumbers
<1> DEFINE y == AtEnd(d) + 1
<1>0. /\ WidthRead(d, y) <=> d.width # 0
      /\ PrecRead(d, y) <=> d.prec # 0
      /\ y > AtAlt(d) /\ y > AtWidth(d) /\ (d.prec # 0 => y > AtPrec(d) + 1)
      /\ ~WidthRead(d, 2) /\ ~PrecRead(d, 2)
  BY DEF WidthRead, PrecRead
<1>1. Placed(d, 2) /\ Taken(d, 2) = 0
  BY <1>0 DEF Placed, Taken
<1>2. ASSUME padc = SPACE, width = -1, precision = -1, altflag = FALSE
      PROVE  FlagsAre(d, 2)
  <2>1. padc = (IF 2 > AtAlt(d) THEN d.pad ELSE SPACE)
    BY <1>2
  <2>2. altflag = (IF 2 > AtWidth(d) THEN d.alt ELSE FALSE)
    <3>1. 2 > AtWidth(d) => d.alt = FALSE
      OBVIOUS
    <3> QED
      BY <1>2, <3>1
  <2>3. width = WidthOf(d, 2) /\ precision = IF PrecRead(d, 2) THEN d.prec ELSE -1
    BY <1>0, <1>2 DEF WidthOf
  <2> QED
    BY <2>1, <2>2, <2>3, Zenon DEF FlagsAre
<1>3. ASSUME FlagsAre(d, y)
      PROVE  FlagsRead(d)
  <2>1. padc = d.pad
    BY <1>0, <1>3 DEF FlagsAre
  <2>2. altflag = d.alt
    BY <1>0, <1>3, Zenon DEF FlagsAre
  <2>3. width = IF d.width # 0 THEN d.width ELSE IF d.prec # 0 THEN 0 ELSE -1
    BY <1>0, <1>3 DEF FlagsAre, WidthOf
  <2>4. precision = IF d.prec # 0 THEN d.prec ELSE -1
    BY <1>0, <1>3 DEF FlagsAre
  <2> QED
    BY <2>1, <2>2, <2>3, <2>4, Zenon DEF FlagsRead
<1>4. Taken(d, y) = IF d.stars THEN (IF d.width # 0 THEN 1 ELSE 0) + (IF d.prec # 0 THEN 1 ELSE 0) ELSE 0
  BY <1>0 DEF Taken
<1> QED
  BY <1>1, <1>2, <1>3, <1>4

---------------------------------------------------------------------------
\* Pieces of one element.
LEMMA PairIs ==
  ASSUME NEW x, NEW y
  PROVE  <<x>> \o <<y>> = <<x, y>>
<1> DEFINE s == <<x>> \o <<y>>
           t == <<x, y>>
           S == {x, y}
<1>1. <<x>> \in Seq(S) /\ <<y>> \in Seq(S) /\ t \in Seq(S)
  OBVIOUS
<1>2. s \in Seq(S) /\ Len(s) = 2 /\ s[1] = x /\ s[2] = y
  BY <1>1
<1>3. t \in Seq(S) /\ Len(t) = 2 /\ t[1] = x /\ t[2] = y
  BY <1>1
<1> HIDE DEF s, t, S
<1>4. s = t
  BY <1>2, <1>3
<1> QED
  BY <1>4 DEF s, t

\* Two and one are three.
LEMMA TripleIs ==
  ASSUME NEW x, NEW y, NEW z
  PROVE  <<x, y>> \o <<z>> = <<x, y, z>>
<1> DEFINE s == <<x, y>> \o <<z>>
           t == <<x, y, z>>
           S == {x, y, z}
<1>1. <<x, y>> \in Seq(S) /\ <<z>> \in Seq(S) /\ t \in Seq(S)
  OBVIOUS
<1>2. s \in Seq(S) /\ Len(s) = 3 /\ s[1] = x /\ s[2] = y /\ s[3] = z
  BY <1>1
<1>3. t \in Seq(S) /\ Len(t) = 3 /\ t[1] = x /\ t[2] = y /\ t[3] = z
  BY <1>1
<1> HIDE DEF s, t, S
<1>4. s = t
  BY <1>2, <1>3
<1> QED
  BY <1>4 DEF s, t

\* The arguments of a conversion.

StarsOf(d, n) == IF d.stars /\ n # 0 THEN 1 ELSE 0

\* The arguments of a conversion: those of its stars, then its own.
LEMMA ArgList ==
  ASSUME NEW d, IsConv(d)
  PROVE  /\ d.c = "%" => DirectiveArgs(d) = << >> /\ d.width = 0 /\ d.prec = 0
         /\ d.c # "%" =>
              /\ Len(DirectiveArgs(d)) = StarsOf(d, d.width) + StarsOf(d, d.prec) + 1
              /\ DirectiveArgs(d)[StarsOf(d, d.width) + StarsOf(d, d.prec) + 1] = d.arg
              /\ StarsOf(d, d.width) = 1 => DirectiveArgs(d)[1] = d.width
              /\ StarsOf(d, d.prec) = 1 => DirectiveArgs(d)[StarsOf(d, d.width) + 1] = d.prec
<1> DEFINE a == StarArg(d, d.width)
           b == StarArg(d, d.prec)
           w == d.width
           p == d.prec
           g == d.arg
           m == StarsOf(d, d.width)
           n == StarsOf(d, d.prec)
<1>1. ASSUME d.c = "%"
      PROVE  DirectiveArgs(d) = << >> /\ d.width = 0 /\ d.prec = 0
  BY <1>1 DEF DirectiveArgs, IsConv, DirectiveOK, Numeric
<1>2. ASSUME d.c # "%"
      PROVE  DirectiveArgs(d) = a \o b \o <<g>>
  BY <1>2 DEF DirectiveArgs, IsConv
<1>3. /\ (d.stars /\ w # 0) => a = <<w>> /\ m = 1
      /\ ~(d.stars /\ w # 0) => a = << >> /\ m = 0
      /\ (d.stars /\ p # 0) => b = <<p>> /\ n = 1
      /\ ~(d.stars /\ p # 0) => b = << >> /\ n = 0
  BY DEF StarArg, StarsOf
<1> DEFINE L == a \o b \o <<g>>
<1> HIDE DEF a, b, w, p, g, m, n
<1>4. (a = <<w>> /\ m = 1) \/ (a = << >> /\ m = 0)
  BY <1>3
<1>5. (b = <<p>> /\ n = 1) \/ (b = << >> /\ n = 0)
  BY <1>3
<1>6. /\ Len(L) = m + n + 1 /\ L[m + n + 1] = g
      /\ m = 1 => L[1] = w
      /\ n = 1 => L[m + 1] = p
  <2>1. CASE a = <<w>> /\ m = 1 /\ b = <<p>> /\ n = 1
    <3>1. L = <<w, p, g>>
      BY <2>1, PairIs, TripleIs
    <3> QED
      BY ONLY <2>1, <3>1
  <2>2. CASE a = <<w>> /\ m = 1 /\ b = << >> /\ n = 0
    <3>1. L = <<w, g>>
      <4>1. L = <<w>> \o << >> \o <<g>>
        BY <2>2
      <4>2. <<w>> \o << >> = <<w>>
        OBVIOUS
      <4> QED
        BY <4>1, <4>2, PairIs
    <3> QED
      BY ONLY <2>2, <3>1
  <2>3. CASE a = << >> /\ m = 0 /\ b = <<p>> /\ n = 1
    <3>1. L = <<p, g>>
      <4>1. L = << >> \o <<p>> \o <<g>>
        BY <2>3
      <4>2. << >> \o <<p>> = <<p>>
        OBVIOUS
      <4> QED
        BY <4>1, <4>2, PairIs
    <3> QED
      BY ONLY <2>3, <3>1
  <2>4. CASE a = << >> /\ m = 0 /\ b = << >> /\ n = 0
    <3>1. L = <<g>>
      BY <2>4
    <3> QED
      BY ONLY <2>4, <3>1
  <2> QED
    BY <1>4, <1>5, <2>1, <2>2, <2>3, <2>4
<1> HIDE DEF L
<1>7. d.c # "%" => DirectiveArgs(d) = L
  BY <1>2 DEF L
<1> QED
  BY <1>1, <1>6, <1>7, Zenon DEF a, b, w, p, g, m, n

\* What was taken for stars, by place.
LEMMA TakenIs ==
  ASSUME NEW d, SpansOf(d)
  PROVE  /\ Taken(d, AtWidth(d) + 1) = 0
         /\ Taken(d, AtPrec(d) + 2) = StarsOf(d, d.width)
         /\ Taken(d, AtEnd(d) + 1) = StarsOf(d, d.width) + StarsOf(d, d.prec)
<1> USE SpanNumbers
<1>1. Taken(d, AtWidth(d) + 1) = 0
  <2>1. ~WidthRead(d, AtWidth(d) + 1) /\ ~PrecRead(d, AtWidth(d) + 1)
    BY DEF WidthRead, PrecRead
  <2> QED
    BY <2>1 DEF Taken
<1>2. Taken(d, AtPrec(d) + 2) = StarsOf(d, d.width)
  <2>1. /\ WidthRead(d, AtPrec(d) + 2) <=> d.width # 0
        /\ ~PrecRead(d, AtPrec(d) + 2)
    BY DEF WidthRead, PrecRead
  <2> QED
    BY <2>1 DEF Taken, StarsOf
<1>3. Taken(d, AtEnd(d) + 1) = StarsOf(d, d.width) + StarsOf(d, d.prec)
  <2>1. /\ WidthRead(d, AtEnd(d) + 1) <=> d.width # 0
        /\ PrecRead(d, AtEnd(d) + 1) <=> d.prec # 0
    BY DEF WidthRead, PrecRead
  <2> QED
    BY <2>1 DEF Taken, StarsOf
<1> QED
  BY <1>1, <1>2, <1>3

\* Where the arguments of the stars of directive k are.
LEMMA StarArgs ==
  ASSUME Given, NEW k \in 1 .. Len(dirs), NEW d, d = dirs[k], IsConv(d)
  PROVE  /\ Used(k) \in Nat
         /\ d.stars /\ d.width # 0 => Used(k) < Len(Arguments) /\ Arguments[Used(k) + 1] = d.width
         /\ d.stars /\ d.prec # 0 =>
              /\ Used(k) + StarsOf(d, d.width) < Len(Arguments)
              /\ Arguments[Used(k) + StarsOf(d, d.width) + 1] = d.prec
         /\ d.c # "%" =>
              /\ Used(k) + Taken(d, AtEnd(d) + 1) < Len(Arguments)
              /\ Arguments[Used(k) + Taken(d, AtEnd(d) + 1) + 1] = d.arg
         /\ Used(k + 1) = Used(k) + Taken(d, AtEnd(d) + 1) + (IF d.c # "%" THEN 1 ELSE 0)
<1> DEFINE a == DirectiveArgs(d)
           u == Used(k)
           A == Arguments
           m == StarsOf(d, d.width)
           n == StarsOf(d, d.prec)
           t == Taken(d, AtEnd(d) + 1)
<1>1. /\ u \in Nat /\ Used(k + 1) = u + Len(a) /\ Used(k + 1) <= Len(A)
      /\ \A j \in 1 .. Len(a) : A[u + j] = a[j]
  BY ArgPlaces
<1>2. Len(A) \in Nat
  BY Ends
<1>3. t = m + n
  BY Spans, TakenIs
<1>4. /\ m \in {0, 1} /\ n \in {0, 1}
      /\ (d.stars /\ d.width # 0) <=> m = 1
      /\ (d.stars /\ d.prec # 0) <=> n = 1
      /\ d.width = 0 => m = 0
      /\ d.prec = 0 => n = 0
  BY DEF StarsOf
<1>5. /\ d.c = "%" => a = << >> /\ d.width = 0 /\ d.prec = 0
      /\ d.c # "%" =>
           /\ Len(a) = m + n + 1
           /\ a[m + n + 1] = d.arg
           /\ m = 1 => a[1] = d.width
           /\ n = 1 => a[m + 1] = d.prec
  BY ArgList, Zenon
<1> DEFINE w == d.width
           p == d.prec
           g == d.arg
<1>6. /\ d.c = "%" => m = 0 /\ n = 0 /\ a = << >>
      /\ d.c # "%" => Len(a) = m + n + 1 /\ a[m + n + 1] = g
                      /\ (m = 1 => a[1] = w) /\ (n = 1 => a[m + 1] = p)
  BY ONLY <1>4, <1>5, Zenon
<1> HIDE DEF a, u, A, m, n, t, w, p, g
<1>7. CASE d.c = "%"
  <2>1. m = 0 /\ n = 0 /\ Len(a) = 0
    BY <1>6, <1>7
  <2>2. Used(k + 1) = u + t + 0
    BY <1>1, <1>3, <2>1
  <2> QED
    BY <1>1, <1>4, <1>7, <2>1, <2>2 DEF u, t, m, n
<1>8. CASE d.c # "%"
  <2>0. /\ Len(a) = m + n + 1 /\ a[m + n + 1] = g
        /\ (m = 1 => a[1] = w) /\ (n = 1 => a[m + 1] = p)
    BY ONLY <1>6, <1>8, Zenon
  <2>1. m = 1 => u < Len(A) /\ A[u + 1] = w
    BY ONLY <1>1, <1>2, <1>4, <2>0
  <2>2. n = 1 => u + m < Len(A) /\ A[u + m + 1] = p
    <3>1. n = 1 => m + 1 \in 1 .. Len(a) /\ u + (m + 1) = u + m + 1
      BY ONLY <1>1, <1>2, <1>4, <2>0
    <3> QED
      BY ONLY <1>1, <1>2, <1>4, <2>0, <3>1
  <2>3. u + t < Len(A) /\ A[u + t + 1] = g
    <3>1. m + n + 1 \in 1 .. Len(a) /\ u + (m + n + 1) = u + t + 1
      BY ONLY <1>1, <1>2, <1>3, <1>4, <2>0
    <3>2. u + (m + n + 1) <= Len(A)
      BY ONLY <1>1, <2>0
    <3>3. u + t < Len(A)
      BY ONLY <1>1, <1>2, <1>3, <1>4, <3>1, <3>2
    <3>4. A[u + (m + n + 1)] = a[m + n + 1]
      BY ONLY <1>1, <3>1
    <3> QED
      BY ONLY <2>0, <3>1, <3>3, <3>4
  <2>4. Used(k + 1) = u + t + 1
    BY ONLY <1>1, <1>3, <1>4, <2>0
  <2>5. (d.stars /\ d.width # 0) <=> m = 1
    BY <1>4
  <2>6. (d.stars /\ d.prec # 0) <=> n = 1
    BY <1>4
  <2> QED
    BY ONLY <1>1, <1>8, <2>1, <2>2, <2>3, <2>4, <2>5, <2>6, Zenon DEF u, A, m, n, t, w, p, g
<1> QED
  BY <1>7, <1>8

---------------------------------------------------------------------------
\* The steps behind a %.

(* In conversion d, directive k, with its characters in front of x read.   *)
Reading(k, d, x) ==
  /\ fp = Start(k) + x /\ Placed(d, x) /\ FlagsAre(d, x) /\ ArgsFrom(Used(k) + Taken(d, x))

\* Where a step that only moves on comes to.
LEMMA MovesOn ==
  ASSUME Given, FieldKept, NEW k \in 1 .. Len(dirs), NEW d, SpansOf(d), NEW x \in Nat, NEW y \in Nat,
         ArgsFrom(Used(k) + Taken(d, x)), ap' = ap, Goes(d, x, y, 0), fp' = Start(k) + y
  PROVE  FieldKept /\ \E z : Reading(k, d, z)'
<1>1. Arguments' = Arguments /\ Used(k)' = Used(k) /\ Start(k)' = Start(k)
  BY KeptAll DEF FieldKept
<1>2. Placed(d, y) /\ FlagsAre(d, y)' /\ Taken(d, y) = Taken(d, x) + 0
  BY DEF Goes
<1>3. Taken(d, x) \in Int
  BY DEF Taken
<1>4. Taken(d, y) = Taken(d, x)
  BY <1>2, <1>3
<1>5. ArgsFrom(Used(k) + Taken(d, y))'
  BY <1>1, <1>4, Zenon DEF ArgsFrom, Taken, WidthRead, PrecRead, AtPrec, AtEll, AtWidth, AtAlt
<1>6. Placed(d, y)'
  BY <1>2, Zenon DEF Placed, AtEnd, AtEll, AtPrec, AtWidth, AtAlt
<1>7. Reading(k, d, y)'
  BY <1>1, <1>2, <1>5, <1>6, Zenon DEF Reading
<1> QED
  BY <1>7, Zenon

\* Where a number takes it.
LEMMA MovesBy ==
  ASSUME Given, FieldKept, NEW k \in 1 .. Len(dirs), NEW d, SpansOf(d), NEW x \in Nat, NEW y \in Nat,
         NEW a, ArgsFrom(Used(k) + a)', Goes(d, x, y, IF d.stars THEN 1 ELSE 0),
         a = Taken(d, y), fp' = Start(k) + y
  PROVE  FieldKept /\ \E z : Reading(k, d, z)'
<1>1. Arguments' = Arguments /\ Used(k)' = Used(k) /\ Start(k)' = Start(k)
  BY KeptAll DEF FieldKept
<1>2. Placed(d, y) /\ FlagsAre(d, y)'
  BY DEF Goes
<1>5. ArgsFrom(Used(k) + Taken(d, y))'
  BY Zenon DEF Taken, WidthRead, PrecRead, AtPrec, AtEll, AtWidth, AtAlt
<1>6. Placed(d, y)'
  BY <1>2, Zenon DEF Placed, AtEnd, AtEll, AtPrec, AtWidth, AtAlt
<1>7. Reading(k, d, y)'
  BY <1>1, <1>2, <1>5, <1>6, Zenon DEF Reading
<1> QED
  BY <1>7, Zenon

\* The number of a field of conversion d.
LEMMA FieldNumber ==
  ASSUME Given, at = "escape", FmtNext,
         NEW k \in 1 .. Len(dirs), NEW d, d = dirs[k], IsConv(d), NEW o \in Nat, NEW n \in 1 .. 99,
         Within(DirectiveChars(d), o, NumberChars(d, n)),
         o + Len(NumberChars(d, n)) + 1 <= Len(DirectiveChars(d)),
         DirectiveChars(d)[o + Len(NumberChars(d, n)) + 1] \notin FieldDigit,
         fp = Start(k) + (o + 1),
         NEW u \in Nat, ArgsFrom(u),
         d.stars => u < Len(Arguments) /\ Arguments[u + 1] = n
  PROVE  /\ FieldKept /\ ProcessPrecision(n)
         /\ fp' = Start(k) + (o + Len(NumberChars(d, n)) + 1)
         /\ ArgsFrom(u + (IF d.stars THEN 1 ELSE 0))'
<1> DEFINE c == DirectiveChars(d)
           s == NumberChars(d, n)
<1>1. /\ c = DirectiveChars(dirs[k]) /\ s = NumberChars(dirs[k], n) /\ IsConv(dirs[k])
      /\ dirs[k].stars => u < Len(Arguments) /\ Arguments[u + 1] = n
  OBVIOUS
<1>2. /\ Within(c, o, s) /\ o + Len(s) + 1 <= Len(c) /\ c[o + Len(s) + 1] \notin FieldDigit
  OBVIOUS
<1> HIDE DEF c, s
<1>3. /\ FieldKept /\ ProcessPrecision(n)
      /\ fp' = Start(k) + (o + Len(s) + 1)
      /\ ArgsFrom(u + (IF dirs[k].stars THEN 1 ELSE 0))'
  BY <1>1, <1>2, NumberRead
<1>4. dirs' = dirs
  BY <1>3 DEF FieldKept, Kept
<1>5. dirs'[k].stars = d.stars
  BY <1>4
<1> QED
  BY <1>3, <1>5, Zenon DEF s, ArgsFrom

\* A field of a conversion is read.
LEMMA FieldStep ==
  ASSUME Given, at = "escape", FmtNext,
         NEW k \in 1 .. Len(dirs), NEW d, d = dirs[k], IsConv(d), NEW x, Reading(k, d, x),
         x # AtEnd(d) + 1
  PROVE  FieldKept /\ \E y : Reading(k, d, y)'
<1> DEFINE c == DirectiveChars(d)
<1>1. SpansOf(d) /\ ReadsOf(d, c)
  BY Spans, Reads
<1>2. /\ fp = Start(k) + x /\ Placed(d, x) /\ FlagsAre(d, x) /\ ArgsFrom(Used(k) + Taken(d, x))
  BY DEF Reading
<1>3. /\ x \in 2 .. AtEnd(d) + 1
      /\ x \notin AtWidth(d) + 2 .. AtPrec(d) /\ x \notin AtPrec(d) + 3 .. AtEll(d)
  BY <1>2 DEF Placed
<1>4. /\ AtAlt(d) \in 1 .. 2 /\ AtWidth(d) \in AtAlt(d) .. AtAlt(d) + 1
      /\ AtPrec(d) \in AtWidth(d) .. AtWidth(d) + 2
      /\ AtEll(d) \in AtPrec(d) .. AtPrec(d) + 3 /\ AtEll(d) # AtPrec(d) + 1
      /\ AtEnd(d) \in Nat /\ AtEnd(d) >= AtEll(d)
  BY <1>1, SpanNumbers
<1>5. Len(c) = AtEnd(d) + 1
  BY <1>1 DEF ReadsOf
<1>6. x \in 1 .. Len(c) /\ x \in Nat
  BY ONLY <1>3, <1>4, <1>5
<1>7. Ch = c[x] /\ fp \in Nat /\ Start(k) \in Nat
  <2>1. c = DirectiveChars(dirs[k])
    OBVIOUS
  <2>2. x \in 1 .. Len(DirectiveChars(dirs[k]))
    BY <1>6, <2>1
  <2> QED
    BY <1>2, <2>1, <2>2, ChIs
<1>8. fp + 1 = Start(k) + (x + 1)
  BY ONLY <1>2, <1>6, <1>7
<1>9. Used(k) \in Nat
  BY ArgPlaces
<1> HIDE DEF c
<1>10. CASE x <= AtAlt(d)
  <2>1. x = 2 /\ AtAlt(d) = 2
    BY ONLY <1>3, <1>4, <1>10
  <2>2. d.pad # SPACE /\ d.pad \in {"-", "0"}
    BY <1>1, <2>1 DEF SpansOf
  <2>3. Ch = d.pad
    BY <1>1, <1>7, <2>1, <2>2 DEF ReadsOf
  <2>4. PadFlag
    BY <2>2, <2>3, FieldOf
  <2>5. FieldKept /\ ap' = ap
    BY <2>4 DEF PadFlag, Field, FieldKept, Kept
  <2>6. padc' = d.pad /\ UNCHANGED <<width, precision, altflag>> /\ fp' = fp + 1
    BY <2>3, <2>4 DEF PadFlag
  <2>7. FlagsAre(d, 2)
    BY <1>2, <2>1
  <2>8. Goes(d, 2, 3, 0)
    BY ONLY <1>1, <2>1, <2>6, <2>7, PadGoes
  <2>9. fp' = Start(k) + 3 /\ ArgsFrom(Used(k) + Taken(d, 2))
    BY <1>2, <1>8, <2>1, <2>6
  <2> QED
    BY <1>1, <2>5, <2>8, <2>9, MovesOn
<1>11. CASE x > AtAlt(d) /\ x <= AtWidth(d)
  <2>1. x = AtAlt(d) + 1 /\ AtWidth(d) = AtAlt(d) + 1
    BY ONLY <1>3, <1>4, <1>11
  <2>2. d.alt
    BY <1>1, <2>1, SpanNumbers
  <2>3. Ch = "#"
    BY <1>1, <1>7, <2>1, <2>2 DEF ReadsOf
  <2>4. AltFlag
    BY <2>3, FieldOf
  <2>5. FieldKept /\ ap' = ap
    BY <2>4 DEF AltFlag, Field, FieldKept, Kept
  <2>6. altflag' = TRUE /\ UNCHANGED <<width, precision, padc>> /\ fp' = fp + 1
    BY <2>4 DEF AltFlag
  <2>8. Goes(d, x, x + 1, 0)
    BY ONLY <1>1, <1>2, <2>1, <2>6, AltGoes
  <2>9. fp' = Start(k) + (x + 1) /\ x + 1 \in Nat
    BY <1>6, <1>8, <2>6
  <2> QED
    BY <1>1, <1>2, <1>6, <2>5, <2>8, <2>9, MovesOn
<1>12. CASE x > AtWidth(d) /\ x <= AtPrec(d)
  <2> DEFINE o == AtWidth(d)
             n == d.width
             s == NumberChars(d, n)
  <2>1. x = o + 1 /\ AtPrec(d) # AtWidth(d)
    BY ONLY <1>3, <1>4, <1>12
  <2>2. d.width # 0 /\ n \in 1 .. 99 /\ o \in Nat /\ o + Len(s) = AtPrec(d)
    <3>1. d.width # 0 /\ n \in 0 .. 99
      BY <1>1, <2>1, SpanNumbers
    <3>2. n \in 1 .. 99
      BY ONLY <3>1
    <3>3. o \in Nat
      BY ONLY <1>4
    <3>4. AtPrec(d) = o + Len(s)
      BY <1>1 DEF SpansOf, WidthLen
    <3> QED
      BY <3>1, <3>2, <3>3, <3>4, Zenon
  <2>3. Taken(d, x) = 0 /\ ArgsFrom(Used(k))
    <3>1. Taken(d, x) = 0
      BY <1>1, <2>1, TakenIs
    <3>2. Used(k) + 0 = Used(k)
      BY <1>9
    <3> QED
      BY <1>2, <3>1, <3>2, Zenon
  <2>4. d.stars => Used(k) < Len(Arguments) /\ Arguments[Used(k) + 1] = n
    BY <2>2, StarArgs
  <2>5. Within(c, o, s) /\ c[AtPrec(d) + 1] \notin FieldDigit /\ AtPrec(d) + 1 <= Len(c)
    <3>1. AtPrec(d) + 1 <= Len(c)
      BY ONLY <1>4, <1>5
    <3> QED
      BY <1>1, <3>1, Zenon DEF ReadsOf
  <2>6. fp = Start(k) + (o + 1)
    BY <1>2, <2>1
  <2> DEFINE a == IF d.stars THEN 1 ELSE 0
  <2>a. PICK u \in Nat : u = Used(k)
    BY <1>9
  <2>7. /\ FieldKept /\ ProcessPrecision(n)
        /\ fp' = Start(k) + (AtPrec(d) + 1)
        /\ ArgsFrom(u + a)'
    <3> HIDE DEF s, n, o
    <3>1. /\ o + Len(s) + 1 <= Len(c) /\ c[o + Len(s) + 1] \notin FieldDigit
      BY <2>2, <2>5
    <3>2. /\ FieldKept /\ ProcessPrecision(n)
          /\ fp' = Start(k) + (o + Len(s) + 1)
          /\ ArgsFrom(u + a)'
      <4>1. n \in 1 .. 99 /\ o \in Nat /\ ArgsFrom(u)
        BY <2>2, <2>3, <2>a
      <4>2. Within(DirectiveChars(d), o, NumberChars(d, n))
        BY <2>5, Zenon DEF c, s
      <4>3. /\ o + Len(NumberChars(d, n)) + 1 <= Len(DirectiveChars(d))
            /\ DirectiveChars(d)[o + Len(NumberChars(d, n)) + 1] \notin FieldDigit
        BY <3>1, Zenon DEF c, s
      <4>4. d.stars => u < Len(Arguments) /\ Arguments[u + 1] = n
        BY <2>4, <2>a
      <4> QED
        BY <4>4, <2>6, <4>1, <4>2, <4>3, FieldNumber, Zenon DEF s
    <3> QED
      BY <2>2, <3>2
  <2>8. Goes(d, x, AtPrec(d) + 1, IF d.stars THEN 1 ELSE 0)
    BY ONLY <1>1, <1>2, <2>1, <2>2, <2>7, WidthGoes
  <2>9. Taken(d, AtPrec(d) + 1) = (IF d.stars THEN 1 ELSE 0) /\ AtPrec(d) + 1 \in Nat
    <3>1. Taken(d, AtPrec(d) + 1) = Taken(d, x) + (IF d.stars THEN 1 ELSE 0)
      BY <2>8 DEF Goes
    <3> QED
      BY ONLY <1>4, <2>3, <3>1
  <2>10. ArgsFrom(Used(k) + a)'
    <3>1. Used(k)' = u
      BY <2>7, <2>a, KeptAll DEF FieldKept
    <3> QED
      BY <2>7, <3>1, Zenon DEF ArgsFrom
  <2> QED
    BY <1>1, <1>6, <2>7, <2>8, <2>9, <2>10, MovesBy
<1>13. CASE x > AtPrec(d) /\ x <= AtEll(d) /\ x = AtPrec(d) + 1
  <2>1. d.prec # 0
    <3>1. AtEll(d) # AtPrec(d)
      BY ONLY <1>3, <1>4, <1>13
    <3> QED
      BY <1>1, <3>1, SpanNumbers
  <2>3. Ch = "."
    BY <1>1, <1>7, <1>13, <2>1 DEF ReadsOf
  <2>4. Dot
    BY <2>3, FieldOf
  <2>5. FieldKept /\ ap' = ap
    BY <2>4 DEF Dot, Field, FieldKept, Kept
  <2>6. width' = (IF width < 0 THEN 0 ELSE width) /\ UNCHANGED <<precision, padc, altflag>> /\ fp' = fp + 1
    BY <2>4 DEF Dot
  <2>8. Goes(d, x, x + 1, 0)
    BY ONLY <1>1, <1>2, <1>13, <2>1, <2>6, DotGoes
  <2>9. fp' = Start(k) + (x + 1) /\ x + 1 \in Nat
    BY <1>6, <1>8, <2>6
  <2> QED
    BY <1>1, <1>2, <1>6, <2>5, <2>8, <2>9, MovesOn
<1>14. CASE x > AtPrec(d) /\ x <= AtEll(d) /\ x # AtPrec(d) + 1
  <2> DEFINE o == AtPrec(d) + 1
             n == d.prec
             s == NumberChars(d, n)
  <2>1. x = o + 1 /\ AtEll(d) # AtPrec(d)
    BY ONLY <1>3, <1>4, <1>14
  <2>2. d.prec # 0 /\ n \in 1 .. 99 /\ o \in Nat /\ o + Len(s) = AtEll(d)
    <3>1. d.prec # 0 /\ n \in 0 .. 99
      BY <1>1, <2>1, SpanNumbers
    <3>2. n \in 1 .. 99
      BY ONLY <3>1
    <3>3. o \in Nat
      BY ONLY <1>4
    <3>4. /\ AtEll(d) = AtPrec(d) + (IF d.prec = 0 THEN 0 ELSE 1 + PrecLen(d)) /\ PrecLen(d) \in 0 .. 2
      BY <1>1 DEF SpansOf
    <3>5. o + PrecLen(d) = AtEll(d)
      BY ONLY <1>4, <3>1, <3>4
    <3> QED
      BY <3>1, <3>2, <3>3, <3>5, Zenon DEF PrecLen
  <2>3. Taken(d, x) = StarsOf(d, d.width) /\ ArgsFrom(Used(k) + StarsOf(d, d.width))
        /\ Used(k) + StarsOf(d, d.width) \in Nat
    <3>0. x = AtPrec(d) + 2
      BY ONLY <1>4, <2>1
    <3>1. Taken(d, x) = StarsOf(d, d.width)
      BY <1>1, <3>0, TakenIs
    <3>2. StarsOf(d, d.width) \in Nat
      BY DEF StarsOf
    <3> QED
      BY <1>2, <1>9, <3>1, <3>2
  <2>4. d.stars => /\ Used(k) + StarsOf(d, d.width) < Len(Arguments)
                   /\ Arguments[Used(k) + StarsOf(d, d.width) + 1] = n
    BY <2>2, StarArgs
  <2>5. Within(c, o, s) /\ c[AtEll(d) + 1] \notin FieldDigit /\ AtEll(d) + 1 <= Len(c)
    <3>1. AtEll(d) + 1 <= Len(c)
      BY ONLY <1>4, <1>5
    <3> QED
      BY <1>1, <2>2, <3>1, Zenon DEF ReadsOf
  <2>6. fp = Start(k) + (o + 1)
    BY <1>2, <2>1
  <2> DEFINE a == StarsOf(d, d.width) + (IF d.stars THEN 1 ELSE 0)
  <2>a. PICK u \in Nat : u = Used(k) + StarsOf(d, d.width)
    BY <2>3
  <2>7. /\ FieldKept /\ ProcessPrecision(n)
        /\ fp' = Start(k) + (AtEll(d) + 1)
        /\ ArgsFrom(u + (IF d.stars THEN 1 ELSE 0))'
    <3> HIDE DEF s, n, o
    <3>1. /\ o + Len(s) + 1 <= Len(c) /\ c[o + Len(s) + 1] \notin FieldDigit
      BY <2>2, <2>5
    <3>2. u \in Nat /\ ArgsFrom(u) /\ (d.stars => u < Len(Arguments) /\ Arguments[u + 1] = n)
      BY <2>3, <2>4, <2>a
    <3>3. /\ FieldKept /\ ProcessPrecision(n)
          /\ fp' = Start(k) + (o + Len(s) + 1)
          /\ ArgsFrom(u + (IF d.stars THEN 1 ELSE 0))'
      <4>1. n \in 1 .. 99 /\ o \in Nat
        BY <2>2
      <4>2. Within(DirectiveChars(d), o, NumberChars(d, n))
        BY <2>5, Zenon DEF c, s
      <4>3. /\ o + Len(NumberChars(d, n)) + 1 <= Len(DirectiveChars(d))
            /\ DirectiveChars(d)[o + Len(NumberChars(d, n)) + 1] \notin FieldDigit
        BY <3>1, Zenon DEF c, s
      <4> QED
        BY <2>6, <3>2, <4>1, <4>2, <4>3, FieldNumber, Zenon DEF s
    <3> QED
      BY <2>2, <3>3
  <2>8. Goes(d, x, AtEll(d) + 1, IF d.stars THEN 1 ELSE 0)
    <3>1. x = AtPrec(d) + 2
      BY ONLY <1>4, <2>1
    <3> QED
      BY ONLY <1>1, <1>2, <3>1, <2>2, <2>7, PrecGoes
  <2>9. Taken(d, AtEll(d) + 1) = a /\ AtEll(d) + 1 \in Nat
    <3>1. Taken(d, AtEll(d) + 1) = Taken(d, x) + (IF d.stars THEN 1 ELSE 0)
      BY <2>8 DEF Goes
    <3> QED
      BY ONLY <1>4, <2>3, <3>1
  <2>10. ArgsFrom(Used(k) + a)'
    <3>1. Used(k)' = Used(k)
      BY <2>7, KeptAll DEF FieldKept
    <3>2. u + (IF d.stars THEN 1 ELSE 0) = Used(k)' + a
      <4>1. StarsOf(d, d.width) \in Nat
        BY DEF StarsOf
      <4> QED
        BY ONLY <1>9, <2>a, <3>1, <4>1
    <3> QED
      BY <2>7, <3>2, Zenon DEF ArgsFrom
  <2> QED
    BY <1>1, <1>6, <2>7, <2>8, <2>9, <2>10, MovesBy
<1>15. CASE x > AtEll(d)
  <2>1. x \in AtEll(d) + 1 .. AtEnd(d)
    BY ONLY <1>3, <1>4, <1>15, x # AtEnd(d) + 1
  <2>3. Ch = "l"
    BY <1>1, <1>7, <2>1 DEF ReadsOf
  <2>4. LongFlag
    BY <2>3, FieldOf
  <2>5. FieldKept /\ ap' = ap
    BY <2>4 DEF LongFlag, Field, FieldKept, Kept
  <2>6. UNCHANGED flagVars /\ fp' = fp + 1
    BY <2>4 DEF LongFlag
  <2>8. Goes(d, x, x + 1, 0)
    BY ONLY <1>1, <1>2, <2>1, <2>6, EllGoes
  <2>9. fp' = Start(k) + (x + 1) /\ x + 1 \in Nat
    BY <1>6, <1>8, <2>6
  <2> QED
    BY <1>1, <1>2, <1>6, <2>5, <2>8, <2>9, MovesOn
<1> QED
  BY ONLY <1>3, <1>4, <1>10, <1>11, <1>12, <1>13, <1>14, <1>15

---------------------------------------------------------------------------
\* In directive k, which is none, with the % and perhaps digits read.
InOdd(k, x) ==
  /\ dirs[k].kind = "odd" /\ x \in 2 .. Len(dirs[k].cs) + 2 /\ fp = Start(k) + x
  /\ x > 2 => Unfinished(dirs[k])
  /\ ArgsFrom(Used(k))

\* Behind the % of directive k.
EscAt ==
  \E k \in 1 .. Len(dirs) :
    /\ out = Shown(k) /\ PrintsKnown(k)
    /\ \/ IsConv(dirs[k]) /\ \E x : Reading(k, dirs[k], x)
       \/ \E x : InOdd(k, x)

\* A conversion is printed.
LEMMA ConvEnds ==
  ASSUME Given, at = "escape", FmtNext,
         NEW k \in 1 .. Len(dirs), NEW d, d = dirs[k], IsConv(d), Reading(k, d, AtEnd(d) + 1),
         out = Shown(k), PrintsKnown(k)
  PROVE  /\ TextAt' /\ at' = "text" /\ Kept /\ answer' = answer
         /\ \E cs \in Seq(Char) : Put(cs)
<1> DEFINE c == DirectiveChars(d)
           x == AtEnd(d) + 1
           u == Used(k) + Taken(d, x)
<1>1. SpansOf(d) /\ ReadsOf(d, c)
  BY Spans, Reads
<1>2. /\ fp = Start(k) + x /\ FlagsAre(d, x) /\ ArgsFrom(u)
  BY Zenon DEF Reading
<1>3. FlagsRead(d)
  BY <1>1, <1>2, FieldEnds
<1>4. Len(c) = x /\ c[x] = d.c /\ x \in Nat /\ x >= 1
  BY <1>1 DEF ReadsOf
<1>5. Ch = d.c /\ Start(k) \in Nat
  <2> HIDE DEF x
  <2>1. x \in 1 .. Len(DirectiveChars(dirs[k])) /\ c = DirectiveChars(dirs[k])
    BY <1>4
  <2> QED
    BY <1>2, <1>4, <2>1, ChIs
<1>6. /\ d.c # "%" => u < Len(Arguments) /\ Arguments[u + 1] = d.arg
      /\ Used(k + 1) = u + (IF d.c # "%" THEN 1 ELSE 0)
  BY StarArgs, Zenon
<1>7. u \in Nat
  BY StarArgs DEF Taken
<1> HIDE DEF c, x, u
<1>8. d.c # "%" =>
        /\ Head(ap) = d.arg
        /\ Tail(ap) = [i \in 1 .. Len(Arguments) - (u + 1) |-> Arguments[u + 1 + i]]
  BY <1>2, <1>6, <1>7, ArgTaken
<1>9. AtConv(d)
  BY <1>3, <1>5, <1>8, Zenon DEF AtConv, ArgNext
<1>10. Convert(Printed(d), d.c # "%") /\ Printed(d) \in Seq(Char)
  BY <1>9, ConvPrints
<1>11. /\ Put(Printed(d)) /\ fp' = fp + 1 /\ at' = "text" /\ Kept /\ answer' = answer
       /\ ap' = IF d.c # "%" THEN Tail(ap) ELSE ap
  BY <1>10 DEF Convert, Kept
<1>12. out' = out \o Printed(d)
  BY <1>11 DEF Put
<1>13. ap' = [i \in 1 .. Len(Arguments) - Used(k + 1) |-> Arguments[Used(k + 1) + i]]
  <2>1. CASE d.c = "%"
    <3>1. Used(k + 1) = u
      BY <1>6, <1>7, <2>1
    <3> QED
      BY <1>2, <1>11, <2>1, <3>1 DEF ArgsFrom
  <2>2. CASE d.c # "%"
    <3>1. Used(k + 1) = u + 1
      BY <1>6, <2>2
    <3> QED
      BY <1>8, <1>11, <2>2, <3>1
  <2> QED
    BY <2>1, <2>2
<1>14. fp' = Start(k) + Len(DirectiveChars(dirs[k])) + 1
  <2>1. c = DirectiveChars(dirs[k])
    BY DEF c
  <2>2. fp' = Start(k) + Len(c) + 1
    BY <1>2, <1>4, <1>11
  <2> QED
    BY <2>1, <2>2
<1>15. TextAt'
  BY <1>10, <1>11, <1>12, <1>13, <1>14, WholeStep
<1> QED
  BY <1>10, <1>11, <1>15

\* A step behind the % of a conversion.
LEMMA ConvStep ==
  ASSUME Given, at = "escape", FmtNext,
         NEW k \in 1 .. Len(dirs), IsConv(dirs[k]), NEW x, Reading(k, dirs[k], x),
         out = Shown(k), PrintsKnown(k)
  PROVE  \/ FieldKept /\ EscAt'
         \/ /\ TextAt' /\ at' = "text" /\ Kept /\ answer' = answer
            /\ \E cs \in Seq(Char) : Put(cs)
<1>1. PICK d : d = dirs[k]
  OBVIOUS
<1>2. IsConv(d) /\ Reading(k, d, x)
  BY <1>1
<1>3. CASE x = AtEnd(d) + 1
  BY <1>1, <1>2, <1>3, ConvEnds
<1>4. CASE x # AtEnd(d) + 1
  <2>1. FieldKept /\ \E y : Reading(k, d, y)'
    BY <1>1, <1>2, <1>4, FieldStep
  <2>2. dirs'[k] = d /\ Len(dirs)' = Len(dirs) /\ Shown(k)' = Shown(k) /\ PrintsKnown(k)' = PrintsKnown(k)
    BY <1>1, <2>1, KeptAll DEF FieldKept
  <2>3. out' = out
    BY <2>1 DEF FieldKept, sinkVars
  <2>4. IsConv(dirs[k])'
    BY <1>2, <2>2, Zenon DEF IsConv, DirectiveOK, ArgOK, Unfinished
  <2>5. PICK y : Reading(k, d, y)'
    BY <2>1
  <2>6. Reading(k, dirs[k], y)'
    BY <2>2, <2>5, Zenon DEF Reading, Placed, FlagsAre, Taken, WidthOf, WidthRead, PrecRead, AtEnd, AtEll, AtPrec,
                             AtWidth, AtAlt
  <2>7. EscAt'
    BY <2>2, <2>3, <2>4, <2>6, Zenon DEF EscAt
  <2> QED
    BY <2>1, <2>7
<1> QED
  BY <1>3, <1>4

\* A % is read.
LEMMA EscapeStep ==
  ASSUME Given, TextAt, Escape
  PROVE  EscAt' /\ Kept /\ at' = "escape" /\ answer' = answer /\ UNCHANGED sinkVars
<1>1. /\ Ch = "%" /\ at' = "escape" /\ fp' = fp + 1 /\ Kept /\ answer' = answer /\ UNCHANGED sinkVars
      /\ ap' = ap /\ padc' = SPACE /\ width' = -1 /\ precision' = -1 /\ altflag' = FALSE
  BY DEF Escape, Kept
<1>2. ~ \E k \in 1 .. Len(dirs) : \E j \in 1 .. Len(dirs[k].cs) : OddText(k, j)
  BY <1>1, OddCh
<1>3. PICK k \in 1 .. Len(dirs) + 1 : Fresh(k)
  BY <1>2 DEF TextAt
<1>4. PICK d : d = dirs[k]
  OBVIOUS
<1>5. k \in 1 .. Len(dirs) /\ Ch = DirectiveChars(d)[1] /\ DirectiveOK(d)
  BY <1>1, <1>3, <1>4, FreshCh DEF NUL
<1>6. d.kind = "conv" \/ d.kind = "odd"
  BY <1>1, <1>5, FirstIs DEF DirectiveOK
<1>7. fp = Start(k) + 1 /\ ArgsFrom(Used(k)) /\ out = Shown(k) /\ PrintsKnown(k)
  BY <1>3 DEF Fresh
<1>8. /\ dirs'[k] = d /\ Len(dirs)' = Len(dirs) /\ Shown(k)' = Shown(k) /\ PrintsKnown(k)' = PrintsKnown(k)
      /\ Start(k)' = Start(k) /\ Used(k)' = Used(k) /\ Arguments' = Arguments
  BY <1>1, <1>4, KeptAll
<1>9. out' = out
  BY <1>1 DEF sinkVars
<1>10. fp' = Start(k)' + 2 /\ Used(k) \in Nat
  <2>1. Start(k) \in Nat /\ Used(k) \in Nat
    BY <1>5, CharPlaces, ArgPlaces
  <2> QED
    BY <1>1, <1>7, <1>8, <2>1
<1>11. ArgsFrom(Used(k))'
  BY <1>1, <1>7, <1>8, Zenon DEF ArgsFrom
<1>12. CASE d.kind = "conv"
  <2>1. IsConv(d)
    BY <1>5, <1>12 DEF IsConv
  <2>2. Placed(d, 2) /\ Taken(d, 2) = 0
    BY <2>1, Spans, FieldEnds
  <2>3. FlagsAre(d, 2)'
    <3>1. /\ AtAlt(d) \in 1 .. 2 /\ AtWidth(d) \in AtAlt(d) .. AtAlt(d) + 1
          /\ AtPrec(d) \in AtWidth(d) .. AtWidth(d) + 2
          /\ AtEll(d) \in AtPrec(d) .. AtPrec(d) + 3
          /\ d.pad = SPACE <=> AtAlt(d) = 1
          /\ d.alt <=> AtWidth(d) # AtAlt(d)
          /\ d.alt \in BOOLEAN
          /\ d.width = 0 <=> AtPrec(d) = AtWidth(d)
          /\ d.prec = 0 <=> AtEll(d) = AtPrec(d)
      BY <2>1, Spans, SpanNumbers
    <3>2. ~WidthRead(d, 2) /\ ~PrecRead(d, 2) /\ ~ 2 > AtPrec(d) + 1
      BY <3>1 DEF WidthRead, PrecRead
    <3>3. padc' = (IF 2 > AtAlt(d) THEN d.pad ELSE SPACE)
      BY <1>1, <3>1
    <3>4. altflag' = (IF 2 > AtWidth(d) THEN d.alt ELSE FALSE)
      <4>1. 2 > AtWidth(d) => d.alt = FALSE
        BY <3>1
      <4> QED
        BY <1>1, <4>1
    <3>5. width' = WidthOf(d, 2) /\ precision' = (IF PrecRead(d, 2) THEN d.prec ELSE -1)
      BY <1>1, <3>2 DEF WidthOf
    <3> QED
      BY ONLY <3>3, <3>4, <3>5, Zenon DEF FlagsAre, WidthOf, WidthRead, PrecRead
  <2>4. Used(k)' + Taken(d, 2) = Used(k)'
    BY <1>8, <1>10, <2>2
  <2>5. ArgsFrom(Used(k) + Taken(d, 2))'
    <3>1. Used(k)' + Taken(d, 2)' = Used(k)'
      BY <2>4, Zenon DEF Taken, WidthRead, PrecRead
    <3> QED
      BY <1>11, <3>1, Zenon DEF ArgsFrom
  <2>6. IsConv(dirs[k])'
    BY <1>8, <2>1, Zenon DEF IsConv, DirectiveOK, ArgOK, Unfinished
  <2>7. Reading(k, d, 2)'
    BY <1>10, <2>2, <2>3, <2>5, Zenon DEF Reading, Placed
  <2>8. Reading(k, dirs[k], 2)'
    BY <1>8, <2>7, Zenon DEF Reading, Placed, FlagsAre, Taken, WidthOf, WidthRead, PrecRead, AtEnd, AtEll, AtPrec,
                             AtWidth, AtAlt
  <2>9. EscAt'
    BY <1>5, <1>7, <1>8, <1>9, <2>6, <2>8, Zenon DEF EscAt
  <2> QED
    BY <1>1, <2>9
<1>13. CASE d.kind = "odd"
  <2>1. Len(d.cs) \in Nat
    BY <1>5, <1>13, OddChars
  <2>2. 2 \in 2 .. Len(d.cs) + 2 /\ ~ 2 > 2
    BY <2>1
  <2>3. InOdd(k, 2)'
    BY <1>8, <1>10, <1>11, <1>13, <2>2, Zenon DEF InOdd
  <2>9. EscAt'
    BY <1>5, <1>7, <1>8, <1>9, <2>3, Zenon DEF EscAt
  <2> QED
    BY <1>1, <2>9
<1> QED
  BY <1>6, <1>12, <1>13

---------------------------------------------------------------------------
\* The greatest of a set of numbers.
LEMMA MaxIs ==
  ASSUME NEW S, S \subseteq Int, NEW m \in S, \A k \in S : k <= m
  PROVE  Max(S) = m
<1> DEFINE M == CHOOSE x \in S : \A y \in S : x >= y
<1>1. \E x \in S : \A y \in S : x >= y
  OBVIOUS
<1>2. M \in S /\ \A y \in S : M >= y
  BY <1>1
<1> HIDE DEF M
<1>3. M = m
  BY <1>2
<1> QED
  BY <1>3 DEF Max, M

\* Digits are no %.
LEMMA NoPercent == "%" \notin FieldDigit /\ NUL \notin Escapes
<1>1. "%" \notin FieldDigit
  BY DEF FieldDigit, DigitChars
<1>2. NUL \notin FieldDigit /\ NUL \notin Conversions
  BY DEF FieldDigit, DigitChars, NUL, Conversions, Numeric
<1> QED
  BY <1>1, <1>2 DEF Escapes, NUL

\* What was found to be none is printed from its %.
LEMMA OddEnds ==
  ASSUME Given, NEW k \in 1 .. Len(dirs), NEW x, InOdd(k, x), Ch \notin Escapes,
         out = Shown(k), PrintsKnown(k), Unrecognized
  PROVE  /\ TextAt' /\ at' = "text" /\ Kept /\ answer' = answer
         /\ \E cs \in Seq(Char) : Put(cs)
<1> DEFINE d == dirs[k]
           c == DirectiveChars(d)
           l == Len(d.cs)
           z == Start(k)
           p == Printed(d)
<1>1. k \in DOMAIN dirs /\ DirectiveOK(d) /\ d.kind = "odd"
  BY DEF Given, InOdd
<1>2. /\ c = p /\ p \in Seq(Char) /\ l \in Nat /\ Len(p) = l + 1 /\ p[1] = "%"
      /\ \A j \in 1 .. l : p[j + 1] = d.cs[j]
  BY <1>1, OddChars
<1>3. x \in 2 .. l + 2 /\ fp = z + x /\ ArgsFrom(Used(k)) /\ (x > 2 => Unfinished(d))
  BY DEF InOdd
<1>4. z \in Nat /\ z + Len(c) <= Len(fmt) /\ \A j \in 1 .. Len(c) : fmt[z + j] = c[j]
  BY CharPlaces
<1>5. /\ fp' = 1 + Max({i \in 1 .. fp - 1 : fmt[i] = "%"}) /\ Put(<<"%">>) /\ at' = "text"
      /\ Kept /\ ap' = ap /\ answer' = answer /\ out' = out \o <<"%">>
  BY DEF Unrecognized, Kept, Put
<1>6. Unfinished(d) => \A j \in 1 .. l : p[j + 1] \in FieldDigit
  <2> SUFFICES ASSUME Unfinished(d), NEW j \in 1 .. l
               PROVE  p[j + 1] \in FieldDigit
    OBVIOUS
  <2> DEFINE s == d.cs
  <2>1. s[j] \in ToSet(s)
    BY DEF ToSet
  <2>2. ToSet(s) \subseteq FieldDigit
    BY DEF Unfinished
  <2> QED
    BY <1>2, <2>1, <2>2
<1>7. out = Shown(k) \o First(p, 0)
  <2>1. Shown(k) \in Seq(Char)
    BY <1>2, ShownMore
  <2> QED
    BY <1>2, <2>1, FirstEnds
<1>8. out' = out \o <<p[0 + 1]>>
  BY <1>2, <1>5
<1> HIDE DEF d, c, l, z, p
<1> DEFINE P == {i \in 1 .. fp - 1 : fmt[i] = "%"}
<1>9. z + 1 \in P
  <2>1. fmt[z + 1] = "%"
    BY <1>2, <1>4
  <2>2. z + 1 \in 1 .. fp - 1
    BY <1>3, <1>4
  <2> QED
    BY <2>1, <2>2
<1>10. ASSUME NEW i \in P
       PROVE  i <= z + 1
  <2> SUFFICES ASSUME ~ i <= z + 1
               PROVE  FALSE
    OBVIOUS
  <2>1. i \in Int /\ i < z + x /\ fmt[i] = "%"
    BY <1>3, <1>4
  <2>2. x > 2
    BY <1>3, <1>4, <2>1
  <2> DEFINE j == i - z - 1
  <2>3. j \in 1 .. l /\ j + 1 \in 1 .. Len(c) /\ z + (j + 1) = i
    BY <1>2, <1>3, <1>4, <2>1
  <2>4. p[j + 1] \in FieldDigit
    BY <1>3, <1>6, <2>2, <2>3
  <2>5. fmt[i] = p[j + 1]
    BY <1>2, <1>4, <2>3
  <2> QED
    BY <2>1, <2>4, <2>5, NoPercent
<1>11. Max(P) = z + 1
  <2>1. P \subseteq Int
    OBVIOUS
  <2> HIDE DEF P
  <2> QED
    BY <1>9, <1>10, <2>1, MaxIs
<1>12. fp' = z + 1 + 0 + 1
  BY <1>4, <1>5, <1>11
<1>13. 0 \in 0 .. l
  BY <1>2
<1>14. TextAt'
  BY <1>1, <1>3, <1>5, <1>7, <1>8, <1>12, <1>13, OddStep DEF d, l, p, z
<1>15. <<"%">> \in Seq(Char)
  BY OwnChar, OneChar
<1> QED
  BY <1>5, <1>14, <1>15

\* A place behind another.
LEMMA Between ==
  ASSUME NEW z \in Nat, NEW l \in Nat, NEW x \in Nat, x >= 2, NEW g \in Nat, g > z + x, g <= z + l + 2
  PROVE  \E y \in 2 .. l + 2 : g = z + y
<1>1. g - z \in 2 .. l + 2 /\ g = z + (g - z)
  OBVIOUS
<1> QED
  BY <1>1

\* A step behind the % of what is no directive.
LEMMA OddEscape ==
  ASSUME Given, at = "escape", FmtNext, NEW k \in 1 .. Len(dirs), NEW x, InOdd(k, x),
         out = Shown(k), PrintsKnown(k)
  PROVE  \/ FieldKept /\ EscAt'
         \/ /\ TextAt' /\ at' = "text" /\ Kept /\ answer' = answer
            /\ \E cs \in Seq(Char) : Put(cs)
<1> DEFINE d == dirs[k]
           c == DirectiveChars(d)
           l == Len(d.cs)
           z == Start(k)
           p == Printed(d)
<1>1. k \in DOMAIN dirs /\ DirectiveOK(d) /\ d.kind = "odd" /\ (Unfinished(d) => k = Len(dirs))
  BY DEF Given, InOdd
<1>2. /\ c = p /\ p \in Seq(Char) /\ l \in Nat /\ Len(p) = l + 1 /\ p[1] = "%"
      /\ \A j \in 1 .. l : p[j + 1] = d.cs[j]
  BY <1>1, OddChars
<1>3. x \in 2 .. l + 2 /\ fp = z + x /\ ArgsFrom(Used(k)) /\ (x > 2 => Unfinished(d))
  BY DEF InOdd
<1>4. z \in Nat /\ Start(k + 1) = z + Len(c) /\ \A j \in 1 .. Len(c) : fmt[z + j] = c[j]
  BY CharPlaces
<1>5. CASE Ch \notin Escapes
  <2>1. Unrecognized
    BY <1>5, FieldOf
  <2> QED
    BY <1>5, <2>1, OddEnds
<1>6. CASE Ch \in Escapes
  <2>1. x # l + 2
    <3> SUFFICES ASSUME x = l + 2
                 PROVE  FALSE
      OBVIOUS
    <3>1. Unfinished(d)
      <4>1. CASE x > 2
        BY <1>3, <4>1
      <4>2. CASE ~ x > 2
        <5>1. l = 0
          BY <1>2, <4>2
        <5> DEFINE s == d.cs
        <5>2. s \in Seq(Char \ {"%", NUL}) /\ Len(s) = 0
          BY <1>1, <5>1, OddChars
        <5>3. ToSet(s) = {}
          BY <5>2 DEF ToSet
        <5> QED
          BY <1>1, <5>3 DEF Unfinished
      <4> QED
        BY <4>1, <4>2
    <3>2. k = Len(dirs)
      BY <1>1, <3>1
    <3> HIDE DEF c, l, z, p
    <3>3. fp = Start(Len(dirs) + 1) + 1
      BY <1>2, <1>3, <1>4, <3>2
    <3>4. Ch = NUL
      BY <3>3, ChEnds
    <3> QED
      BY <1>6, <3>4, NoPercent
  <2>2. x - 1 \in 1 .. l /\ x \in 1 .. Len(c)
    <3> HIDE DEF c, l, p
    <3> QED
      BY <1>2, <1>3, <2>1
  <2>3. Ch = c[x] /\ fp \in 1 .. Len(fmt) /\ fmt[fp] = Ch
    BY <1>3, <2>2, ChIs
  <2>4. Ch = d.cs[x - 1]
    <3>1. x - 1 + 1 = x
      BY <2>2
    <3> HIDE DEF c, l, p
    <3>2. p[x - 1 + 1] = d.cs[x - 1]
      BY <1>2, <2>2
    <3> QED
      BY <1>2, <2>3, <3>1, <3>2
  <2>5. Unfinished(d)
    <3>1. CASE x > 2
      BY <1>3, <3>1
    <3>2. CASE ~ x > 2
      <4>1. x - 1 = 1
        BY <2>2, <3>2
      <4>2. d.cs[1] \in Escapes
        BY <1>6, <2>4, <4>1
      <4> QED
        BY <1>1, <4>2, Zenon DEF DirectiveOK
    <3> QED
      BY <3>1, <3>2
  <2>6. \A j \in 1 .. l : d.cs[j] \in FieldDigit
    <3> DEFINE s == d.cs
    <3>1. \A j \in 1 .. Len(s) : s[j] \in ToSet(s)
      BY DEF ToSet
    <3>2. ToSet(s) \subseteq FieldDigit
      BY <2>5 DEF Unfinished
    <3> QED
      BY <3>1, <3>2
  <2>7. Ch \in FieldDigit
    BY <2>2, <2>4, <2>6
  <2>8. z + l + 1 = Len(fmt) /\ Len(fmt) \in Nat
    <3>1. k = Len(dirs)
      BY <1>1, <2>5
    <3>2. Start(k + 1) = Len(fmt) /\ Len(fmt) \in Nat
      BY <3>1, Ends
    <3> HIDE DEF c, l, z, p
    <3> QED
      BY <1>2, <1>4, <3>2
  <2>9. FieldKept /\ ap' = ap /\ fp' \in Nat /\ fp' > fp /\ fp' <= Len(fmt) + 1
    <3>1. CASE Ch = "0"
      <4>1. PadFlag
        BY <3>1, FieldOf
      <4>2. FieldKept /\ ap' = ap /\ fp' = fp + 1
        BY <4>1 DEF PadFlag, Field, FieldKept, Kept
      <4> QED
        BY <2>3, <2>8, <4>2
    <3>2. CASE Ch # "0"
      <4>1. WidthField
        BY <2>7, <3>2, FieldOf
      <4>2. FieldKept /\ ap' = ap /\ \E e \in fp .. Len(fmt) : fp' = e + 1
        BY <4>1 DEF WidthField, Field, FieldKept, Kept
      <4> QED
        BY <2>3, <2>8, <4>2
    <3> QED
      BY <3>1, <3>2
  <2>a. l \in Nat /\ z \in Nat /\ x \in Nat /\ x >= 2 /\ fp = z + x
    <3> HIDE DEF c, l, z, p, d
    <3> QED
      BY <1>2, <1>3, <1>4
  <2>b. fp' \in Nat /\ fp' > z + x /\ fp' <= z + l + 2
    <3> HIDE DEF l, z
    <3> QED
      BY <2>a, <2>8, <2>9
  <2>11. PICK y \in 2 .. l + 2 : fp' = z + y
    <3> HIDE DEF l, z
    <3> QED
      BY ONLY <2>a, <2>b, Between, Zenon
  <2>12. /\ dirs'[k] = d /\ Len(dirs)' = Len(dirs) /\ Shown(k)' = Shown(k) /\ PrintsKnown(k)' = PrintsKnown(k)
         /\ Start(k)' = z /\ Used(k)' = Used(k) /\ Arguments' = Arguments
    BY <2>9, KeptAll DEF FieldKept
  <2>13. out' = out
    BY <2>9 DEF FieldKept, sinkVars
  <2>14. ArgsFrom(Used(k))'
    BY <1>3, <2>9, <2>12, Zenon DEF ArgsFrom
  <2>15. InOdd(k, y)'
    BY <1>1, <2>5, <2>11, <2>12, <2>14, Zenon DEF InOdd, Unfinished
  <2>16. EscAt'
    BY <2>12, <2>13, <2>15, Zenon DEF EscAt
  <2> QED
    BY <2>9, <2>16
<1> QED
  BY <1>5, <1>6

\* A step behind a %.
LEMMA EscStep ==
  ASSUME Given, at = "escape", EscAt, FmtNext
  PROVE  \/ FieldKept /\ EscAt'
         \/ /\ TextAt' /\ at' = "text" /\ Kept /\ answer' = answer
            /\ \E cs \in Seq(Char) : Put(cs)
<1>1. PICK k \in 1 .. Len(dirs) :
        /\ out = Shown(k) /\ PrintsKnown(k)
        /\ \/ IsConv(dirs[k]) /\ \E x : Reading(k, dirs[k], x)
           \/ \E x : InOdd(k, x)
  BY DEF EscAt
<1>2. CASE IsConv(dirs[k]) /\ \E x : Reading(k, dirs[k], x)
  BY <1>1, <1>2, ConvStep
<1>3. CASE \E x : InOdd(k, x)
  BY <1>1, <1>3, OddEscape
<1> QED
  BY <1>1, <1>2, <1>3

---------------------------------------------------------------------------
\* Where the characters go.

\* The buffer has a cell.
Fits == ~sink.null /\ sink.n >= 1

\* The first n of s in the buffer.
Filled(s, n) == [x \in 0 .. BufLen - 1 |-> IF x < n THEN s[x + 1] ELSE JUNK]

\* The same with its NUL.
Ended(s, n) ==
  [x \in 0 .. BufLen - 1 |-> CASE x < n -> s[x + 1] [] x = n -> NUL [] OTHER -> JUNK]

Stored == cnt = Len(out) /\ bpos = LesserOf(Len(out), Ebuf)

SinkInv ==
  sink.kind = "snprintf" =>
    /\ Fits => /\ Stored
               /\ at # "done" => buf = Filled(out, bpos)
               /\ at = "done" => answer = cnt /\ buf = Ended(out, bpos)
    /\ ~Fits => /\ buf = [x \in 0 .. BufLen - 1 |-> JUNK]
                /\ at = "call" \/ (at = "done" /\ Refused)

\* The sinks.
LEMMA SinkIs ==
  ASSUME sink \in Sinks
  PROVE  /\ sink.kind \in {"cprintf", "snprintf"} /\ sink.n \in 0 .. BufLen /\ BufLen \in Nat
         /\ sink.null \in BOOLEAN
         /\ Fits => Ebuf \in 0 .. BufLen - 1
<1>1. sink.kind \in {"cprintf", "snprintf"} /\ sink.n \in 0 .. BufLen /\ BufLen \in Nat /\ sink.null \in BOOLEAN
  BY FormatAssumption
<1> QED
  BY <1>1 DEF Fits, Ebuf

\* More characters in the buffer.
LEMMA FilledMore ==
  ASSUME NEW s \in Seq(Char), NEW t \in Seq(Char), NEW E \in Nat, NEW b, b = LesserOf(Len(s), E),
         NEW c, c = LesserOf(b + Len(t), E)
  PROVE  /\ c = LesserOf(Len(s \o t), E) /\ s \o t \in Seq(Char) /\ Len(s \o t) = Len(s) + Len(t)
         /\ [x \in DOMAIN Filled(s, b) |-> IF x \in b .. c - 1 THEN t[x - b + 1] ELSE Filled(s, b)[x]]
            = Filled(s \o t, c)
<1> DEFINE u == s \o t
           m == Len(s)
           n == Len(t)
<1>1. /\ u \in Seq(Char) /\ m \in Nat /\ n \in Nat /\ Len(u) = m + n
      /\ \A i \in 1 .. m : u[i] = s[i]
      /\ \A i \in 1 .. n : u[m + i] = t[i]
  BY JoinedPlaces
<1> HIDE DEF u, m, n
<1>2. b = LesserOf(m, E) /\ c = LesserOf(b + n, E) /\ E \in Nat
  BY DEF m, n
<1>3. b = (IF m < E THEN m ELSE E) /\ c = (IF b + n < E THEN b + n ELSE E)
  BY <1>2 DEF LesserOf
<1>4. c = (IF m + n < E THEN m + n ELSE E) /\ b \in Nat /\ c \in Nat /\ b <= c /\ b <= m /\ c <= m + n
      /\ (b < c => b = m)
  BY ONLY <1>1, <1>2, <1>3
<1>5. c = LesserOf(Len(u), E)
  BY <1>1, <1>4 DEF LesserOf
<1>6. ASSUME NEW x \in 0 .. BufLen - 1
      PROVE  (IF x \in b .. c - 1 THEN t[x - b + 1] ELSE IF x < b THEN s[x + 1] ELSE JUNK)
             = IF x < c THEN u[x + 1] ELSE JUNK
  <2>0. x \in Nat
    BY FormatAssumption
  <2>1. CASE x < b
    <3>1. x + 1 \in 1 .. m /\ x < c /\ x \notin b .. c - 1
      BY ONLY <1>1, <1>4, <2>0, <2>1
    <3> QED
      BY <1>1, <2>1, <3>1
  <2>2. CASE x \in b .. c - 1
    <3>1. x - b + 1 \in 1 .. n /\ x + 1 = m + (x - b + 1) /\ x < c
      BY ONLY <1>1, <1>4, <2>0, <2>2
    <3> QED
      BY <1>1, <2>2, <3>1
  <2>3. CASE ~ x < b /\ x \notin b .. c - 1
    <3>1. ~ x < c
      BY ONLY <1>4, <2>0, <2>3
    <3> QED
      BY <2>3, <3>1
  <2> QED
    BY <2>1, <2>2, <2>3
<1>7. [x \in DOMAIN Filled(s, b) |-> IF x \in b .. c - 1 THEN t[x - b + 1] ELSE Filled(s, b)[x]]
      = Filled(u, c)
  <2>1. DOMAIN Filled(s, b) = 0 .. BufLen - 1
    BY DEF Filled
  <2>2. \A x \in 0 .. BufLen - 1 : Filled(s, b)[x] = IF x < b THEN s[x + 1] ELSE JUNK
    BY DEF Filled
  <2>3. \A x \in 0 .. BufLen - 1 :
          (IF x \in b .. c - 1 THEN t[x - b + 1] ELSE Filled(s, b)[x])
          = IF x < c THEN u[x + 1] ELSE JUNK
    BY <1>6, <2>2
  <2> QED
    BY <2>1, <2>3 DEF Filled
<1> QED
  BY <1>1, <1>5, <1>7 DEF u, m, n

\* A step that puts characters keeps what there is of the sink.
LEMMA PutKeeps ==
  ASSUME sink \in Sinks, out \in Seq(Char), SinkInv, at \in {"text", "escape"},
         NEW cs \in Seq(Char), Put(cs), sink' = sink, at' = "text", answer' = answer
  PROVE  out' \in Seq(Char) /\ SinkInv'
<1>1. out' = out \o cs /\ out' \in Seq(Char)
  BY Joined DEF Put
<1>2. SUFFICES ASSUME sink.kind = "snprintf"
               PROVE  SinkInv'
  BY <1>1 DEF SinkInv
<1>3. Fits
  BY <1>2 DEF SinkInv
<1>4. Ebuf \in Nat
  BY <1>3, SinkIs
<1>5. cnt = Len(out) /\ bpos = LesserOf(Len(out), Ebuf) /\ buf = Filled(out, bpos)
  BY <1>2, <1>3 DEF SinkInv, Stored
<1>6. /\ cnt' = cnt + Len(cs) /\ bpos' = LesserOf(bpos + Len(cs), Ebuf)
      /\ buf' = [x \in DOMAIN buf |-> IF x \in bpos .. bpos' - 1 THEN cs[x - bpos + 1] ELSE buf[x]]
  BY <1>2 DEF Put
<1>7. /\ bpos' = LesserOf(Len(out \o cs), Ebuf) /\ Len(out \o cs) = Len(out) + Len(cs)
      /\ buf' = Filled(out \o cs, bpos')
  BY <1>4, <1>5, <1>6, FilledMore
<1>8. Ebuf' = Ebuf /\ Fits' = Fits
  BY DEF Ebuf, Fits
<1>9. Stored'
  BY <1>1, <1>5, <1>6, <1>7, <1>8 DEF Stored
<1>10. buf' = Filled(out, bpos)'
  BY <1>1, <1>7, Zenon DEF Filled
<1>11. at' # "done"
  OBVIOUS
<1> QED
  BY <1>3, <1>8, <1>9, <1>10, <1>11, Zenon DEF SinkInv

\* A step that puts none.
LEMMA NonePut ==
  ASSUME SinkInv, UNCHANGED sinkVars, sink' = sink, at # "done", at' # "done", answer' = answer,
         sink.kind = "snprintf" => Fits
  PROVE  SinkInv'
<1>1. out' = out /\ buf' = buf /\ bpos' = bpos /\ cnt' = cnt
  BY DEF sinkVars
<1>2. Fits' = Fits /\ Ebuf' = Ebuf
  BY DEF Fits, Ebuf
<1>3. Stored' = Stored /\ Filled(out, bpos)' = Filled(out, bpos)
  BY <1>1, <1>2, Zenon DEF Stored, Filled
<1> QED
  BY <1>1, <1>2, <1>3, Zenon DEF SinkInv

---------------------------------------------------------------------------
\* The invariant of a format that is run.

FmtInv ==
  /\ Given /\ out \in Seq(Char) /\ at \in {"call", "text", "escape", "done"}
  /\ at = "call" => Fresh(1)
  /\ at = "text" => TextAt
  /\ at = "escape" => EscAt
  /\ at = "done" => Refused \/ out = Meant
  /\ SinkInv

\* The formats that FmtInit chooses are sequences of directives.
LEMMA GivenAtFirst ==
  ASSUME FmtInit
  PROVE  Given
<1>1. PICK choice \in BoundedSeq(DOMAIN Directives, MaxDirs) :
        dirs = [k \in DOMAIN choice |-> Directives[choice[k]]]
  BY DEF FmtInit
<1>2. PICK m \in 0 .. MaxDirs : choice \in [1 .. m -> DOMAIN Directives]
  BY <1>1 DEF BoundedSeq, SeqOf
<1>3. m \in Nat
  BY FormatAssumption
<1>4. dirs = [k \in 1 .. m |-> Directives[choice[k]]]
  BY <1>1, <1>2
<1>5. DOMAIN dirs = 1 .. m /\ Len(dirs) = m
  BY <1>3, <1>4
<1>6. \A k \in DOMAIN dirs : DirectiveOK(dirs[k])
  <2>1. \A k \in 1 .. m : choice[k] \in DOMAIN Directives
    BY <1>2
  <2>2. \A k \in 1 .. m : dirs[k] = Directives[choice[k]]
    BY <1>4
  <2>3. \A k \in DOMAIN Directives : DirectiveOK(Directives[k])
    BY FormatAssumption
  <2> QED
    BY <1>5, <2>1, <2>2, <2>3, Zenon
<1>7. \A k \in DOMAIN dirs : Unfinished(dirs[k]) => k = Len(dirs)
  BY Zenon DEF FmtInit
<1>8. fmt = FlattenSeq(CharsOf) /\ sink \in Sinks
  BY Zenon DEF FmtInit, CharsOf
<1> QED
  BY <1>3, <1>5, <1>6, <1>7, <1>8, Zenon DEF Given

\* The invariant holds when a format is passed.
LEMMA FmtInvAtFirst ==
  ASSUME FmtInit
  PROVE  FmtInv
<1>1. Given
  BY GivenAtFirst
<1>2. /\ ap = Arguments /\ at = "call" /\ fp = 1 /\ out = << >> /\ cnt = 0 /\ bpos = 0
      /\ buf = [k \in 0 .. BufLen - 1 |-> JUNK]
  BY Zenon DEF FmtInit, Arguments, ArgsOf
<1>3. Fresh(1)
  <2>1. ap \in Seq(AnyArg) /\ Start(1) = 0 /\ Used(1) = 0 /\ Shown(1) = << >>
    BY <1>1, <1>2, Ends
  <2>2. ap = [i \in 1 .. Len(ap) |-> ap[i]] /\ Len(ap) \in Nat
    BY <2>1
  <2>3. ap = [i \in 1 .. Len(ap) - 0 |-> ap[0 + i]]
    <3> DEFINE a == ap
    <3>1. Len(a) \in Nat
      BY <2>2
    <3> HIDE DEF a
    <3>2. Len(a) - 0 = Len(a) /\ \A i \in 1 .. Len(a) : 0 + i = i
      BY <3>1
    <3>3. [i \in 1 .. Len(a) - 0 |-> a[0 + i]] = [i \in 1 .. Len(a) |-> a[i]]
      BY <3>2
    <3> QED
      BY <2>2, <3>3 DEF a
  <2>4. ArgsFrom(0)
    BY <1>2, <2>3 DEF ArgsFrom
  <2>5. PrintsKnown(1)
    BY DEF PrintsKnown
  <2> QED
    BY <1>2, <2>1, <2>4, <2>5 DEF Fresh
<1>4. out \in Seq(Char) /\ Len(out) = 0
  BY <1>2, EmptySeq
<1>5. SinkInv
  <2>1. sink \in Sinks
    BY <1>1 DEF Given
  <2>2. ASSUME Fits
        PROVE  Stored /\ buf = Filled(out, bpos)
    <3>1. Ebuf \in Nat
      BY <2>1, <2>2, SinkIs
    <3>2. bpos = LesserOf(Len(out), Ebuf)
      BY <1>2, <1>4, <3>1 DEF LesserOf
    <3>3. \A x \in 0 .. BufLen - 1 : ~ x < bpos
      BY <1>2, <2>1, SinkIs
    <3>4. Filled(out, bpos) = [x \in 0 .. BufLen - 1 |-> JUNK]
      BY <3>3, Zenon DEF Filled
    <3> QED
      BY <1>2, <1>4, <3>2, <3>4 DEF Stored
  <2>3. at # "done" /\ at = "call"
    BY <1>2
  <2>4. buf = [x \in 0 .. BufLen - 1 |-> JUNK]
    BY <1>2
  <2>5. Fits => /\ Stored
                /\ at # "done" => buf = Filled(out, bpos)
                /\ at = "done" => answer = cnt /\ buf = Ended(out, bpos)
    BY <2>2, <2>3
  <2>6. at = "call" \/ (at = "done" /\ Refused)
    BY <2>3
  <2> QED
    BY <2>4, <2>5, <2>6, Zenon DEF SinkInv
<1> QED
  BY <1>1, <1>2, <1>3, <1>4, <1>5 DEF FmtInv

\* What is not given is not taken: a step that keeps the format keeps Meant.
LEMMA MeantKept ==
  ASSUME Kept
  PROVE  Meant' = Meant
BY DEF Kept, Meant, Printed

\* A sink with its text in it ends with a NUL.
LEMMA EndPut ==
  ASSUME FmtInv, FormatEnds
  PROVE  SinkInv'
<1>1. SUFFICES ASSUME sink.kind = "snprintf"
               PROVE  SinkInv'
  BY DEF FormatEnds, SinkInv
<1>2. at = "text" /\ sink \in Sinks /\ SinkInv /\ out \in Seq(Char)
  BY DEF FmtInv, FormatEnds, Given
<1>3. Fits
  BY <1>1, <1>2 DEF SinkInv
<1>4. Stored /\ buf = Filled(out, bpos)
  BY <1>1, <1>2, <1>3 DEF SinkInv
<1>5. /\ at' = "done" /\ answer' = cnt /\ buf' = [buf EXCEPT ![bpos] = NUL]
      /\ sink' = sink /\ out' = out /\ bpos' = bpos /\ cnt' = cnt
  BY <1>1 DEF FormatEnds
<1>6. Ebuf \in 0 .. BufLen - 1 /\ BufLen \in Nat
  BY <1>2, <1>3, SinkIs
<1>7. bpos \in 0 .. BufLen - 1
  <2> DEFINE l == Len(out)
  <2>1. l \in Nat
    BY <1>2
  <2>2. bpos = LesserOf(l, Ebuf)
    BY <1>4 DEF Stored
  <2> HIDE DEF l
  <2> QED
    BY <1>6, <2>1, <2>2 DEF LesserOf
<1>8. [Filled(out, bpos) EXCEPT ![bpos] = NUL] = Ended(out, bpos)
  <2>1. DOMAIN Filled(out, bpos) = 0 .. BufLen - 1
    BY DEF Filled
  <2>2. \A x \in 0 .. BufLen - 1 : Filled(out, bpos)[x] = IF x < bpos THEN out[x + 1] ELSE JUNK
    BY DEF Filled
  <2>3. \A x \in 0 .. BufLen - 1 : x = bpos => ~ x < bpos
    BY <1>6, <1>7
  <2>4. ASSUME NEW x \in 0 .. BufLen - 1
        PROVE  (IF x = bpos THEN NUL ELSE Filled(out, bpos)[x])
               = CASE x < bpos -> out[x + 1] [] x = bpos -> NUL [] OTHER -> JUNK
    BY <2>2, <2>3
  <2>5. [Filled(out, bpos) EXCEPT ![bpos] = NUL]
        = [x \in 0 .. BufLen - 1 |-> IF x = bpos THEN NUL ELSE Filled(out, bpos)[x]]
    BY <2>1
  <2> QED
    BY <2>4, <2>5 DEF Ended
<1>9. buf' = Ended(out, bpos)'
  BY <1>4, <1>5, <1>8, Zenon DEF Ended
<1>10. Stored' /\ Fits'
  BY <1>3, <1>4, <1>5, Zenon DEF Stored, Fits, Ebuf
<1> QED
  BY <1>5, <1>9, <1>10, Zenon DEF SinkInv

\* A step of the text.
LEMMA FmtTextKept ==
  ASSUME FmtInv, at = "text", FmtNext
  PROVE  FmtInv'
<1>1. Given /\ TextAt /\ out \in Seq(Char) /\ SinkInv /\ sink \in Sinks
  BY DEF FmtInv, Given
<1>2. sink.kind = "snprintf" => Fits
  BY <1>1 DEF SinkInv
<1>3. Text \/ FormatEnds \/ Escape
  BY DEF FmtNext, CallRefused, CallFormat, PadFlag, AltFlag, LongFlag, Dot, WidthField, Star, Field,
         CharConv, PercentConv, ErrorConv, StringConv, SignedConv, UnsignedConv, PointerConv, At, Unrecognized
<1>4. CASE Text
  <2>1. TextAt' /\ Ch \in Char /\ Put(<<Ch>>)
    BY <1>1, <1>4, TextStep
  <2>2. Kept /\ at' = "text" /\ answer' = answer /\ sink' = sink
    BY <1>4 DEF Text, Kept
  <2>3. <<Ch>> \in Seq(Char)
    BY <2>1, OneChar
  <2>4. out' \in Seq(Char) /\ SinkInv'
    BY <1>1, <2>1, <2>2, <2>3, PutKeeps
  <2> QED
    BY <1>1, <2>1, <2>2, <2>4, KeptAll DEF FmtInv
<1>5. CASE FormatEnds
  <2>1. out = Meant
    BY <1>1, <1>5, TextEnds DEF FormatEnds
  <2>2. Kept /\ at' = "done" /\ out' = out
    BY <1>5 DEF FormatEnds, Kept
  <2> QED
    BY <1>1, <1>5, <2>1, <2>2, KeptAll, MeantKept, EndPut DEF FmtInv
<1>6. CASE Escape
  <2>1. EscAt' /\ Kept /\ at' = "escape" /\ answer' = answer /\ UNCHANGED sinkVars
    BY <1>1, <1>6, EscapeStep
  <2>2. out' = out /\ sink' = sink
    BY <2>1 DEF sinkVars, Kept
  <2>3. SinkInv'
    BY <1>1, <1>2, <2>1, <2>2, NonePut
  <2> QED
    BY <1>1, <2>1, <2>2, <2>3, KeptAll DEF FmtInv
<1> QED
  BY <1>3, <1>4, <1>5, <1>6

\* A step of an escape.
LEMMA FmtEscapeKept ==
  ASSUME FmtInv, at = "escape", FmtNext
  PROVE  FmtInv'
<1>1. Given /\ EscAt /\ out \in Seq(Char) /\ SinkInv /\ sink \in Sinks
  BY DEF FmtInv, Given
<1>2. sink.kind = "snprintf" => Fits
  BY <1>1 DEF SinkInv
<1>3. CASE FieldKept /\ EscAt'
  <2>1. Kept /\ at' = "escape" /\ answer' = answer /\ UNCHANGED sinkVars /\ out' = out /\ sink' = sink
    BY <1>3 DEF FieldKept, Kept, sinkVars
  <2>2. SinkInv'
    BY <1>1, <1>2, <2>1, NonePut
  <2> QED
    BY <1>1, <1>3, <2>1, <2>2, KeptAll DEF FmtInv
<1>4. CASE TextAt' /\ at' = "text" /\ Kept /\ answer' = answer /\ \E cs \in Seq(Char) : Put(cs)
  <2>1. PICK cs \in Seq(Char) : Put(cs)
    BY <1>4
  <2>2. sink' = sink
    BY <1>4 DEF Kept
  <2>3. out' \in Seq(Char) /\ SinkInv'
    BY <1>1, <1>4, <2>1, <2>2, PutKeeps
  <2> QED
    BY <1>1, <1>4, <2>3, KeptAll DEF FmtInv
<1> QED
  BY <1>1, <1>3, <1>4, EscStep

\* The call.
LEMMA FmtCallKept ==
  ASSUME FmtInv, at = "call", FmtNext
  PROVE  FmtInv'
<1>1. Given /\ Fresh(1) /\ out \in Seq(Char) /\ SinkInv /\ sink \in Sinks
  BY DEF FmtInv, Given
<1>2. CallRefused \/ CallFormat
  BY DEF FmtNext, Text, FormatEnds, Escape, PadFlag, AltFlag, LongFlag, Dot, WidthField, Star, Field,
         CharConv, PercentConv, ErrorConv, StringConv, SignedConv, UnsignedConv, PointerConv, At, Unrecognized
<1>3. Kept /\ UNCHANGED sinkVars /\ out' = out /\ sink' = sink /\ fp' = fp /\ ap' = ap /\ buf' = buf
  BY <1>2 DEF CallRefused, CallFormat, Kept, sinkVars
<1>4. CASE CallRefused
  <2>1. at' = "done" /\ Refused' /\ sink.kind = "snprintf" /\ (sink.null \/ sink.n < 1)
    BY <1>4 DEF CallRefused, Refused
  <2>2. ~Fits
    BY <1>1, <2>1, SinkIs DEF Fits
  <2>3. SinkInv'
    <3>1. Fits' = Fits
      BY <1>3 DEF Fits
    <3>2. buf = [x \in 0 .. BufLen - 1 |-> JUNK]
      BY <1>1, <2>1, <2>2 DEF SinkInv
    <3> QED
      BY <1>3, <2>1, <2>2, <3>1, <3>2, Zenon DEF SinkInv
  <2> QED
    BY <1>1, <1>3, <2>1, <2>3, KeptAll DEF FmtInv
<1>5. CASE CallFormat
  <2>1. at' = "text" /\ answer' = answer /\ (sink.kind = "snprintf" => ~sink.null /\ sink.n >= 1)
    BY <1>5 DEF CallFormat
  <2>2. sink.kind = "snprintf" => Fits
    BY <2>1 DEF Fits
  <2>3. SinkInv'
    BY <1>1, <1>3, <2>1, <2>2, NonePut
  <2>4. Fresh(1)'
    <3>1. /\ Arguments' = Arguments /\ Start(1)' = Start(1) /\ Used(1)' = Used(1)
          /\ Shown(1)' = Shown(1) /\ PrintsKnown(1)' = PrintsKnown(1)
      BY <1>3, KeptAll
    <3>2. ArgsFrom(Used(1))' = ArgsFrom(Used(1))
      BY <1>3, <3>1, Zenon DEF ArgsFrom
    <3> QED
      BY <1>1, <1>3, <3>1, <3>2, Zenon DEF Fresh
  <2>5. TextAt'
    <3>1. Len(dirs)' \in Nat
      BY <1>1, <1>3, KeptAll DEF Given
    <3>2. 1 \in 1 .. Len(dirs)' + 1
      BY <3>1
    <3> QED
      BY <2>4, <3>2, Zenon DEF TextAt
  <2> QED
    BY <1>1, <1>3, <2>1, <2>3, <2>5, KeptAll DEF FmtInv
<1> QED
  BY <1>2, <1>4, <1>5

\* A step, or none, keeps the invariant.
LEMMA FmtInvKept ==
  ASSUME FmtInv, [FmtNext]_fmtVars
  PROVE  FmtInv'
<1>1. CASE FmtNext
  <2>1. at # "done"
    BY <1>1 DEF FmtNext, CallRefused, CallFormat, Text, FormatEnds, Escape, PadFlag, AltFlag, LongFlag, Dot,
         WidthField, Star, Field, CharConv, PercentConv, ErrorConv, StringConv, SignedConv, UnsignedConv,
         PointerConv, At, Unrecognized
  <2>2. at \in {"call", "text", "escape"}
    BY <2>1 DEF FmtInv
  <2> QED
    BY <1>1, <2>2, FmtCallKept, FmtTextKept, FmtEscapeKept
<1>2. CASE UNCHANGED fmtVars
  <2>1. /\ UNCHANGED <<dirs, fmt, ap, sink, at, fp, width, precision, padc, altflag, answer>>
        /\ UNCHANGED <<out, buf, bpos, cnt>>
    BY <1>2 DEF fmtVars, flagVars, sinkVars
  <2>2. Kept
    BY <2>1 DEF Kept
  <2>3. Given => Given'
    BY <2>2, KeptAll
  <2>4. \A k : Fresh(k)' = Fresh(k)
    BY <2>1, <2>2, KeptAll DEF Fresh, ArgsFrom
  <2>5. ASSUME NEW CONSTANT k, NEW CONSTANT j
        PROVE  OddText(k, j)' = OddText(k, j)
    <3>1. /\ Start(k)' = Start(k) /\ Used(k)' = Used(k) /\ Arguments' = Arguments
          /\ Shown(k)' = Shown(k) /\ PrintsKnown(k)' = PrintsKnown(k)
      BY <2>2, KeptAll
    <3>2. ArgsFrom(Used(k))' = ArgsFrom(Used(k))
      BY <2>1, <3>1, Zenon DEF ArgsFrom
    <3>3. First(Printed(dirs[k]), j)' = First(Printed(dirs[k]), j)
      BY <2>1 DEF First, Printed
    <3> QED
      BY <2>1, <3>1, <3>2, <3>3, Zenon DEF OddText
  <2>6. TextAt' = TextAt
    BY <2>1, <2>4, <2>5, Zenon DEF TextAt
  <2>7. ASSUME NEW CONSTANT k, NEW CONSTANT d, NEW CONSTANT x
        PROVE  Reading(k, d, x)' = Reading(k, d, x)
    <3>1. Start(k)' = Start(k) /\ Used(k)' = Used(k) /\ Arguments' = Arguments
      BY <2>2, KeptAll
    <3>2. FlagsAre(d, x)' = FlagsAre(d, x)
      BY <2>1, Zenon DEF FlagsAre
    <3>3. ArgsFrom(Used(k) + Taken(d, x))' = ArgsFrom(Used(k) + Taken(d, x))
      BY <2>1, <3>1, Zenon DEF ArgsFrom
    <3> QED
      BY <2>1, <3>1, <3>2, <3>3, Zenon DEF Reading
  <2>8. \A k, x : InOdd(k, x)' = InOdd(k, x)
    BY <2>1, <2>2, KeptAll DEF InOdd, ArgsFrom
  <2>9. EscAt' = EscAt
    BY <2>1, <2>2, <2>7, <2>8, KeptAll DEF EscAt
  <2>10. SinkInv' = SinkInv
    BY <2>1, Zenon DEF SinkInv, Fits, Stored, Filled, Ended, Ebuf, Refused
  <2> QED
    BY <2>1, <2>2, <2>3, <2>4, <2>6, <2>9, <2>10, MeantKept, Zenon DEF FmtInv, Refused
<1> QED
  BY <1>1, <1>2

\* A format prints what its directives say.
LEMMA FmtInvFormatted ==
  ASSUME FmtInv
  PROVE  Formatted
BY DEF FmtInv, Formatted

\* A buffer holds what fits of it.
LEMMA FmtInvBuffer ==
  ASSUME FmtInv
  PROVE  BufferKept
<1>1. SUFFICES ASSUME at = "done", sink.kind = "snprintf"
               PROVE  BufferKept
  BY DEF BufferKept
<1>2. sink \in Sinks /\ SinkInv /\ out \in Seq(Char) /\ (Refused \/ out = Meant)
  BY <1>1 DEF FmtInv, Given
<1>3. BufLen \in Nat /\ sink.n \in Int /\ sink.null \in BOOLEAN
  BY <1>2, SinkIs
<1>4. CASE ~Fits
  <2>1. Refused /\ buf = [x \in 0 .. BufLen - 1 |-> JUNK]
    BY <1>1, <1>2, <1>4 DEF SinkInv
  <2>2. buf = [k \in DOMAIN buf |-> JUNK]
    BY <2>1
  <2>3. sink.null \/ sink.n < 1
    BY <1>3, <1>4 DEF Fits
  <2> QED
    BY <2>1, <2>2, <2>3 DEF BufferKept
<1>5. CASE Fits
  <2>1. answer = cnt /\ buf = Ended(out, bpos) /\ cnt = Len(out) /\ bpos = LesserOf(Len(out), Ebuf)
    BY <1>1, <1>2, <1>5 DEF SinkInv, Stored
  <2>2. Len(out) \in Nat
    BY <1>2
  <2>3. ~Refused
    BY <2>1, <2>2 DEF Refused, E_INVAL
  <2>4. out = Meant
    BY <1>2, <2>3
  <2>5. answer = Len(Meant) /\ bpos = LesserOf(Len(Meant), sink.n - 1)
    BY <2>1, <2>4, Zenon DEF Ebuf
  <2>6. buf = Ended(Meant, bpos)
    BY <2>1, <2>4, Zenon
  <2>7. DOMAIN buf = 0 .. BufLen - 1
    BY <2>6 DEF Ended
  <2>8. buf = [k \in DOMAIN buf |-> CASE k < bpos -> Meant[k + 1] [] k = bpos -> NUL [] OTHER -> JUNK]
    BY <2>6, <2>7, Zenon DEF Ended
  <2>9. ~(sink.null \/ sink.n < 1)
    BY <1>3, <1>5 DEF Fits
  <2> QED
    BY <2>5, <2>8, <2>9, Zenon DEF BufferKept
<1> QED
  BY <1>4, <1>5

\* Every format prints what its directives say, one after the other.
THEOREM FormatPrintsDirectives == FmtSpec => []Formatted
<1>1. FmtInit => FmtInv
  BY FmtInvAtFirst
<1>2. FmtInv /\ [FmtNext]_fmtVars => FmtInv'
  BY FmtInvKept
<1>3. FmtInv => Formatted
  BY FmtInvFormatted
<1> QED
  BY <1>1, <1>2, <1>3, PTL DEF FmtSpec

\* snprintf() stores what fits and answers the length of the whole.
THEOREM SnprintfKeepsBuffer == FmtSpec => []BufferKept
<1>1. FmtInit => FmtInv
  BY FmtInvAtFirst
<1>2. FmtInv /\ [FmtNext]_fmtVars => FmtInv'
  BY FmtInvKept
<1>3. FmtInv => BufferKept
  BY FmtInvBuffer
<1> QED
  BY <1>1, <1>2, <1>3, PTL DEF FmtSpec

---------------------------------------------------------------------------
\* Memory and strings.

Size == Cardinality(DOMAIN mem)

\* The string at a has n characters.
StrEndsAt(a, n) ==
  /\ a \in Nat /\ n \in Nat /\ a + n \in DOMAIN mem /\ mem[a + n] = 0
  /\ \A k \in 0 .. n - 1 : mem[a + k] # 0

\* The addresses are the numbers below the size.
LEMMA MemoryIs ==
  ASSUME Memory(mem)
  PROVE  /\ Size \in Nat /\ DOMAIN mem = 0 .. Size - 1
         /\ \A x \in 0 .. Size - 1 : mem[x] \in Nat
<1>1. Size \in Nat
  BY FS_CardinalityType DEF Memory, Size
<1> QED
  BY <1>1 DEF Memory, Size

\* A string that ends has a length,
LEMMA StrEnds ==
  ASSUME Memory(mem), NEW a \in DOMAIN mem, Str(a)
  PROVE  \E n \in Nat : StrEndsAt(a, n)
<1> DEFINE S == {n \in Nat : a + n \in DOMAIN mem /\ mem[a + n] = 0}
<1>1. a \in Nat /\ DOMAIN mem \subseteq Nat
  BY MemoryIs
<1>2. S # {}
  <2>1. PICK x \in DOMAIN mem : x >= a /\ mem[x] = 0
    BY DEF Str
  <2>2. x - a \in Nat /\ a + (x - a) = x
    BY <1>1, <2>1
  <2>3. x - a \in S
    BY <2>1, <2>2
  <2> QED
    BY <2>3
<1>3. PICK n \in S : \A k \in S : n <= k
  BY <1>2, LeastOfNat
<1>4. ASSUME NEW k \in 0 .. n - 1, mem[a + k] = 0
      PROVE  FALSE
  <2>1. a + k \in DOMAIN mem /\ k \in Nat /\ k < n
    BY <1>1, MemoryIs
  <2> QED
    BY <1>3, <1>4, <2>1
<1> QED
  BY <1>1, <1>4 DEF StrEndsAt

\* and only one,
LEMMA EndsOnce ==
  ASSUME NEW a, NEW n, NEW m, StrEndsAt(a, n), StrEndsAt(a, m)
  PROVE  n = m
BY DEF StrEndsAt

\* which strlen() finds,
LEMMA StrlenIs ==
  ASSUME Memory(mem), NEW a, NEW n, StrEndsAt(a, n)
  PROVE  strlen(a) = n
<1>1. n \in 0 .. Size
  BY MemoryIs DEF StrEndsAt
<1>2. \A k \in 0 .. n - 1 : mem[a + k] # 0
  BY DEF StrEndsAt
<1>3. mem[a + n] = 0
  BY DEF StrEndsAt
<1>4. ASSUME NEW m \in 0 .. Size, ~(mem[a + m] # 0), \A k \in 0 .. m - 1 : mem[a + k] # 0
      PROVE  m = n
  BY <1>1, <1>2, <1>3, <1>4, MemoryIs
<1> QED
  BY <1>1, <1>2, <1>3, <1>4 DEF strlen, Stop, Size

\* The least of a set.
LEMMA MinIs ==
  ASSUME NEW S, S \subseteq Int, NEW m \in S, \A y \in S : m <= y
  PROVE  Min(S) = m
<1>1. \A x \in S : (\A y \in S : x <= y) => x = m
  OBVIOUS
<1> QED
  BY <1>1 DEF Min

\* and the characters of which are before it.
LEMMA StringIs ==
  ASSUME Memory(mem), NEW a, NEW n, StrEndsAt(a, n)
  PROVE  /\ String(a) = Chars(a, n) /\ Chars(a, n) \in Seq(Nat) /\ Len(Chars(a, n)) = n
         /\ \A k \in 1 .. n : Chars(a, n)[k] = mem[a + k - 1] /\ Chars(a, n)[k] # 0
<1> DEFINE S == {k \in 0 .. Size : a + k \in DOMAIN mem /\ mem[a + k] = 0}
<1>1. n \in S /\ S \subseteq Int
  BY MemoryIs DEF StrEndsAt
<1>2. \A y \in S : n <= y
  BY MemoryIs DEF StrEndsAt
<1>3. String(a) = Chars(a, n)
  BY <1>1, <1>2, MinIs DEF String, Size
<1>4. n \in Nat /\ a \in Nat /\ a + n \in 0 .. Size - 1 /\ Size \in Nat
  BY MemoryIs DEF StrEndsAt
<1>5. ASSUME NEW k \in 1 .. n
      PROVE  mem[a + k - 1] \in Nat /\ mem[a + k - 1] # 0
  <2>1. k - 1 \in 0 .. n - 1 /\ a + (k - 1) = a + k - 1 /\ a + k - 1 \in 0 .. Size - 1
    BY <1>4
  <2> QED
    BY <2>1, MemoryIs DEF StrEndsAt
<1>6. \A k \in 1 .. n : Chars(a, n)[k] = mem[a + k - 1] /\ Chars(a, n)[k] \in Nat /\ Chars(a, n)[k] # 0
  BY <1>5 DEF Chars
<1>7. Chars(a, n) = [k \in 1 .. n |-> Chars(a, n)[k]]
  BY DEF Chars
<1>8. Chars(a, n) \in Seq(Nat) /\ Len(Chars(a, n)) = n
  BY <1>4, <1>6, <1>7
<1> QED
  BY <1>3, <1>6, <1>8

---------------------------------------------------------------------------
\* Recursive functions and moves.

\* A function that goes from each number to the next by g exists.
LEMMA StepsExist ==
  ASSUME NEW S, NEW b \in S, NEW g \in [Nat -> [S -> S]], NEW n \in Nat
  PROVE  \E f \in [0 .. n -> S] : f[0] = b /\ \A k \in 1 .. n : f[k] = g[k][f[k - 1]]
<1> DEFINE Steps(f, m) ==
             f \in [0 .. m -> S] /\ f[0] = b /\ \A k \in 1 .. m : f[k] = g[k][f[k - 1]]
           Bad == {m \in Nat : ~\E f : Steps(f, m)}
<1>1. SUFFICES ASSUME Bad # {}
               PROVE  FALSE
  BY <1>1
<1>2. PICK m \in Bad : \A k \in Bad : m <= k
  BY <1>1, LeastOfNat
<1>3. m # 0
  <2> DEFINE f == [k \in 0 .. 0 |-> b]
  <2>1. Steps(f, 0)
    OBVIOUS
  <2> QED
    BY <1>2, <2>1
<1>4. PICK f : Steps(f, m - 1)
  <2>1. m - 1 \in Nat /\ m - 1 < m
    BY <1>2, <1>3
  <2>2. ~ m <= m - 1
    BY <2>1
  <2>3. m - 1 \notin Bad
    BY <1>2, <2>2
  <2> QED
    BY <2>1, <2>3
<1> DEFINE h == [k \in 0 .. m |-> IF k = m THEN g[m][f[m - 1]] ELSE f[k]]
<1>5. m \in Nat /\ m - 1 \in 0 .. m - 1
  BY <1>2, <1>3
<1>6. f[m - 1] \in S /\ g[m][f[m - 1]] \in S
  BY <1>4, <1>5
<1>7. h \in [0 .. m -> S] /\ h[0] = b
  <2>1. \A k \in 0 .. m : k # m => k \in 0 .. m - 1
    BY <1>5
  <2>2. 0 \in 0 .. m /\ 0 # m
    BY <1>3, <1>5
  <2> QED
    BY <1>4, <1>6, <2>1, <2>2
<1>8. ASSUME NEW k \in 1 .. m
      PROVE  h[k] = g[k][h[k - 1]]
  <2>1. k \in 0 .. m /\ k - 1 \in 0 .. m /\ k - 1 # m
    BY <1>5
  <2>2. h[k - 1] = f[k - 1]
    BY <2>1
  <2>3. CASE k = m
    BY <2>1, <2>2, <2>3
  <2>4. CASE k # m
    <3>1. k \in 1 .. m - 1
      BY <1>5, <2>4
    <3> QED
      BY <1>4, <2>1, <2>2, <2>4, <3>1
  <2> QED
    BY <2>3, <2>4
<1>9. Steps(h, m)
  BY <1>7, <1>8
<1> QED
  BY <1>2, <1>9

\* Where the first k units go.
Covered(x, d, units, w, k) == \E i \in 1 .. k : x \in d + units[i] .. d + units[i] + w - 1

\* Memory when k units have been moved without harm.
Moved(d, s, units, w, k) ==
  [x \in DOMAIN mem |-> IF Covered(x, d, units, w, k) THEN mem[x - d + s] ELSE mem[x]]

\* Units move well if none is taken from where one before it was put.
LEMMA UnitsMove ==
  ASSUME Memory(mem), NEW d \in Int, NEW s \in Int, NEW w \in Nat, NEW units, units \in Seq(Int),
         \A i \in 1 .. Len(units) : \A x \in DOMAIN mem :
           x \in d + units[i] .. d + units[i] + w - 1
             => x - d + s \in DOMAIN mem /\ ~Covered(x - d + s, d, units, w, i - 1)
  PROVE  MoveUnits(mem, d, s, units, w) = Moved(d, s, units, w, Len(units))
<1> DEFINE n == Len(units)
           Mems == [DOMAIN mem -> Nat]
           Unit(k, v) == MoveUnit(v, d + units[k], s + units[k], w)
           go == [k \in Nat |-> [v \in Mems |-> IF k \in 1 .. n THEN Unit(k, v) ELSE v]]
           Runs(f) == f = [k \in 0 .. n |-> IF k = 0 THEN mem ELSE Unit(k, f[k - 1])]
<1>0. n \in Nat /\ \A i \in 1 .. n : units[i] \in Int
  OBVIOUS
<1>1. mem \in Mems
  BY DEF Memory
<1>2. ASSUME NEW k \in 1 .. n, NEW v \in Mems
      PROVE  /\ Unit(k, v) \in Mems
             /\ \A x \in DOMAIN mem :
                  Unit(k, v)[x] = IF x \in d + units[k] .. d + units[k] + w - 1
                                  THEN v[x - d + s] ELSE v[x]
  <2>1. DOMAIN v = DOMAIN mem
    OBVIOUS
  <2>2. \A x \in DOMAIN mem : x \in Int /\ x - (d + units[k]) + (s + units[k]) = x - d + s
    BY <1>0, MemoryIs
  <2>3. Unit(k, v) = [x \in DOMAIN mem |-> IF x \in d + units[k] .. d + units[k] + w - 1
                                           THEN v[x - d + s] ELSE v[x]]
    BY <2>1, <2>2 DEF MoveUnit
  <2> HIDE DEF Unit
  <2> QED
    BY <2>3
<1> HIDE DEF n, Unit
<1>3. go \in [Nat -> [Mems -> Mems]]
  BY <1>2
<1>4. PICK f \in [0 .. n -> Mems] : f[0] = mem /\ \A k \in 1 .. n : f[k] = go[k][f[k - 1]]
  <2> HIDE DEF Mems, go
  <2>1. n \in Nat
    BY <1>0
  <2> QED
    BY ONLY <2>1, <1>1, <1>3, StepsExist
<1>5. ASSUME NEW k \in 1 .. n
      PROVE  f[k] = Unit(k, f[k - 1]) /\ f[k - 1] \in Mems
  <2>1. k - 1 \in 0 .. n /\ k \in Nat
    BY <1>0
  <2>2. f[k - 1] \in Mems
    BY <2>1
  <2> QED
    BY <1>4, <2>1, <2>2
<1>6. Runs(f)
  <2>1. f = [k \in 0 .. n |-> f[k]]
    OBVIOUS
  <2>2. \A k \in 0 .. n : f[k] = IF k = 0 THEN mem ELSE Unit(k, f[k - 1])
    BY <1>0, <1>4, <1>5
  <2> QED
    BY <2>1, <2>2
<1>7. ASSUME NEW r, Runs(r), NEW k \in 0 .. n
      PROVE  r[k] = Moved(d, s, units, w, k)
  <2> DEFINE Bad == {j \in 0 .. n : r[j] # Moved(d, s, units, w, j)}
  <2>0. SUFFICES ASSUME Bad # {}
                 PROVE  FALSE
    OBVIOUS
  <2>1. PICK j \in Bad : \A i \in Bad : j <= i
    <3>1. Bad \subseteq Nat
      BY <1>0
    <3> QED
      BY <2>0, <3>1, LeastOfNat
  <2>2. \A x \in DOMAIN mem : ~Covered(x, d, units, w, 0)
    BY DEF Covered
  <2>3. r[0] = Moved(d, s, units, w, 0)
    <3>1. 0 \in 0 .. n
      BY <1>0
    <3>2. r[0] = mem
      BY <1>7, <3>1
    <3>3. mem = [x \in DOMAIN mem |-> mem[x]]
      BY <1>1
    <3> QED
      BY <2>2, <3>2, <3>3 DEF Moved
  <2>4. j \in 1 .. n /\ j - 1 \in 0 .. n /\ j \in 0 .. n /\ j - 1 < j /\ j \in Nat
    BY <1>0, <2>1, <2>3
  <2>5. r[j - 1] = Moved(d, s, units, w, j - 1)
    BY <2>1, <2>4
  <2>6. r[j] = Unit(j, r[j - 1])
    BY <1>7, <2>4
  <2> DEFINE v == Moved(d, s, units, w, j - 1)
             In(x) == x \in d + units[j] .. d + units[j] + w - 1
  <2>7. \A x \in DOMAIN mem : In(x) => x - d + s \in DOMAIN mem /\ ~Covered(x - d + s, d, units, w, j - 1)
    BY <2>4 DEF n
  <2>8. v = [x \in DOMAIN mem |-> IF Covered(x, d, units, w, j - 1) THEN mem[x - d + s] ELSE mem[x]]
    BY DEF Moved
  <2>9. \A x \in DOMAIN mem : Covered(x, d, units, w, j) <=> Covered(x, d, units, w, j - 1) \/ In(x)
    <3>1. \A i : i \in 1 .. j <=> i \in 1 .. j - 1 \/ i = j
      BY <2>4
    <3> QED
      BY <3>1 DEF Covered
  <2>10. ASSUME NEW x \in DOMAIN mem, Covered(x, d, units, w, j - 1)
         PROVE  x - d + s \in DOMAIN mem
    <3>1. PICK i \in 1 .. j - 1 : x \in d + units[i] .. d + units[i] + w - 1
      BY <2>10 DEF Covered
    <3>2. i \in 1 .. Len(units)
      BY <2>4 DEF n
    <3> QED
      BY <3>1, <3>2
  <2> HIDE DEF In
  <2>11. v \in Mems
    BY <1>1, <2>8, <2>10
  <2>12. \A x \in DOMAIN mem : Unit(j, v)[x] = IF In(x) THEN v[x - d + s] ELSE v[x]
    BY <1>2, <2>4, <2>11 DEF In
  <2>13. Unit(j, v) \in Mems
    BY <1>2, <2>4, <2>11
  <2>14. \A x \in DOMAIN mem :
           Unit(j, v)[x] = IF Covered(x, d, units, w, j) THEN mem[x - d + s] ELSE mem[x]
    BY <2>7, <2>8, <2>9, <2>12
  <2>15. Unit(j, v) = Moved(d, s, units, w, j)
    BY <2>13, <2>14 DEF Moved
  <2> QED
    BY <2>1, <2>5, <2>6, <2>15
<1>8. n \in 0 .. n
  BY <1>0
<1> DEFINE r == CHOOSE q : Runs(q)
<1>9. Runs(r)
  BY <1>6
<1>10. MoveUnits(mem, d, s, units, w) = r[n]
  BY DEF MoveUnits, n, Unit
<1> HIDE DEF r, Runs
<1>11. r[n] = Moved(d, s, units, w, n)
  BY <1>7, <1>8, <1>9
<1> QED
  BY <1>10, <1>11 DEF n

---------------------------------------------------------------------------
\* Moves of areas.

(* That u are the offsets of q units of w characters, one after the other, *)
(* which make an area of n.                                                *)
Offsets(u, q, n, w) ==
  /\ u \in Seq(Int) /\ Len(u) = q /\ q \in Nat
  /\ \A i \in 1 .. q : u[i] \in Nat /\ u[i] + w <= n
  /\ \A i \in 1 .. q : \A j \in 1 .. i - 1 : u[j] + w <= u[i]
  /\ \A z \in Int : z \in 0 .. n - 1 <=> \E i \in 1 .. q : u[i] <= z /\ z < u[i] + w

\* Ascending() gives such offsets.
LEMMA AscendingIs ==
  ASSUME NEW n \in Nat, NEW w \in Nat \ {0}, n % w = 0
  PROVE  Offsets(Ascending(n, w), n \div w, n, w)
<1> DEFINE q == n \div w
<1>1. q \in Nat /\ n = q * w
  BY Divided
<1> HIDE DEF q
<1>2. ASSUME NEW i \in 1 .. q
      PROVE  (i - 1) * w \in Nat /\ (i - 1) * w + w <= n
  <2>1. (i - 1) * w \in Nat /\ (q - i) * w \in Nat
    BY <1>1
  <2>2. q * w = (i - 1) * w + w + (q - i) * w
    BY <1>1
  <2> QED
    BY <1>1, <2>1, <2>2
<1>3. ASSUME NEW i \in 1 .. q, NEW j \in 1 .. i - 1
      PROVE  (j - 1) * w + w <= (i - 1) * w
  <2>1. (j - 1) * w \in Nat /\ (i - 1 - j) * w \in Nat
    BY <1>1
  <2>2. (i - 1) * w = (j - 1) * w + w + (i - 1 - j) * w
    BY <1>1
  <2> QED
    BY <1>1, <2>1, <2>2
<1>4. ASSUME NEW z \in 0 .. n - 1
      PROVE  \E i \in 1 .. q : (i - 1) * w <= z /\ z < (i - 1) * w + w
  <2> DEFINE p == z \div w
             r == z % w
  <2>0. z \in Nat
    OBVIOUS
  <2>1. z \in Nat /\ p \in Nat /\ r \in 0 .. w - 1 /\ z = p * w + r
    BY <2>0, Divided
  <2> HIDE DEF p, r
  <2>2. p < q
    <3> SUFFICES ASSUME ~ p < q
                 PROVE  FALSE
      OBVIOUS
    <3>1. (p - q) * w \in Nat
      BY <1>1, <2>1
    <3>2. p * w = q * w + (p - q) * w
      BY <1>1, <2>1
    <3> QED
      BY <1>1, <2>1, <3>1, <3>2
  <2>3. p + 1 \in 1 .. q /\ (p + 1) - 1 = p
    BY <1>1, <2>1, <2>2
  <2>4. p * w <= z /\ z < p * w + w
    BY <2>1
  <2> QED
    BY <2>3, <2>4
<1>5. ASSUME NEW z \in Int, NEW i \in 1 .. q, (i - 1) * w <= z, z < (i - 1) * w + w
      PROVE  z \in 0 .. n - 1
  BY <1>2, <1>5
<1>6. Ascending(n, w) = [k \in 1 .. q |-> (k - 1) * w]
  BY DEF Ascending, q
<1>7. \A i \in 1 .. q : Ascending(n, w)[i] = (i - 1) * w /\ (i - 1) * w \in Int
  BY <1>2, <1>6
<1>8. Ascending(n, w) \in Seq(Int) /\ Len(Ascending(n, w)) = q
  BY <1>1, <1>2, <1>6
<1> DEFINE u == Ascending(n, w)
<1>9. u \in Seq(Int) /\ Len(u) = q /\ \A i \in 1 .. q : u[i] = (i - 1) * w
  BY <1>7, <1>8
<1> HIDE DEF u
<1>10. \A i \in 1 .. q : u[i] \in Nat /\ u[i] + w <= n
  BY <1>2, <1>9
<1>11. \A i \in 1 .. q : \A j \in 1 .. i - 1 : u[j] + w <= u[i]
  <2>1. \A i \in 1 .. q : \A j \in 1 .. i - 1 : j \in 1 .. q
    BY <1>1
  <2> QED
    BY <1>3, <1>9, <2>1
<1>12. \A z \in Int : z \in 0 .. n - 1 <=> \E i \in 1 .. q : u[i] <= z /\ z < u[i] + w
  <2> TAKE z \in Int
  <2>1. ASSUME z \in 0 .. n - 1
        PROVE  \E i \in 1 .. q : u[i] <= z /\ z < u[i] + w
    <3>1. PICK i \in 1 .. q : (i - 1) * w <= z /\ z < (i - 1) * w + w
      BY <1>4, <2>1
    <3>2. u[i] <= z /\ z < u[i] + w
      BY <1>9, <3>1
    <3> QED
      BY <3>2
  <2>2. ASSUME NEW i \in 1 .. q, u[i] <= z, z < u[i] + w
        PROVE  z \in 0 .. n - 1
    BY <1>5, <1>9, <2>2
  <2> QED
    BY <2>1, <2>2
<1> QED
  BY <1>1, <1>9, <1>10, <1>11, <1>12, Zenon DEF Offsets, u, q

\* The area at s stands at d.
Copied(d, s, n) ==
  [x \in DOMAIN mem |-> IF x \in Area(d, n) THEN mem[x - d + s] ELSE mem[x]]

\* Units moved upwards, as long as d is not inside the area at s,
LEMMA MovedUp ==
  ASSUME Memory(mem), NEW d \in Nat, NEW s \in Nat, NEW n \in Nat, NEW w \in Nat \ {0}, n % w = 0,
         Room(s, n), ~(s < d /\ s + n > d)
  PROVE  MoveUnits(mem, d, s, Ascending(n, w), w) = Copied(d, s, n)
<1> DEFINE q == n \div w
           u == Ascending(n, w)
<1>0. Offsets(u, q, n, w)
  BY AscendingIs
<1> HIDE DEF q, u
<1>1. /\ Len(u) = q /\ q \in Nat /\ u \in Seq(Int)
      /\ \A i \in 1 .. q : u[i] \in Nat /\ u[i] + w <= n
      /\ \A i \in 1 .. q : \A j \in 1 .. i - 1 : u[j] + w <= u[i]
  BY <1>0, Zenon DEF Offsets
<1>2. \A z \in Int : z \in 0 .. n - 1 <=> \E i \in 1 .. q : u[i] <= z /\ z < u[i] + w
  BY <1>0, Zenon DEF Offsets
<1>3. \A x \in DOMAIN mem : x \in Int
  BY MemoryIs
<1>4. ASSUME NEW i \in 1 .. q, NEW x \in DOMAIN mem, x \in d + u[i] .. d + u[i] + w - 1
      PROVE  x - d + s \in DOMAIN mem /\ ~Covered(x - d + s, d, u, w, i - 1)
  <2>1. u[i] \in Nat /\ u[i] + w <= n /\ x \in Int
    BY <1>1, <1>3
  <2>2. x - d + s \in s .. s + n - 1
    BY <1>4, <2>1
  <2>3. x - d + s \in DOMAIN mem
    BY <2>2 DEF Room, Area
  <2>4. ASSUME NEW j \in 1 .. i - 1, x - d + s \in d + u[j] .. d + u[j] + w - 1
        PROVE  FALSE
    <3>1. j \in 1 .. q /\ u[j] + w <= u[i] /\ u[j] \in Nat /\ u[j] + w <= n
      <4>1. j \in 1 .. q
        BY <1>1
      <4> QED
        BY <1>1, <4>1
    <3> QED
      BY ONLY <1>4, <2>1, <2>4, <3>1, d \in Nat, s \in Nat, n \in Nat, w \in Nat, ~(s < d /\ s + n > d)
  <2> QED
    BY <2>3, <2>4 DEF Covered
<1>5. MoveUnits(mem, d, s, u, w) = Moved(d, s, u, w, q)
  <2>1. \A i \in 1 .. Len(u) : \A x \in DOMAIN mem :
          x \in d + u[i] .. d + u[i] + w - 1
            => x - d + s \in DOMAIN mem /\ ~Covered(x - d + s, d, u, w, i - 1)
    BY <1>1, <1>4, Zenon
  <2>2. u \in Seq(Int) /\ Len(u) = q /\ d \in Int /\ s \in Int /\ w \in Nat
    BY <1>1
  <2>3. MoveUnits(mem, d, s, u, w) = Moved(d, s, u, w, Len(u))
    BY <2>1, <2>2, UnitsMove, Zenon
  <2> QED
    BY <2>2, <2>3
<1>6. \A x \in DOMAIN mem : Covered(x, d, u, w, q) <=> x \in Area(d, n)
  <2> TAKE x \in DOMAIN mem
  <2>1. x \in Int /\ x - d \in Int
    BY <1>3
  <2>2. x \in Area(d, n) <=> x - d \in 0 .. n - 1
    BY <2>1 DEF Area
  <2>3. ASSUME NEW i \in 1 .. q
        PROVE  x \in d + u[i] .. d + u[i] + w - 1 <=> u[i] <= x - d /\ x - d < u[i] + w
    <3>1. PICK o \in Nat : o = u[i]
      BY <1>1
    <3>2. x \in d + o .. d + o + w - 1 <=> o <= x - d /\ x - d < o + w
      BY <2>1
    <3> QED
      BY <3>1, <3>2, Zenon
  <2> QED
    BY <1>2, <2>1, <2>2, <2>3 DEF Covered
<1> QED
  BY <1>5, <1>6 DEF Moved, Copied, u

\* and downwards if it is.
LEMMA MovedDown ==
  ASSUME Memory(mem), NEW d \in Nat, NEW s \in Nat, NEW n \in Nat, NEW w \in Nat \ {0}, n % w = 0,
         Room(s, n), s < d
  PROVE  MoveUnits(mem, d + n - w, s + n - w,
                   [k \in DOMAIN Ascending(n, w) |-> -Ascending(n, w)[k]], w) = Copied(d, s, n)
<1> DEFINE q == n \div w
           u == Ascending(n, w)
           v == [k \in DOMAIN u |-> -u[k]]
           D == d + n - w
           T == s + n - w
<1>0. Offsets(u, q, n, w)
  BY AscendingIs
<1> HIDE DEF q, u
<1>1. /\ Len(u) = q /\ q \in Nat /\ u \in Seq(Int)
      /\ \A i \in 1 .. q : u[i] \in Nat /\ u[i] + w <= n
      /\ \A i \in 1 .. q : \A j \in 1 .. i - 1 : u[j] + w <= u[i]
  BY <1>0, Zenon DEF Offsets
<1>2. \A z \in Int : z \in 0 .. n - 1 <=> \E i \in 1 .. q : u[i] <= z /\ z < u[i] + w
  BY <1>0, Zenon DEF Offsets
<1>3. \A x \in DOMAIN mem : x \in Int
  BY MemoryIs
<1>4. v \in Seq(Int) /\ Len(v) = q /\ \A i \in 1 .. q : v[i] = -u[i]
  <2>1. DOMAIN u = 1 .. q
    BY <1>1
  <2>2. v = [k \in 1 .. q |-> -u[k]] /\ \A k \in 1 .. q : -u[k] \in Int
    BY <1>1, <2>1
  <2> HIDE DEF v
  <2> QED
    BY <1>1, <2>2
<1> HIDE DEF v
<1>5. D \in Int /\ T \in Int /\ D = d + n - w /\ T = s + n - w
  OBVIOUS
<1> HIDE DEF D, T
<1>6. ASSUME NEW i \in 1 .. q, NEW x \in DOMAIN mem, x \in D + v[i] .. D + v[i] + w - 1
      PROVE  x - D + T \in DOMAIN mem /\ ~Covered(x - D + T, D, v, w, i - 1)
  <2>1. u[i] \in Nat /\ u[i] + w <= n /\ x \in Int /\ v[i] = -u[i]
    BY <1>1, <1>3, <1>4
  <2>2. x - D + T \in s .. s + n - 1
    BY <1>5, <1>6, <2>1
  <2>3. x - D + T \in DOMAIN mem
    BY <2>2 DEF Room, Area
  <2>4. ASSUME NEW j \in 1 .. i - 1, x - D + T \in D + v[j] .. D + v[j] + w - 1
        PROVE  FALSE
    <3>1. j \in 1 .. q /\ u[j] + w <= u[i] /\ u[j] \in Nat /\ u[j] + w <= n /\ v[j] = -u[j]
      <4>1. j \in 1 .. q
        BY <1>1
      <4> QED
        BY <1>1, <1>4, <4>1
    <3> QED
      BY ONLY <1>5, <1>6, <2>1, <2>4, <3>1, d \in Nat, s \in Nat, n \in Nat, w \in Nat, s < d
  <2> QED
    BY <2>3, <2>4 DEF Covered
<1>7. MoveUnits(mem, D, T, v, w) = Moved(D, T, v, w, q)
  <2>1. \A i \in 1 .. Len(v) : \A x \in DOMAIN mem :
          x \in D + v[i] .. D + v[i] + w - 1
            => x - D + T \in DOMAIN mem /\ ~Covered(x - D + T, D, v, w, i - 1)
    BY <1>4, <1>6, Zenon
  <2>2. v \in Seq(Int) /\ Len(v) = q /\ D \in Int /\ T \in Int /\ w \in Nat
    BY <1>4, <1>5
  <2>3. MoveUnits(mem, D, T, v, w) = Moved(D, T, v, w, Len(v))
    BY <2>1, <2>2, UnitsMove, Zenon
  <2> QED
    BY <2>2, <2>3
<1>8. \A x \in DOMAIN mem : Covered(x, D, v, w, q) <=> x \in Area(d, n)
  <2> TAKE x \in DOMAIN mem
  <2>1. x \in Int /\ d + n - 1 - x \in Int
    BY <1>3
  <2>2. x \in Area(d, n) <=> d + n - 1 - x \in 0 .. n - 1
    BY <2>1 DEF Area
  <2>3. ASSUME NEW i \in 1 .. q
        PROVE  x \in D + v[i] .. D + v[i] + w - 1
               <=> u[i] <= d + n - 1 - x /\ d + n - 1 - x < u[i] + w
    <3>1. PICK o \in Nat : o = u[i]
      BY <1>1
    <3>2. v[i] = -o
      BY <1>4, <3>1
    <3>3. x \in D + (-o) .. D + (-o) + w - 1 <=> o <= d + n - 1 - x /\ d + n - 1 - x < o + w
      BY <1>5, <2>1
    <3> QED
      BY <3>1, <3>2, <3>3, Zenon
  <2> QED
    BY <1>2, <2>1, <2>2, <2>3 DEF Covered
<1>9. \A x \in DOMAIN mem : x - D + T = x - d + s
  BY <1>3, <1>5
<1> QED
  BY <1>7, <1>8, <1>9 DEF Moved, Copied, D, T, v, u

---------------------------------------------------------------------------
\* What is written.

\* The lesser of two numbers.
Least(m, n) == IF m < n THEN m ELSE n

\* The length of at most size characters of a string.
LEMMA StrnlenIs ==
  ASSUME Memory(mem), NEW a, NEW n, StrEndsAt(a, n), NEW size \in Nat
  PROVE  strnlen(a, size) = Least(size, n) /\ Least(size, n) \in Nat
<1> DEFINE v == Least(size, n)
<1>1. n \in 0 .. Size /\ Size \in Nat
  BY MemoryIs DEF StrEndsAt
<1>2. v \in 0 .. Size /\ v <= size /\ v <= n /\ (v = size \/ v = n)
  BY <1>1 DEF Least
<1>3. \A k \in 0 .. v - 1 : k < size /\ mem[a + k] # 0
  BY <1>1, <1>2 DEF StrEndsAt
<1>4. ~(v < size /\ mem[a + v] # 0)
  BY <1>2 DEF StrEndsAt
<1> HIDE DEF v
<1>5. ASSUME NEW m \in 0 .. Size, ~(m < size /\ mem[a + m] # 0),
             \A k \in 0 .. m - 1 : k < size /\ mem[a + k] # 0
      PROVE  m = v
  BY <1>1, <1>2, <1>3, <1>4, <1>5
<1>6. strnlen(a, size) = v
  BY <1>2, <1>3, <1>4, <1>5 DEF strnlen, Stop, Size
<1> QED
  BY <1>1, <1>2, <1>6 DEF v

\* The first characters of a text.
LEMMA TakeIs ==
  ASSUME NEW t \in Seq(Nat), NEW j \in Nat
  PROVE  /\ Take(t, j) \in Seq(Nat) /\ Len(Take(t, j)) = Least(j, Len(t))
         /\ \A k \in 1 .. Least(j, Len(t)) : Take(t, j)[k] = t[k]
<1> DEFINE l == Least(j, Len(t))
<1>1. l \in 0 .. Len(t) /\ Len(t) \in Nat
  BY DEF Least
<1>2. Take(t, j) = SubSeq(t, 1, l)
  BY DEF Take, Least
<1> HIDE DEF l
<1>3. SubSeq(t, 1, l) \in Seq(Nat) /\ Len(SubSeq(t, 1, l)) = l
  BY <1>1
<1>4. \A k \in 1 .. l : SubSeq(t, 1, l)[k] = t[k]
  BY <1>1
<1> QED
  BY <1>2, <1>3, <1>4 DEF l

\* A text and one character more.
LEMMA AppendIs ==
  ASSUME NEW t \in Seq(Nat), NEW c \in Nat
  PROVE  /\ Append(t, c) \in Seq(Nat) /\ Len(Append(t, c)) = Len(t) + 1
         /\ \A k \in 1 .. Len(t) : Append(t, c)[k] = t[k]
         /\ Append(t, c)[Len(t) + 1] = c
OBVIOUS

\* The string at an address as a sequence.
LEMMA TextIs ==
  ASSUME Memory(mem), NEW a, NEW n, StrEndsAt(a, n)
  PROVE  /\ String(a) \in Seq(Nat) /\ Len(String(a)) = n /\ n \in Nat /\ a \in Nat
         /\ \A k \in 1 .. n : String(a)[k] = mem[a + k - 1]
<1>1. n \in Nat /\ a \in Nat
  BY DEF StrEndsAt
<1> QED
  BY <1>1, StringIs

\* A text that is what stands at s, written by a copy.
LEMMA CopyWritten ==
  ASSUME Memory(mem), NEW d \in Nat, NEW s \in Nat, NEW t, NEW n \in Nat, Len(t) = n,
         \A k \in 1 .. n : t[k] = mem[s + k - 1], mem' = Copied(d, s, n)
  PROVE  Written(d, t)
<1>1. ASSUME NEW x \in DOMAIN mem, x \in Area(d, n)
      PROVE  mem[x - d + s] = t[x - d + 1]
  <2>1. x \in d .. d + n - 1
    BY <1>1 DEF Area
  <2>2. x - d + 1 \in 1 .. n /\ s + (x - d + 1) - 1 = x - d + s
    BY <2>1
  <2> QED
    BY <2>2
<1> QED
  BY <1>1 DEF Written, Copied

\* A string and its NUL lie in memory.
LEMMA StringRoom ==
  ASSUME Memory(mem), NEW a, NEW n, StrEndsAt(a, n), NEW k \in 0 .. n + 1
  PROVE  Room(a, k)
BY MemoryIs DEF StrEndsAt, Room, Area

\* Copying upwards by characters.
LEMMA CharsMoved ==
  ASSUME Memory(mem), NEW d \in Nat, NEW s \in Nat, NEW n \in Nat, Room(s, n), ~(s < d /\ s + n > d)
  PROVE  MoveUnits(mem, d, s, Ascending(n, 1), 1) = Copied(d, s, n)
<1>1. n % 1 = 0
  OBVIOUS
<1> QED
  BY <1>1, MovedUp

\* strcpy().
LEMMA StrcpyIs ==
  ASSUME Memory(mem), NEW d \in Nat, NEW s, NEW n, StrEndsAt(s, n), ~(s < d /\ s + (n + 1) > d)
  PROVE  strcpy(d, s) = Copied(d, s, n + 1)
<1>1. s \in Nat /\ n \in Nat /\ n + 1 \in Nat /\ n + 1 \in 0 .. n + 1
  BY DEF StrEndsAt
<1>2. strlen(s) = n
  BY StrlenIs
<1>3. Room(s, n + 1)
  BY <1>1, StringRoom
<1> QED
  BY <1>1, <1>2, <1>3, CharsMoved DEF strcpy

\* The string at s with its NUL.
LEMMA WithNul ==
  ASSUME Memory(mem), NEW s, NEW n, StrEndsAt(s, n)
  PROVE  /\ Append(String(s), 0) \in Seq(Nat) /\ Len(Append(String(s), 0)) = n + 1
         /\ \A k \in 1 .. n + 1 : Append(String(s), 0)[k] = mem[s + k - 1]
<1> DEFINE t == String(s)
<1>1. t \in Seq(Nat) /\ Len(t) = n /\ n \in Nat /\ s \in Nat /\ \A k \in 1 .. n : t[k] = mem[s + k - 1]
  BY TextIs
<1> HIDE DEF t
<1>2. mem[s + n] = 0 /\ s + (n + 1) - 1 = s + n
  BY <1>1 DEF StrEndsAt
<1>3. /\ Append(t, 0) \in Seq(Nat) /\ Len(Append(t, 0)) = n + 1
      /\ \A k \in 1 .. n : Append(t, 0)[k] = t[k]
      /\ Append(t, 0)[n + 1] = 0
  BY <1>1, AppendIs
<1>4. \A k \in 1 .. n + 1 : k \in 1 .. n \/ k = n + 1
  BY <1>1
<1> QED
  BY <1>1, <1>2, <1>3, <1>4 DEF t

\* strcpy() writes the string and its NUL.
LEMMA StrcpyWrites ==
  ASSUME Memory(mem), NEW d \in DOMAIN mem, NEW s \in DOMAIN mem, Str(s),
         Apart(d, strlen(s) + 1, s, strlen(s) + 1), mem' = strcpy(d, s)
  PROVE  Written(d, Append(String(s), 0))
<1>1. PICK n \in Nat : StrEndsAt(s, n)
  BY StrEnds
<1>2. d \in Nat /\ s \in Nat /\ strlen(s) = n
  BY <1>1, MemoryIs, StrlenIs
<1>3. ~(s < d /\ s + (n + 1) > d)
  <2> SUFFICES ASSUME s < d, s + (n + 1) > d
               PROVE  FALSE
    OBVIOUS
  <2>1. d \in Area(d, n + 1) /\ d \in Area(s, n + 1)
    BY <1>2 DEF Area
  <2> QED
    BY <1>2, <2>1 DEF Apart
<1>4. mem' = Copied(d, s, n + 1)
  BY <1>1, <1>2, <1>3, StrcpyIs
<1> DEFINE t == Append(String(s), 0)
<1>5. n + 1 \in Nat /\ Len(t) = n + 1 /\ \A k \in 1 .. n + 1 : t[k] = mem[s + k - 1]
  BY <1>1, WithNul
<1> HIDE DEF t
<1>6. Written(d, t)
  BY ONLY <1>2, <1>4, <1>5, CopyWritten, Memory(mem)
<1> QED
  BY <1>6 DEF t

\* strcat() writes it behind the string that is there.
LEMMA StrcatWrites ==
  ASSUME Memory(mem), NEW d \in DOMAIN mem, NEW s \in DOMAIN mem, Str(d), Str(s),
         Apart(d, strlen(d) + strlen(s) + 1, s, strlen(s) + 1), mem' = strcat(d, s)
  PROVE  Written(d, String(d) \o Append(String(s), 0))
<1>1. PICK n \in Nat : StrEndsAt(s, n)
  BY StrEnds
<1>2. PICK m \in Nat : StrEndsAt(d, m)
  BY StrEnds
<1>3. d \in Nat /\ s \in Nat /\ strlen(s) = n /\ strlen(d) = m
  BY <1>1, <1>2, MemoryIs, StrlenIs
<1>4. ~(s < d + m /\ s + (n + 1) > d + m)
  <2> SUFFICES ASSUME s < d + m, s + (n + 1) > d + m
               PROVE  FALSE
    OBVIOUS
  <2>1. d + m \in Area(d, m + n + 1) /\ d + m \in Area(s, n + 1)
    BY <1>3 DEF Area
  <2> QED
    BY <1>3, <2>1 DEF Apart
<1>5. d + m \in Nat /\ mem' = Copied(d + m, s, n + 1)
  BY <1>1, <1>3, <1>4, StrcpyIs DEF strcat
<1> DEFINE a == String(d)
           b == Append(String(s), 0)
           t == a \o b
<1>6. a \in Seq(Nat) /\ Len(a) = m /\ \A k \in 1 .. m : a[k] = mem[d + k - 1]
  BY <1>2, TextIs
<1>7. b \in Seq(Nat) /\ Len(b) = n + 1 /\ \A k \in 1 .. n + 1 : b[k] = mem[s + k - 1]
  BY <1>1, WithNul
<1> HIDE DEF a, b
<1>8. /\ t \in Seq(Nat) /\ Len(t) = m + n + 1
      /\ \A k \in 1 .. m + n + 1 : t[k] = IF k <= m THEN a[k] ELSE b[k - m]
  <2>1. t \in Seq(Nat) /\ Len(t) = Len(a) + Len(b)
    BY <1>6, <1>7, ConcatProperties
  <2>2. \A k \in 1 .. Len(a) + Len(b) : t[k] = IF k <= Len(a) THEN a[k] ELSE b[k - Len(a)]
    BY <1>6, <1>7, ConcatProperties
  <2>3. Len(a) + Len(b) = m + n + 1
    BY <1>6, <1>7
  <2> HIDE DEF t
  <2> QED
    BY <1>6, <2>1, <2>2, <2>3
<1> HIDE DEF t
<1>9. ASSUME NEW x \in DOMAIN mem
      PROVE  (IF x \in Area(d + m, n + 1) THEN mem[x - (d + m) + s] ELSE mem[x])
             = IF x \in Area(d, m + n + 1) THEN t[x - d + 1] ELSE mem[x]
  <2>0. x \in Int
    BY MemoryIs
  <2>1. CASE x \in d .. d + m - 1
    <3>1. x - d + 1 \in 1 .. m /\ d + (x - d + 1) - 1 = x /\ x - d + 1 \in 1 .. m + n + 1 /\ x - d + 1 <= m
      BY <1>3, <2>0, <2>1
    <3>2. t[x - d + 1] = mem[x]
      BY <1>6, <1>8, <3>1
    <3>3. x \notin Area(d + m, n + 1)
      BY <1>3, <2>0, <2>1 DEF Area
    <3> QED
      BY <3>2, <3>3
  <2>2. CASE x \in d + m .. d + m + n
    <3>1. PICK j \in 1 .. n + 1 : j = x - (d + m) + 1
      BY <1>3, <2>0, <2>2
    <3>2. m + j \in 1 .. m + n + 1 /\ ~ m + j <= m /\ (m + j) - m = j /\ m + j = x - d + 1
      BY <1>3, <2>0, <3>1
    <3>4. t[m + j] = b[j]
      BY <1>8, <3>2
    <3>6. s + j - 1 = x - (d + m) + s
      BY <1>3, <2>0, <3>1
    <3>5. t[x - d + 1] = mem[x - (d + m) + s]
      BY <1>7, <3>1, <3>2, <3>4, <3>6
    <3>3. x \in Area(d + m, n + 1) /\ x \in Area(d, m + n + 1)
      BY <1>3, <2>0, <2>2 DEF Area
    <3> QED
      BY <3>3, <3>5
  <2>3. CASE x \notin d .. d + m - 1 /\ x \notin d + m .. d + m + n
    <3>1. x \notin Area(d + m, n + 1) /\ x \notin Area(d, m + n + 1)
      BY <1>3, <2>0, <2>3 DEF Area
    <3> QED
      BY <3>1
  <2> QED
    BY <2>1, <2>2, <2>3
<1>10. Written(d, t)
  <2>1. mem' = [x \in DOMAIN mem |-> IF x \in Area(d + m, n + 1) THEN mem[x - (d + m) + s] ELSE mem[x]]
    BY <1>5 DEF Copied
  <2>2. mem' = [x \in DOMAIN mem |-> IF x \in Area(d, m + n + 1) THEN t[x - d + 1] ELSE mem[x]]
    BY <1>9, <2>1
  <2> QED
    BY <1>8, <2>2 DEF Written
<1> QED
  BY <1>10 DEF t, a, b

\* strncpy() fills up with NULs.
LEMMA StrncpyWrites ==
  ASSUME Memory(mem), NEW d \in DOMAIN mem, NEW s \in DOMAIN mem, NEW n \in Nat, Str(s),
         mem' = strncpy(d, s, n)
  PROVE  Written(d, [k \in 1 .. n |-> IF k <= Len(String(s)) THEN String(s)[k] ELSE 0])
<1>1. PICK m \in Nat : StrEndsAt(s, m)
  BY StrEnds
<1>2. d \in Nat /\ s \in Nat /\ strnlen(s, n) = Least(n, m)
  BY <1>1, MemoryIs, StrnlenIs
<1> DEFINE a == String(s)
           t == [k \in 1 .. n |-> IF k <= Len(a) THEN a[k] ELSE 0]
<1>3. Len(a) = m /\ \A k \in 1 .. m : a[k] = mem[s + k - 1]
  BY <1>1, TextIs
<1>4. mem[s + m] = 0
  BY <1>1 DEF StrEndsAt
<1> HIDE DEF a
<1>5. Len(t) = n /\ \A k \in 1 .. n : t[k] = IF k <= m THEN a[k] ELSE 0
  BY <1>3
<1> HIDE DEF t
<1>6. ASSUME NEW x \in DOMAIN mem, x \in d .. d + n - 1
      PROVE  mem[s + (IF x - d < Least(n, m) THEN x - d ELSE Least(n, m))] = t[x - d + 1]
  <2>1. PICK k \in 1 .. n : k = x - d + 1
    BY <1>2, <1>6
  <2>2. t[k] = IF k <= m THEN a[k] ELSE 0
    BY <1>5
  <2>3. CASE k <= m
    <3>1. k \in 1 .. m /\ x - d < Least(n, m) /\ s + k - 1 = s + (x - d)
      BY <1>2, <1>6, <2>1, <2>3 DEF Least
    <3> QED
      BY <1>3, <2>1, <2>2, <2>3, <3>1
  <2>4. CASE ~ k <= m
    <3>1. ~ x - d < Least(n, m) /\ Least(n, m) = m
      BY <1>2, <1>6, <2>1, <2>4 DEF Least
    <3> QED
      BY <1>4, <2>1, <2>2, <2>4, <3>1
  <2> QED
    BY <2>3, <2>4
<1>7. mem' = [x \in DOMAIN mem |-> IF x \in d .. d + n - 1
                THEN mem[s + (IF x - d < Least(n, m) THEN x - d ELSE Least(n, m))] ELSE mem[x]]
  BY <1>2 DEF strncpy
<1>8. mem' = [x \in DOMAIN mem |-> IF x \in d .. d + n - 1 THEN t[x - d + 1] ELSE mem[x]]
  BY <1>6, <1>7
<1>9. Written(d, t)
  BY <1>5, <1>8 DEF Written, Area
<1> QED
  BY <1>9 DEF t, a

\* The first characters of the string at s, with a NUL.
LEMMA TakenWithNul ==
  ASSUME Memory(mem), NEW s, NEW m, StrEndsAt(s, m), NEW j \in Nat
  PROVE  /\ Len(Take(String(s), j)) = Least(j, m) /\ Len(Append(Take(String(s), j), 0)) = Least(j, m) + 1
         /\ \A k \in 1 .. Least(j, m) : Append(Take(String(s), j), 0)[k] = mem[s + k - 1]
         /\ Append(Take(String(s), j), 0)[Least(j, m) + 1] = 0
<1> DEFINE a == String(s)
           t == Take(a, j)
           l == Least(j, m)
<1>1. a \in Seq(Nat) /\ Len(a) = m /\ m \in Nat /\ \A k \in 1 .. m : a[k] = mem[s + k - 1]
  BY TextIs
<1> HIDE DEF a
<1>2. t \in Seq(Nat) /\ Len(t) = l /\ \A k \in 1 .. l : t[k] = a[k]
  BY <1>1, TakeIs
<1>3. l \in 0 .. m
  BY <1>1 DEF Least
<1> HIDE DEF t, l
<1>4. /\ Len(Append(t, 0)) = l + 1 /\ Append(t, 0)[l + 1] = 0
      /\ \A k \in 1 .. l : Append(t, 0)[k] = t[k]
  BY <1>2, AppendIs
<1>5. \A k \in 1 .. l : k \in 1 .. m
  BY <1>1, <1>3
<1>6. \A k \in 1 .. l : Append(t, 0)[k] = mem[s + k - 1]
  BY <1>1, <1>2, <1>4, <1>5
<1> QED
  BY <1>2, <1>4, <1>6 DEF t, l, a

\* strlcpy() writes as much of the string as has room before a NUL.
LEMMA StrlcpyWrites ==
  ASSUME Memory(mem), NEW d \in DOMAIN mem, NEW s \in DOMAIN mem, NEW n \in Nat, Str(s), Room(d, n),
         Apart(d, n, s, strlen(s) + 1), mem' = strlcpy(d, s, n),
         ret' = IF n = 0 THEN 0 ELSE strnlen(s, n - 1)
  PROVE  /\ Written(d, IF n = 0 THEN << >> ELSE Append(Take(String(s), n - 1), 0))
         /\ n > 0 => ret' = Len(Take(String(s), n - 1))
<1>1. PICK m \in Nat : StrEndsAt(s, m)
  BY StrEnds
<1>2. d \in Nat /\ s \in Nat /\ strlen(s) = m
  BY <1>1, MemoryIs, StrlenIs
<1>3. CASE n = 0
  <2>1. mem' = mem
    BY <1>3 DEF strlcpy
  <2>2. Area(d, 0) = {}
    BY <1>2 DEF Area
  <2>3. mem = [x \in DOMAIN mem |-> mem[x]]
    BY DEF Memory
  <2>4. Written(d, << >>)
    BY <2>1, <2>2, <2>3 DEF Written
  <2> QED
    BY <1>3, <2>4
<1>4. CASE n # 0
  <2>0. n - 1 \in Nat
    BY <1>4
  <2> DEFINE l == Least(n - 1, m)
             t == Append(Take(String(s), n - 1), 0)
  <2>1. strnlen(s, n - 1) = l
    BY <1>1, <2>0, StrnlenIs
  <2>2. /\ Len(Take(String(s), n - 1)) = l /\ Len(t) = l + 1
        /\ \A k \in 1 .. l : t[k] = mem[s + k - 1]
        /\ t[l + 1] = 0
    BY <1>1, <2>0, TakenWithNul
  <2>3. l \in Nat /\ l <= m /\ l < n
    BY <1>4 DEF Least
  <2> HIDE DEF l, t
  <2>4. ~(s < d /\ s + l > d)
    <3> SUFFICES ASSUME s < d, s + l > d
                 PROVE  FALSE
      OBVIOUS
    <3>1. d \in Area(d, n) /\ d \in Area(s, m + 1)
      BY <1>2, <1>4, <2>3 DEF Area
    <3> QED
      BY <1>2, <3>1 DEF Apart
  <2>5. Room(s, l)
    <3>1. l \in 0 .. m + 1
      BY <2>3
    <3> QED
      BY <1>1, <3>1, StringRoom
  <2>6. mem' = Set(Copied(d, s, l), d + l, 0)
    BY <1>2, <1>4, <2>1, <2>3, <2>4, <2>5, CharsMoved DEF strlcpy
  <2>7. mem' = [x \in DOMAIN mem |-> IF x = d + l THEN 0
                                      ELSE IF x \in Area(d, l) THEN mem[x - d + s] ELSE mem[x]]
    BY <2>6 DEF Set, Copied
  <2>8. ASSUME NEW x \in DOMAIN mem
        PROVE  (IF x = d + l THEN 0 ELSE IF x \in Area(d, l) THEN mem[x - d + s] ELSE mem[x])
               = IF x \in Area(d, l + 1) THEN t[x - d + 1] ELSE mem[x]
    <3>0. x \in Int
      BY MemoryIs
    <3>1. CASE x = d + l
      <4>1. x \in Area(d, l + 1) /\ x - d + 1 = l + 1
        BY <1>2, <2>3, <3>1 DEF Area
      <4> QED
        BY <2>2, <3>1, <4>1
    <3>2. CASE x \in Area(d, l)
      <4>1. PICK k \in 1 .. l : k = x - d + 1
        BY <1>2, <2>3, <3>2 DEF Area
      <4>2. x \in Area(d, l + 1) /\ s + k - 1 = x - d + s /\ x # d + l
        BY <1>2, <2>3, <3>2, <4>1 DEF Area
      <4> QED
        BY <2>2, <3>2, <4>1, <4>2
    <3>3. CASE x # d + l /\ x \notin Area(d, l)
      <4>1. x \notin Area(d, l + 1)
        BY <1>2, <2>3, <3>0, <3>3 DEF Area
      <4> QED
        BY <3>3, <4>1
    <3> QED
      BY <3>1, <3>2, <3>3
  <2>9. Written(d, t)
    <3>1. mem' = [x \in DOMAIN mem |-> IF x \in Area(d, l + 1) THEN t[x - d + 1] ELSE mem[x]]
      BY <2>7, <2>8
    <3> QED
      BY <2>2, <3>1 DEF Written
  <2>10. ret' = Len(Take(String(s), n - 1))
    BY <1>4, <2>1, <2>2
  <2> QED
    BY <1>4, <2>9, <2>10 DEF t
<1> QED
  BY <1>3, <1>4

\* The characters of an area.
LEMMA CharsAre ==
  ASSUME Memory(mem), NEW a \in Nat, NEW n \in Nat, Room(a, n)
  PROVE  /\ Chars(a, n) \in Seq(Nat) /\ Len(Chars(a, n)) = n
         /\ \A k \in 1 .. n : Chars(a, n)[k] = mem[a + k - 1]
<1>1. ASSUME NEW k \in 1 .. n
      PROVE  mem[a + k - 1] \in Nat
  <2>1. a + k - 1 \in a .. a + n - 1
    OBVIOUS
  <2>2. a + k - 1 \in DOMAIN mem
    BY <2>1 DEF Room, Area
  <2> QED
    BY <2>2 DEF Memory
<1> QED
  BY <1>1 DEF Chars

\* memmove() copies the area, wherever the two are.
LEMMA MemmoveWrites ==
  ASSUME StringsAssumption, Memory(mem), NEW d \in DOMAIN mem, NEW s \in DOMAIN mem, NEW n \in Nat,
         Room(d, n), Room(s, n), mem' = memmove(d, s, n)
  PROVE  Written(d, Chars(s, n))
<1> DEFINE down == s < d /\ s + n > d
           e == IF down THEN s + n ELSE s
           f == IF down THEN d + n ELSE d
           w == IF Aligned(e) /\ Aligned(f) /\ Aligned(n) THEN WORD ELSE 1
<1>1. d \in Nat /\ s \in Nat
  BY MemoryIs
<1>2. w \in Nat \ {0} /\ n % w = 0
  <2>1. n % 1 = 0
    OBVIOUS
  <2> QED
    BY <2>1 DEF StringsAssumption, Aligned
<1>3. mem' = IF down THEN MoveUnits(mem, f - w, e - w, [k \in DOMAIN Ascending(n, w) |-> -Ascending(n, w)[k]], w)
             ELSE MoveUnits(mem, f, e, Ascending(n, w), w)
  BY DEF memmove
<1> HIDE DEF w
<1>4. mem' = Copied(d, s, n)
  <2>1. CASE down
    BY <1>1, <1>2, <1>3, <2>1, MovedDown
  <2>2. CASE ~down
    BY <1>1, <1>2, <1>3, <2>2, MovedUp
  <2> QED
    BY <2>1, <2>2
<1>5. Len(Chars(s, n)) = n /\ \A k \in 1 .. n : Chars(s, n)[k] = mem[s + k - 1]
  BY <1>1, CharsAre
<1> QED
  BY <1>1, <1>4, <1>5, CopyWritten

\* memset() fills the area.
LEMMA MemsetWrites ==
  ASSUME StringsAssumption, Memory(mem), NEW v \in DOMAIN mem, NEW c \in Int, NEW n \in Nat,
         mem' = memset(v, c, n)
  PROVE  Written(v, [k \in 1 .. n |-> c % BYTE])
<1> DEFINE w == IF Aligned(v) /\ Aligned(n) THEN WORD ELSE 1
           t == [k \in 1 .. n |-> c % BYTE]
<1>1. v \in Nat
  BY MemoryIs
<1>2. w \in Nat \ {0} /\ n % w = 0
  <2>1. n % 1 = 0
    OBVIOUS
  <2> QED
    BY <2>1 DEF StringsAssumption, Aligned
<1>3. mem' = [x \in DOMAIN mem |-> IF x \in v .. v + (n \div w) * w - 1 THEN c % BYTE ELSE mem[x]]
  BY DEF memset
<1> HIDE DEF w
<1>4. (n \div w) * w = n
  BY <1>2, Divided
<1>5. Len(t) = n /\ \A k \in 1 .. n : t[k] = c % BYTE
  OBVIOUS
<1> HIDE DEF t
<1>6. \A x \in DOMAIN mem : x \in v .. v + n - 1 => t[x - v + 1] = c % BYTE
  <2> TAKE x \in DOMAIN mem
  <2> HAVE x \in v .. v + n - 1
  <2>1. x - v + 1 \in 1 .. n
    BY <1>1
  <2> QED
    BY <1>5, <2>1
<1>7. mem' = [x \in DOMAIN mem |-> IF x \in v .. v + n - 1 THEN t[x - v + 1] ELSE mem[x]]
  BY <1>3, <1>4, <1>6
<1>8. Written(v, t)
  BY <1>5, <1>7 DEF Written, Area
<1> QED
  BY <1>8 DEF t

---------------------------------------------------------------------------
\* What is compared.

\* Two texts start with the same k characters.
LEMMA TakeSame ==
  ASSUME NEW t \in Seq(Nat), NEW u \in Seq(Nat), NEW k \in Nat, k <= Len(t), k <= Len(u)
  PROVE  Take(t, k) = Take(u, k) <=> \A i \in 1 .. k : t[i] = u[i]
<1>1. Least(k, Len(t)) = k /\ Least(k, Len(u)) = k
  BY DEF Least
<1>2. Take(t, k) \in Seq(Nat) /\ Len(Take(t, k)) = k /\ \A i \in 1 .. k : Take(t, k)[i] = t[i]
  BY <1>1, TakeIs
<1>3. Take(u, k) \in Seq(Nat) /\ Len(Take(u, k)) = k /\ \A i \in 1 .. k : Take(u, k)[i] = u[i]
  BY <1>1, TakeIs
<1>4. ASSUME \A i \in 1 .. k : t[i] = u[i]
      PROVE  Take(t, k) = Take(u, k)
  <2>1. \A i \in 1 .. k : Take(t, k)[i] = Take(u, k)[i]
    BY <1>2, <1>3, <1>4
  <2> QED
    BY <1>2, <1>3, <2>1, SeqEqual
<1>5. ASSUME Take(t, k) = Take(u, k)
      PROVE  \A i \in 1 .. k : t[i] = u[i]
  BY <1>2, <1>3, <1>5
<1> QED
  BY <1>4, <1>5

\* n characters are common to two texts, and no more.
Common(t, u, n) ==
  /\ n \in Nat /\ n <= Len(t) /\ n <= Len(u) /\ \A i \in 1 .. n : t[i] = u[i]
  /\ n < Len(t) /\ n < Len(u) => t[n + 1] # u[n + 1]

\* Which of them comes before the other is seen behind these.
LEMMA BeforeIs ==
  ASSUME NEW t \in Seq(Nat), NEW u \in Seq(Nat), NEW n, Common(t, u, n)
  PROVE  Before(t, u) <=> n < Len(u) /\ (n = Len(t) \/ t[n + 1] < u[n + 1])
<1>0. Len(t) \in Nat /\ Len(u) \in Nat /\ n \in Nat
  BY DEF Common
<1>1. ASSUME n < Len(u), n = Len(t) \/ t[n + 1] < u[n + 1]
      PROVE  Before(t, u)
  <2>1. n <= Len(t) /\ n <= Len(u) /\ n \in 0 .. Len(t) /\ n \in Nat
    BY <1>0 DEF Common
  <2>2. Take(t, n) = Take(u, n)
    BY <2>1, TakeSame DEF Common
  <2> QED
    BY <1>1, <2>1, <2>2 DEF Before
<1>2. ASSUME Before(t, u)
      PROVE  n < Len(u) /\ (n = Len(t) \/ t[n + 1] < u[n + 1])
  <2>1. PICK k \in 0 .. Len(t) : /\ k < Len(u) /\ Take(t, k) = Take(u, k)
                                 /\ k = Len(t) \/ t[k + 1] < u[k + 1]
    BY <1>2 DEF Before
  <2>2. \A i \in 1 .. k : t[i] = u[i]
    BY <1>0, <2>1, TakeSame
  <2>3. ~ k < n
    <3> SUFFICES ASSUME k < n
                 PROVE  FALSE
      OBVIOUS
    <3>1. k + 1 \in 1 .. n /\ k # Len(t)
      BY <1>0 DEF Common
    <3>2. t[k + 1] = u[k + 1] /\ t[k + 1] \in Nat
      BY <1>0, <3>1 DEF Common
    <3> QED
      BY <2>1, <3>1, <3>2
  <2>4. ~ n < k
    <3> SUFFICES ASSUME n < k
                 PROVE  FALSE
      OBVIOUS
    <3>1. n + 1 \in 1 .. k /\ n < Len(t) /\ n < Len(u)
      BY <1>0, <2>1
    <3> QED
      BY <2>2, <3>1 DEF Common
  <2>5. n = k
    BY <1>0, <2>3, <2>4
  <2> QED
    BY <2>1, <2>5
<1> QED
  BY <1>1, <1>2

\* The answer compares two texts if it tells what is behind these.
LEMMA ComparesIs ==
  ASSUME NEW t \in Seq(Nat), NEW u \in Seq(Nat), NEW n, Common(t, u, n),
         \/ n = Len(t) /\ n = Len(u) /\ ret' = 0
         \/ n = Len(t) /\ n < Len(u) /\ ret' \in Int /\ ret' < 0
         \/ n < Len(t) /\ n = Len(u) /\ ret' \in Int /\ ret' > 0
         \/ n < Len(t) /\ n < Len(u) /\ ret' = t[n + 1] - u[n + 1]
  PROVE  Compares(t, u)
<1>1. Before(t, u) <=> n < Len(u) /\ (n = Len(t) \/ t[n + 1] < u[n + 1])
  BY BeforeIs
<1>2. Common(u, t, n)
  BY DEF Common
<1>3. Before(u, t) <=> n < Len(t) /\ (n = Len(u) \/ u[n + 1] < t[n + 1])
  BY <1>2, BeforeIs
<1>4. n \in Nat /\ Len(t) \in Nat /\ Len(u) \in Nat
  BY DEF Common
<1>5. CASE n = Len(t) /\ n = Len(u) /\ ret' = 0
  BY <1>1, <1>3, <1>4, <1>5 DEF Compares
<1>6. CASE n = Len(t) /\ n < Len(u) /\ ret' \in Int /\ ret' < 0
  BY <1>1, <1>3, <1>4, <1>6 DEF Compares
<1>7. CASE n < Len(t) /\ n = Len(u) /\ ret' \in Int /\ ret' > 0
  BY <1>1, <1>3, <1>4, <1>7 DEF Compares
<1>8. CASE n < Len(t) /\ n < Len(u) /\ ret' = t[n + 1] - u[n + 1]
  <2>1. PICK x \in Nat, y \in Nat : x = t[n + 1] /\ y = u[n + 1]
    BY <1>4, <1>8
  <2>2. (Before(t, u) <=> x < y) /\ (Before(u, t) <=> y < x) /\ ret' = x - y
    BY <1>1, <1>3, <1>4, <1>8, <2>1
  <2> QED
    BY <2>2 DEF Compares
<1> QED
  BY <1>5, <1>6, <1>7, <1>8

\* The first of a set of places.
LEMMA FirstStop ==
  ASSUME Memory(mem), NEW S, S \subseteq 0 .. Size, NEW y \in S
  PROVE  \E n \in S : /\ n \in Nat /\ n <= y /\ \A k \in 0 .. n - 1 : k \notin S
                      /\ \A z \in S : n <= z
                      /\ \A j \in 0 .. Size : j \in S /\ (\A k \in 0 .. j - 1 : k \notin S) => j = n
<1>1. Size \in Nat
  BY MemoryIs
<1>2. S \subseteq Nat
  BY <1>1
<1>3. PICK n \in S : \A k \in S : n <= k
  BY <1>2, LeastOfNat
<1>4. \A k \in 0 .. n - 1 : k \notin S
  <2>1. \A k \in 0 .. n - 1 : ~ n <= k
    BY <1>2
  <2> QED
    BY <1>3, <2>1
<1>5. ASSUME NEW j \in 0 .. Size, j \in S, \A k \in 0 .. j - 1 : k \notin S
      PROVE  j = n
  <2>1. n <= j
    BY <1>3, <1>5
  <2>2. n < j => n \in 0 .. j - 1
    BY <1>2
  <2> QED
    BY <1>2, <1>5, <2>1, <2>2
<1> QED
  BY <1>2, <1>3, <1>4, <1>5

\* Where strcmp() stops.
LEMMA StrcmpIs ==
  ASSUME Memory(mem), NEW p, NEW l, StrEndsAt(p, l), NEW q, NEW m, StrEndsAt(q, m)
  PROVE  \E n \in Nat : /\ n <= l /\ n <= m /\ \A k \in 0 .. n - 1 : mem[p + k] = mem[q + k]
                        /\ n < l /\ n < m => mem[p + n] # mem[q + n]
                        /\ strcmp(p, q) = mem[p + n] - mem[q + n]
<1> DEFINE Same(k) == mem[p + k] # 0 /\ mem[p + k] = mem[q + k]
           S == {k \in 0 .. Size : ~Same(k)}
<1>1. /\ l \in 0 .. Size /\ m \in 0 .. Size /\ Size \in Nat
      /\ mem[p + l] = 0 /\ \A k \in 0 .. l - 1 : mem[p + k] # 0
      /\ mem[q + m] = 0 /\ \A k \in 0 .. m - 1 : mem[q + k] # 0
  BY MemoryIs DEF StrEndsAt
<1>2. l \in S /\ m \in S
  BY <1>1
<1>3. PICK n \in S : /\ n \in Nat /\ \A k \in 0 .. n - 1 : k \notin S
                     /\ \A z \in S : n <= z
                     /\ \A j \in 0 .. Size : j \in S /\ (\A k \in 0 .. j - 1 : k \notin S) => j = n
  <2> HIDE DEF S
  <2>1. S \subseteq 0 .. Size
    BY DEF S
  <2>2. l \in S
    BY <1>2
  <2> QED
    BY ONLY <2>1, <2>2, FirstStop, Memory(mem)
<1>4. n \in 0 .. Size /\ n <= l /\ n <= m /\ ~Same(n)
  BY <1>2, <1>3
<1>5. \A j \in 0 .. Size : \A k \in 0 .. j - 1 : k \in 0 .. Size
  BY <1>1
<1>6. \A k \in 0 .. n - 1 : Same(k)
  BY <1>3, <1>4, <1>5
<1>7. \A j \in 0 .. Size : ~Same(j) /\ (\A k \in 0 .. j - 1 : Same(k)) => j = n
  BY <1>3, <1>5
<1>8. Stop(LAMBDA k : mem[p + k] # 0 /\ mem[p + k] = mem[q + k]) = n
  BY <1>4, <1>6, <1>7, Zenon DEF Stop, Size
<1>9. strcmp(p, q) = mem[p + n] - mem[q + n]
  BY <1>8 DEF strcmp
<1>10. n < l => mem[p + n] # 0
  BY <1>1, <1>3
<1> QED
  BY <1>3, <1>4, <1>6, <1>9, <1>10

\* Where strncmp() stops.
LEMMA StrncmpIs ==
  ASSUME Memory(mem), NEW p, NEW l, StrEndsAt(p, l), NEW q, NEW m, StrEndsAt(q, m), NEW size \in 0 .. Size
  PROVE  \E n \in Nat : /\ n <= l /\ n <= m /\ n <= size /\ \A k \in 0 .. n - 1 : mem[p + k] = mem[q + k]
                        /\ n < l /\ n < m /\ n < size => mem[p + n] # mem[q + n]
                        /\ strncmp(p, q, size) = IF n = size THEN 0 ELSE mem[p + n] - mem[q + n]
<1> DEFINE Same(k) == k < size /\ mem[p + k] # 0 /\ mem[p + k] = mem[q + k]
           S == {k \in 0 .. Size : ~Same(k)}
<1>1. /\ l \in 0 .. Size /\ m \in 0 .. Size /\ Size \in Nat
      /\ mem[p + l] = 0 /\ \A k \in 0 .. l - 1 : mem[p + k] # 0
      /\ mem[q + m] = 0 /\ \A k \in 0 .. m - 1 : mem[q + k] # 0
  BY MemoryIs DEF StrEndsAt
<1>2. l \in S /\ m \in S /\ size \in S
  BY <1>1
<1>3. PICK n \in S : /\ n \in Nat /\ \A k \in 0 .. n - 1 : k \notin S
                     /\ \A z \in S : n <= z
                     /\ \A j \in 0 .. Size : j \in S /\ (\A k \in 0 .. j - 1 : k \notin S) => j = n
  <2> HIDE DEF S
  <2>1. S \subseteq 0 .. Size
    BY DEF S
  <2> QED
    BY ONLY <1>2, <2>1, FirstStop, Memory(mem)
<1>4. n \in 0 .. Size /\ n <= l /\ n <= m /\ n <= size /\ ~Same(n)
  BY <1>2, <1>3
<1>5. \A j \in 0 .. Size : \A k \in 0 .. j - 1 : k \in 0 .. Size
  BY <1>1
<1>6. \A k \in 0 .. n - 1 : Same(k)
  BY <1>3, <1>4, <1>5
<1>7. \A j \in 0 .. Size : ~Same(j) /\ (\A k \in 0 .. j - 1 : Same(k)) => j = n
  BY <1>3, <1>5
<1>8. Stop(LAMBDA k : k < size /\ mem[p + k] # 0 /\ mem[p + k] = mem[q + k]) = n
  BY <1>4, <1>6, <1>7, Zenon DEF Stop, Size
<1>9. strncmp(p, q, size) = IF n = size THEN 0 ELSE mem[p + n] - mem[q + n]
  BY <1>8 DEF strncmp
<1>10. n < l => mem[p + n] # 0
  BY <1>1, <1>3
<1> QED
  BY <1>3, <1>4, <1>6, <1>9, <1>10

\* Where memcmp() stops.
LEMMA MemcmpIs ==
  ASSUME Memory(mem), NEW p, NEW q, NEW size \in 0 .. Size
  PROVE  \E n \in Nat : /\ n <= size /\ \A k \in 0 .. n - 1 : mem[p + k] = mem[q + k]
                        /\ n < size => mem[p + n] # mem[q + n]
                        /\ memcmp(p, q, size) = IF n = size THEN 0 ELSE mem[p + n] - mem[q + n]
<1> DEFINE Same(k) == k < size /\ mem[p + k] = mem[q + k]
           S == {k \in 0 .. Size : ~Same(k)}
<1>1. Size \in Nat
  BY MemoryIs
<1>2. size \in S
  BY <1>1
<1>3. PICK n \in S : /\ n \in Nat /\ \A k \in 0 .. n - 1 : k \notin S
                     /\ \A z \in S : n <= z
                     /\ \A j \in 0 .. Size : j \in S /\ (\A k \in 0 .. j - 1 : k \notin S) => j = n
  <2> HIDE DEF S
  <2>1. S \subseteq 0 .. Size
    BY DEF S
  <2> QED
    BY ONLY <1>2, <2>1, FirstStop, Memory(mem)
<1>4. n \in 0 .. Size /\ n <= size /\ ~Same(n)
  BY <1>2, <1>3
<1>5. \A j \in 0 .. Size : \A k \in 0 .. j - 1 : k \in 0 .. Size
  BY <1>1
<1>6. \A k \in 0 .. n - 1 : Same(k)
  BY <1>3, <1>4, <1>5
<1>7. \A j \in 0 .. Size : ~Same(j) /\ (\A k \in 0 .. j - 1 : Same(k)) => j = n
  BY <1>3, <1>5
<1>8. Stop(LAMBDA k : k < size /\ mem[p + k] = mem[q + k]) = n
  BY <1>4, <1>6, <1>7, Zenon DEF Stop, Size
<1>9. memcmp(p, q, size) = IF n = size THEN 0 ELSE mem[p + n] - mem[q + n]
  BY <1>8 DEF memcmp
<1> QED
  BY <1>3, <1>4, <1>6, <1>9

\* Areas and the starts of strings are compared up to a size.
LEMMA SizedCompares ==
  ASSUME Memory(mem), NEW p \in Nat, NEW q \in Nat, NEW size \in Nat,
         NEW t, t \in Seq(Nat), NEW u, u \in Seq(Nat), NEW n \in Nat,
         n <= Len(t), n <= Len(u), Len(t) <= size, Len(u) <= size,
         \A k \in 1 .. Len(t) : t[k] = mem[p + k - 1], \A k \in 1 .. Len(u) : u[k] = mem[q + k - 1],
         \A k \in 0 .. n - 1 : mem[p + k] = mem[q + k],
         n < Len(t) /\ n < Len(u) => mem[p + n] # mem[q + n],
         Len(t) < size => mem[p + Len(t)] = 0 /\ \A k \in 1 .. Len(u) : u[k] # 0,
         Len(u) < size => mem[q + Len(u)] = 0 /\ \A k \in 1 .. Len(t) : t[k] # 0,
         ret' = IF n = size THEN 0 ELSE mem[p + n] - mem[q + n]
  PROVE  Compares(t, u)
<1>0. Len(t) \in Nat /\ Len(u) \in Nat
  OBVIOUS
<1>1. n < Len(t) => t[n + 1] = mem[p + n] /\ t[n + 1] \in Nat /\ (Len(u) < size => t[n + 1] # 0)
  <2>1. n < Len(t) => n + 1 \in 1 .. Len(t) /\ p + (n + 1) - 1 = p + n
    BY <1>0
  <2>2. \A k \in 1 .. Len(t) : t[k] \in Nat /\ t[k] = mem[p + k - 1]
    <3>1. \A k \in 1 .. Len(t) : t[k] \in Nat
      BY ONLY t \in Seq(Nat), ElementOfSeq
    <3> QED
      BY <3>1, Zenon
  <2>3. Len(u) < size => \A k \in 1 .. Len(t) : t[k] # 0
    OBVIOUS
  <2> QED
    BY ONLY <2>1, <2>2, <2>3
<1>2. n < Len(u) => u[n + 1] = mem[q + n] /\ u[n + 1] \in Nat /\ (Len(t) < size => u[n + 1] # 0)
  <2>1. n < Len(u) => n + 1 \in 1 .. Len(u) /\ q + (n + 1) - 1 = q + n
    BY <1>0
  <2>2. \A k \in 1 .. Len(u) : u[k] \in Nat /\ u[k] = mem[q + k - 1]
    <3>1. \A k \in 1 .. Len(u) : u[k] \in Nat
      BY ONLY u \in Seq(Nat), ElementOfSeq
    <3> QED
      BY <3>1, Zenon
  <2>3. Len(t) < size => \A k \in 1 .. Len(u) : u[k] # 0
    OBVIOUS
  <2> QED
    BY ONLY <2>1, <2>2, <2>3
<1>3. Common(t, u, n)
  <2>1. ASSUME NEW i \in 1 .. n
        PROVE  t[i] = u[i]
    <3>1. i - 1 \in 0 .. n - 1 /\ p + (i - 1) = p + i - 1 /\ q + (i - 1) = q + i - 1
      OBVIOUS
    <3>2. i \in 1 .. Len(t) /\ i \in 1 .. Len(u)
      BY <1>0
    <3> QED
      BY <3>1, <3>2
  <2> QED
    BY <1>1, <1>2, <2>1 DEF Common
<1>4. \/ n = Len(t) /\ n = Len(u) /\ ret' = 0
      \/ n = Len(t) /\ n < Len(u) /\ ret' \in Int /\ ret' < 0
      \/ n < Len(t) /\ n = Len(u) /\ ret' \in Int /\ ret' > 0
      \/ n < Len(t) /\ n < Len(u) /\ ret' = t[n + 1] - u[n + 1]
  <2>1. CASE n = Len(t) /\ n = Len(u)
    BY <1>0, <2>1
  <2>2. CASE n = Len(t) /\ n < Len(u)
    BY <1>0, <1>2, <2>2
  <2>3. CASE n < Len(t) /\ n = Len(u)
    BY <1>0, <1>1, <2>3
  <2>4. CASE n < Len(t) /\ n < Len(u)
    BY <1>0, <1>1, <1>2, <2>4
  <2> QED
    BY <1>0, <2>1, <2>2, <2>3, <2>4
<1> QED
  BY <1>3, <1>4, ComparesIs

\* strcmp() compares strings,
LEMMA StrcmpCompares ==
  ASSUME Memory(mem), NEW p \in DOMAIN mem, NEW q \in DOMAIN mem, Str(p), Str(q), ret' = strcmp(p, q)
  PROVE  Compares(String(p), String(q))
<1>1. PICK l \in Nat : StrEndsAt(p, l)
  BY StrEnds
<1>2. PICK m \in Nat : StrEndsAt(q, m)
  BY StrEnds
<1> DEFINE t == String(p)
           u == String(q)
           size == l + m + 1
<1>3. /\ t \in Seq(Nat) /\ Len(t) = l
      /\ \A k \in 1 .. l : t[k] = mem[p + k - 1] /\ t[k] # 0
  BY <1>1, StringIs
<1>4. /\ u \in Seq(Nat) /\ Len(u) = m
      /\ \A k \in 1 .. m : u[k] = mem[q + k - 1] /\ u[k] # 0
  BY <1>2, StringIs
<1>5. PICK n \in Nat : /\ n <= l /\ n <= m /\ \A k \in 0 .. n - 1 : mem[p + k] = mem[q + k]
                       /\ n < l /\ n < m => mem[p + n] # mem[q + n]
                       /\ strcmp(p, q) = mem[p + n] - mem[q + n]
  BY <1>1, <1>2, StrcmpIs
<1>6. size \in Nat /\ p \in Nat /\ q \in Nat /\ l <= size /\ m <= size /\ n # size
  BY <1>5, MemoryIs
<1> HIDE DEF t, u, size
<1>7. mem[p + l] = 0 /\ mem[q + m] = 0
  BY <1>1, <1>2 DEF StrEndsAt
<1>8. /\ n <= Len(t) /\ n <= Len(u) /\ Len(t) <= size /\ Len(u) <= size
      /\ n < Len(t) /\ n < Len(u) => mem[p + n] # mem[q + n]
      /\ \A k \in 1 .. Len(t) : t[k] = mem[p + k - 1]
      /\ \A k \in 1 .. Len(u) : u[k] = mem[q + k - 1]
      /\ Len(t) < size => mem[p + Len(t)] = 0 /\ \A k \in 1 .. Len(u) : u[k] # 0
      /\ Len(u) < size => mem[q + Len(u)] = 0 /\ \A k \in 1 .. Len(t) : t[k] # 0
  BY <1>3, <1>4, <1>5, <1>6, <1>7
<1>9. ret' = IF n = size THEN 0 ELSE mem[p + n] - mem[q + n]
  BY <1>5, <1>6
<1>10. Compares(t, u)
  BY <1>3, <1>4, <1>5, <1>6, <1>8, <1>9, SizedCompares, Zenon
<1> QED
  BY <1>10 DEF t, u

\* The start of a string.
LEMMA StartIs ==
  ASSUME Memory(mem), NEW a, NEW n, StrEndsAt(a, n), NEW size \in Nat
  PROVE  /\ Take(String(a), size) \in Seq(Nat) /\ Len(Take(String(a), size)) = Least(size, n)
         /\ \A k \in 1 .. Least(size, n) : /\ Take(String(a), size)[k] = mem[a + k - 1]
                                           /\ Take(String(a), size)[k] # 0
<1> DEFINE t == String(a)
           l == Least(size, n)
<1>1. t \in Seq(Nat) /\ Len(t) = n /\ n \in Nat /\ \A k \in 1 .. n : t[k] = mem[a + k - 1] /\ t[k] # 0
  BY StringIs DEF StrEndsAt
<1> HIDE DEF t
<1>2. /\ Take(t, size) \in Seq(Nat) /\ Len(Take(t, size)) = l
      /\ \A k \in 1 .. l : Take(t, size)[k] = t[k]
  BY <1>1, TakeIs
<1>3. \A k \in 1 .. l : k \in 1 .. n
  BY <1>1 DEF Least
<1> HIDE DEF l
<1> QED
  BY <1>1, <1>2, <1>3 DEF t, l

\* strncmp() compares their starts,
LEMMA StrncmpCompares ==
  ASSUME Memory(mem), NEW p \in DOMAIN mem, NEW q \in DOMAIN mem, Str(p), Str(q), NEW size \in 0 .. Size,
         ret' = strncmp(p, q, size)
  PROVE  Compares(Take(String(p), size), Take(String(q), size))
<1>1. PICK l \in Nat : StrEndsAt(p, l)
  BY StrEnds
<1>2. PICK m \in Nat : StrEndsAt(q, m)
  BY StrEnds
<1>3. size \in Nat /\ p \in Nat /\ q \in Nat
  BY MemoryIs
<1> DEFINE t == Take(String(p), size)
           u == Take(String(q), size)
<1>4. /\ t \in Seq(Nat) /\ Len(t) = Least(size, l)
      /\ \A k \in 1 .. Least(size, l) : t[k] = mem[p + k - 1] /\ t[k] # 0
  BY <1>1, <1>3, StartIs
<1>5. /\ u \in Seq(Nat) /\ Len(u) = Least(size, m)
      /\ \A k \in 1 .. Least(size, m) : u[k] = mem[q + k - 1] /\ u[k] # 0
  BY <1>2, <1>3, StartIs
<1> HIDE DEF t, u
<1>6. PICK n \in Nat : /\ n <= l /\ n <= m /\ n <= size /\ \A k \in 0 .. n - 1 : mem[p + k] = mem[q + k]
                       /\ n < l /\ n < m /\ n < size => mem[p + n] # mem[q + n]
                       /\ strncmp(p, q, size) = IF n = size THEN 0 ELSE mem[p + n] - mem[q + n]
  BY <1>1, <1>2, StrncmpIs
<1>7. /\ n <= Len(t) /\ n <= Len(u) /\ Len(t) <= size /\ Len(u) <= size
      /\ n < Len(t) /\ n < Len(u) => mem[p + n] # mem[q + n]
      /\ Len(t) < size => Len(t) = l
      /\ Len(u) < size => Len(u) = m
  BY <1>3, <1>4, <1>5, <1>6 DEF Least
<1>8. mem[p + l] = 0 /\ mem[q + m] = 0
  BY <1>1, <1>2 DEF StrEndsAt
<1>9. /\ \A k \in 1 .. Len(t) : t[k] = mem[p + k - 1]
      /\ \A k \in 1 .. Len(u) : u[k] = mem[q + k - 1]
      /\ Len(t) < size => mem[p + Len(t)] = 0 /\ \A k \in 1 .. Len(u) : u[k] # 0
      /\ Len(u) < size => mem[q + Len(u)] = 0 /\ \A k \in 1 .. Len(t) : t[k] # 0
  BY <1>4, <1>5, <1>7, <1>8
<1>10. ret' = IF n = size THEN 0 ELSE mem[p + n] - mem[q + n]
  BY <1>6
<1>11. Compares(t, u)
  BY <1>3, <1>4, <1>5, <1>6, <1>7, <1>9, <1>10, SizedCompares, Zenon
<1> QED
  BY <1>11 DEF t, u

\* and memcmp() areas.
LEMMA MemcmpCompares ==
  ASSUME Memory(mem), NEW p \in DOMAIN mem, NEW q \in DOMAIN mem, NEW size \in 0 .. Size,
         Room(p, size), Room(q, size), ret' = memcmp(p, q, size)
  PROVE  Compares(Chars(p, size), Chars(q, size))
<1>1. size \in Nat /\ p \in Nat /\ q \in Nat
  BY MemoryIs
<1> DEFINE t == Chars(p, size)
           u == Chars(q, size)
<1>2. t \in Seq(Nat) /\ Len(t) = size /\ \A k \in 1 .. size : t[k] = mem[p + k - 1]
  BY <1>1, CharsAre
<1>3. u \in Seq(Nat) /\ Len(u) = size /\ \A k \in 1 .. size : u[k] = mem[q + k - 1]
  BY <1>1, CharsAre
<1> HIDE DEF t, u
<1>4. PICK n \in Nat : /\ n <= size /\ \A k \in 0 .. n - 1 : mem[p + k] = mem[q + k]
                       /\ n < size => mem[p + n] # mem[q + n]
                       /\ memcmp(p, q, size) = IF n = size THEN 0 ELSE mem[p + n] - mem[q + n]
  BY MemcmpIs
<1>5. /\ n <= Len(t) /\ n <= Len(u) /\ Len(t) <= size /\ Len(u) <= size
      /\ ~ Len(t) < size /\ ~ Len(u) < size
      /\ \A k \in 1 .. Len(t) : t[k] = mem[p + k - 1]
      /\ \A k \in 1 .. Len(u) : u[k] = mem[q + k - 1]
      /\ n < Len(t) /\ n < Len(u) => mem[p + n] # mem[q + n]
  BY <1>1, <1>2, <1>3, <1>4
<1>6. ret' = IF n = size THEN 0 ELSE mem[p + n] - mem[q + n]
  BY <1>4
<1>7. Compares(t, u)
  BY <1>1, <1>2, <1>3, <1>4, <1>5, <1>6, SizedCompares, Zenon
<1> QED
  BY <1>7 DEF t, u

---------------------------------------------------------------------------
\* What is looked for.

\* A text has a character at n and not before, or n is its length.
FirstPlace(t, c, n) ==
  /\ n \in Nat /\ n <= Len(t) /\ \A k \in 1 .. n : t[k] # c % BYTE
  /\ n < Len(t) => t[n + 1] = c % BYTE

\* The addresses of its places.
Found(a, t, c) == {a + k - 1 : k \in Places(t, c)}

\* It is the least of its places.
LEMMA LeastPlace ==
  ASSUME NEW t, t \in Seq(Nat), NEW c, NEW a \in Nat, NEW n, FirstPlace(t, c, n)
  PROVE  /\ Min(Found(a, t, c) \cup {a + Len(t)}) = a + n
         /\ n = Len(t) => Places(t, c) = {}
         /\ n < Len(t) => Min(Found(a, t, c)) = a + n /\ Places(t, c) # {}
<1>1. Len(t) \in Nat /\ n \in Nat /\ n <= Len(t)
  BY DEF FirstPlace
<1>2. \A k \in Places(t, c) : k \in 1 .. Len(t) /\ n < k
  <2> TAKE k \in Places(t, c)
  <2>1. k \in 1 .. Len(t) /\ t[k] = c % BYTE
    BY DEF Places
  <2>2. k \notin 1 .. n
    BY <2>1, Zenon DEF FirstPlace
  <2> QED
    BY <1>1, <2>1, <2>2
<1> DEFINE S == {a + k - 1 : k \in Places(t, c)}
<1>3. S \subseteq Int /\ \A y \in S : a + n <= y
  BY ONLY <1>1, <1>2, a \in Nat
<1>4. n < Len(t) => n + 1 \in Places(t, c) /\ a + n \in S
  <2> SUFFICES ASSUME n < Len(t)
               PROVE  n + 1 \in Places(t, c) /\ a + n \in S
    OBVIOUS
  <2>1. n + 1 \in 1 .. Len(t) /\ a + n = a + (n + 1) - 1
    BY <1>1
  <2>2. t[n + 1] = c % BYTE
    BY DEF FirstPlace
  <2>3. n + 1 \in Places(t, c)
    BY <2>1, <2>2, Zenon DEF Places
  <2> QED
    BY <2>1, <2>3, Zenon
<1>5. n = Len(t) => Places(t, c) = {}
  BY ONLY <1>1, <1>2
<1>6. n < Len(t) => Min(S) = a + n
  <2> HIDE DEF S
  <2> QED
    BY <1>3, <1>4, MinIs
<1>7. Min(S \cup {a + Len(t)}) = a + n
  <2> DEFINE T == S \cup {a + Len(t)}
  <2>1. T \subseteq Int /\ \A y \in T : a + n <= y
    <3>1. a + Len(t) \in Int /\ a + n <= a + Len(t)
      BY ONLY <1>1, a \in Nat
    <3> HIDE DEF S
    <3> QED
      BY ONLY <1>3, <3>1
  <2>2. a + n \in T
    <3> HIDE DEF S
    <3> QED
      BY ONLY <1>1, <1>4
  <2> HIDE DEF T
  <2>3. Min(T) = a + n
    BY <2>1, <2>2, MinIs
  <2> QED
    BY <2>3 DEF T
<1> QED
  BY <1>4, <1>5, <1>6, <1>7, Zenon DEF Found

\* Where strfind() stops,
LEMMA StrfindIs ==
  ASSUME Memory(mem), NEW s, NEW l, StrEndsAt(s, l), NEW c
  PROVE  \E n : FirstPlace(String(s), c, n) /\ strfind(s, c) = s + n
<1> DEFINE Other(k) == mem[s + k] # 0 /\ mem[s + k] # c % BYTE
           S == {k \in 0 .. Size : ~Other(k)}
           t == String(s)
<1>1. l \in 0 .. Size /\ Size \in Nat /\ mem[s + l] = 0
  BY MemoryIs DEF StrEndsAt
<1>2. l \in S
  BY <1>1
<1>3. PICK n \in S : /\ n \in Nat /\ n <= l /\ \A k \in 0 .. n - 1 : k \notin S
                     /\ \A j \in 0 .. Size : j \in S /\ (\A k \in 0 .. j - 1 : k \notin S) => j = n
  <2> HIDE DEF S
  <2>1. S \subseteq 0 .. Size
    BY DEF S
  <2> QED
    BY ONLY <1>2, <2>1, FirstStop, Memory(mem)
<1>4. n \in 0 .. Size /\ ~Other(n)
  BY <1>3
<1>5. \A j \in 0 .. Size : \A k \in 0 .. j - 1 : k \in 0 .. Size
  BY <1>1
<1>6. \A k \in 0 .. n - 1 : Other(k)
  BY <1>3, <1>4, <1>5
<1>7. \A j \in 0 .. Size : ~Other(j) /\ (\A k \in 0 .. j - 1 : Other(k)) => j = n
  BY <1>3, <1>5
<1>8. Stop(LAMBDA k : mem[s + k] # 0 /\ mem[s + k] # c % BYTE) = n
  BY <1>4, <1>6, <1>7, Zenon DEF Stop, Size
<1>9. strfind(s, c) = s + n
  BY <1>8 DEF strfind
<1>10. /\ s \in Nat /\ Len(t) = l /\ l \in Nat
       /\ \A k \in 1 .. l : t[k] = mem[s + k - 1] /\ t[k] # 0
  <2>1. s \in Nat /\ l \in Nat
    BY DEF StrEndsAt
  <2> QED
    BY <2>1, StringIs
<1> HIDE DEF t
<1>11. ASSUME NEW k \in 1 .. n
       PROVE  t[k] # c % BYTE
  <2>1. k - 1 \in 0 .. n - 1 /\ s + (k - 1) = s + k - 1 /\ k \in 1 .. l
    BY <1>3, <1>10
  <2> QED
    BY <1>6, <1>10, <2>1
<1>12. ASSUME n < l
       PROVE  t[n + 1] = c % BYTE
  <2>1. n + 1 \in 1 .. l /\ s + (n + 1) - 1 = s + n
    BY <1>3, <1>10, <1>12
  <2>2. t[n + 1] = mem[s + n] /\ t[n + 1] # 0
    BY <1>10, <2>1
  <2> QED
    BY <1>4, <2>2
<1>13. FirstPlace(t, c, n)
  BY <1>3, <1>10, <1>11, <1>12 DEF FirstPlace
<1> QED
  BY <1>9, <1>13 DEF t

\* which is its answer,
LEMMA StrfindAnswers ==
  ASSUME Memory(mem), NEW s \in DOMAIN mem, Str(s), NEW c, ret' = strfind(s, c)
  PROVE  ret' = Min({s + k - 1 : k \in Places(String(s), c)} \cup {s + Len(String(s))})
<1>1. PICK l \in Nat : StrEndsAt(s, l)
  BY StrEnds
<1>2. PICK n : FirstPlace(String(s), c, n) /\ strfind(s, c) = s + n
  BY <1>1, StrfindIs
<1>3. String(s) \in Seq(Nat) /\ s \in Nat
  BY <1>1, TextIs
<1>4. /\ Min(Found(s, String(s), c) \cup {s + Len(String(s))}) = s + n
      /\ n = Len(String(s)) => Places(String(s), c) = {}
      /\ n < Len(String(s)) => Min(Found(s, String(s), c)) = s + n /\ Places(String(s), c) # {}
  BY ONLY <1>2, <1>3, LeastPlace, Zenon
<1> QED
  BY <1>2, <1>4, Zenon DEF Found

\* and strchr()'s, unless it is the end.
LEMMA StrchrAnswers ==
  ASSUME Memory(mem), NEW s \in DOMAIN mem, Str(s), NEW c, ret' = strchr(s, c)
  PROVE  ret' = Min({s + k - 1 : k \in Places(String(s), c)} \cup
                    (IF Places(String(s), c) = {} THEN {NULL_PTR} ELSE {}))
<1>1. PICK l \in Nat : StrEndsAt(s, l)
  BY StrEnds
<1>2. PICK n : FirstPlace(String(s), c, n) /\ strfind(s, c) = s + n
  BY <1>1, StrfindIs
<1> DEFINE t == String(s)
           S == Found(s, t, c)
<1>3. t \in Seq(Nat) /\ s \in Nat /\ Len(t) = l /\ \A k \in 1 .. l : t[k] = mem[s + k - 1] /\ t[k] # 0
  BY <1>1, StringIs, MemoryIs
<1>4. /\ n = Len(t) => Places(t, c) = {}
      /\ n < Len(t) => Min(S) = s + n /\ Places(t, c) # {}
  BY <1>2, <1>3, LeastPlace, Zenon
<1>5. n \in Nat /\ n <= l
  BY <1>2, <1>3 DEF FirstPlace
<1> HIDE DEF t
<1>6. CASE n = l
  <2>1. mem[s + n] = 0
    BY <1>1, <1>6 DEF StrEndsAt
  <2>2. ret' = NULL_PTR
    BY <1>2, <2>1 DEF strchr
  <2>3. Places(t, c) = {} /\ S = {}
    BY <1>3, <1>4, <1>6 DEF Found
  <2>4. Min({NULL_PTR}) = NULL_PTR
    <3>1. {NULL_PTR} \subseteq Int /\ NULL_PTR \in {NULL_PTR} /\ \A y \in {NULL_PTR} : NULL_PTR <= y
      BY DEF NULL_PTR
    <3> QED
      BY <3>1, MinIs
  <2>5. S \cup (IF Places(t, c) = {} THEN {NULL_PTR} ELSE {}) = {NULL_PTR}
    BY <2>3
  <2> QED
    BY <2>2, <2>4, <2>5, Zenon DEF t, Found
<1>7. CASE n < l
  <2>1. n + 1 \in 1 .. l /\ s + (n + 1) - 1 = s + n
    BY <1>3, <1>5, <1>7
  <2>2. mem[s + n] # 0
    BY <1>3, <2>1
  <2>3. ret' = s + n
    BY <1>2, <2>2 DEF strchr
  <2>4. Min(S) = s + n /\ Places(t, c) # {}
    BY <1>3, <1>4, <1>7
  <2>5. S \cup (IF Places(t, c) = {} THEN {NULL_PTR} ELSE {}) = S
    BY <2>4
  <2> QED
    BY <2>3, <2>4, <2>5, Zenon DEF t, Found
<1> QED
  BY <1>5, <1>6, <1>7

\* memfind() looks in an area.
LEMMA MemfindAnswers ==
  ASSUME Memory(mem), NEW s \in DOMAIN mem, NEW size \in 0 .. Size, Room(s, size), NEW c,
         ret' = memfind(s, c, size)
  PROVE  ret' = Min({s + k - 1 : k \in Places(Chars(s, size), c)} \cup {s + size})
<1> DEFINE Other(k) == k < size /\ mem[s + k] # c % BYTE
           S == {k \in 0 .. Size : ~Other(k)}
           t == Chars(s, size)
<1>1. Size \in Nat /\ s \in Nat /\ size \in Nat
  BY MemoryIs
<1>2. size \in S
  BY <1>1
<1>3. PICK n \in S : /\ n \in Nat /\ n <= size /\ \A k \in 0 .. n - 1 : k \notin S
                     /\ \A j \in 0 .. Size : j \in S /\ (\A k \in 0 .. j - 1 : k \notin S) => j = n
  <2> HIDE DEF S
  <2>1. S \subseteq 0 .. Size
    BY DEF S
  <2> QED
    BY ONLY <1>2, <2>1, FirstStop, Memory(mem)
<1>4. n \in 0 .. Size /\ ~Other(n)
  BY <1>3
<1>5. \A j \in 0 .. Size : \A k \in 0 .. j - 1 : k \in 0 .. Size
  BY <1>1
<1>6. \A k \in 0 .. n - 1 : Other(k)
  BY <1>3, <1>4, <1>5
<1>7. \A j \in 0 .. Size : ~Other(j) /\ (\A k \in 0 .. j - 1 : Other(k)) => j = n
  BY <1>3, <1>5
<1>8. Stop(LAMBDA k : k < size /\ mem[s + k] # c % BYTE) = n
  BY <1>4, <1>6, <1>7, Zenon DEF Stop, Size
<1>9. ret' = s + n
  BY <1>8 DEF memfind
<1>10. t \in Seq(Nat) /\ Len(t) = size /\ \A k \in 1 .. size : t[k] = mem[s + k - 1]
  BY <1>1, CharsAre
<1> HIDE DEF t
<1>11. ASSUME NEW k \in 1 .. n
       PROVE  t[k] # c % BYTE
  <2>1. k - 1 \in 0 .. n - 1 /\ s + (k - 1) = s + k - 1 /\ k \in 1 .. size
    BY <1>1, <1>3
  <2> QED
    BY <1>6, <1>10, <2>1
<1>12. ASSUME n < size
       PROVE  t[n + 1] = c % BYTE
  <2>1. n + 1 \in 1 .. size /\ s + (n + 1) - 1 = s + n
    BY <1>1, <1>3, <1>12
  <2>2. t[n + 1] = mem[s + n]
    BY <1>10, <2>1
  <2> QED
    BY <1>4, <1>12, <2>2
<1>13. FirstPlace(t, c, n)
  BY <1>3, <1>10, <1>11, <1>12 DEF FirstPlace
<1>14. /\ Min(Found(s, t, c) \cup {s + Len(t)}) = s + n
       /\ n = Len(t) => Places(t, c) = {}
       /\ n < Len(t) => Min(Found(s, t, c)) = s + n /\ Places(t, c) # {}
  BY ONLY <1>1, <1>10, <1>13, LeastPlace, Zenon
<1> QED
  BY <1>9, <1>10, <1>14, Zenon DEF t, Found

\* n characters at two addresses are the same.
Same(a, b, n) == \A k \in 0 .. n - 1 : mem[a + k] = mem[b + k]

\* A string starts with another one.
LEMMA PrefixIs ==
  ASSUME Memory(mem), NEW a, NEW l, StrEndsAt(a, l), NEW b, NEW m, StrEndsAt(b, m)
  PROVE  IsPrefix(String(b), String(a)) <=> Same(a, b, m)
<1> DEFINE t == String(a)
           u == String(b)
<1>1. t \in Seq(Nat) /\ Len(t) = l /\ l \in Nat /\ a \in Nat /\ \A k \in 1 .. l : t[k] = mem[a + k - 1]
  BY TextIs
<1>2. u \in Seq(Nat) /\ Len(u) = m /\ m \in Nat /\ b \in Nat /\ \A k \in 1 .. m : u[k] = mem[b + k - 1]
  BY TextIs
<1>3. mem[a + l] = 0 /\ \A k \in 0 .. m - 1 : mem[b + k] # 0
  BY DEF StrEndsAt
<1> HIDE DEF t, u
<1>4. ASSUME Same(a, b, m)
      PROVE  m <= l
  <2> SUFFICES ASSUME l < m
               PROVE  FALSE
    BY <1>1, <1>2
  <2>1. l \in 0 .. m - 1
    BY <1>1, <1>2
  <2>2. mem[a + l] = mem[b + l] /\ mem[b + l] # 0
    BY <1>3, <1>4, <2>1 DEF Same
  <2> QED
    BY <1>3, <2>2
<1>5. ASSUME m <= l
      PROVE  IsPrefix(u, t) <=> Same(a, b, m)
  <2>1. Least(m, Len(t)) = m /\ Least(m, Len(u)) = m
    BY <1>1, <1>2, <1>5 DEF Least
  <2>2. Take(t, m) = SubSeq(t, 1, m) /\ Take(u, m) = SubSeq(u, 1, m)
    BY <2>1 DEF Take, Least
  <2>3. Take(t, m) = Take(u, m) <=> \A i \in 1 .. m : t[i] = u[i]
    <3>1. m \in Nat /\ m <= Len(t) /\ m <= Len(u)
      BY <1>1, <1>2, <1>5
    <3> QED
      BY <1>1, <1>2, <3>1, TakeSame, Zenon
  <2>4. \A i \in 1 .. m : i \in 1 .. l /\ i - 1 \in 0 .. m - 1 /\ a + (i - 1) = a + i - 1 /\ b + (i - 1) = b + i - 1
    BY <1>1, <1>2, <1>5
  <2>5. (\A i \in 1 .. m : t[i] = u[i]) <=> \A i \in 1 .. m : mem[a + i - 1] = mem[b + i - 1]
    BY <1>1, <1>2, <2>4
  <2>6. ASSUME \A i \in 1 .. m : mem[a + i - 1] = mem[b + i - 1]
        PROVE  Same(a, b, m)
    <3> SUFFICES ASSUME NEW k \in 0 .. m - 1
                 PROVE  mem[a + k] = mem[b + k]
      BY DEF Same
    <3>1. k + 1 \in 1 .. m /\ a + (k + 1) - 1 = a + k /\ b + (k + 1) - 1 = b + k
      BY <1>1, <1>2
    <3>2. mem[a + (k + 1) - 1] = mem[b + (k + 1) - 1]
      BY <2>6, <3>1
    <3> QED
      BY <3>1, <3>2
  <2>7. ASSUME Same(a, b, m)
        PROVE  \A i \in 1 .. m : mem[a + i - 1] = mem[b + i - 1]
    BY <2>4, <2>7 DEF Same
  <2> QED
    BY <1>1, <1>2, <1>5, <2>2, <2>3, <2>5, <2>6, <2>7 DEF IsPrefix
<1>6. IsPrefix(u, t) => m <= l
  BY <1>1, <1>2 DEF IsPrefix
<1> QED
  BY <1>4, <1>5, <1>6 DEF t, u

\* strncmp() over the whole of the second string tells that.
LEMMA StrncmpZero ==
  ASSUME Memory(mem), NEW a, NEW l, StrEndsAt(a, l), NEW b, NEW m, StrEndsAt(b, m)
  PROVE  strncmp(a, b, m) = 0 <=> Same(a, b, m)
<1>1. /\ l \in Nat /\ m \in Nat /\ a \in Nat /\ b \in Nat /\ m \in 0 .. Size
      /\ mem[a + l] = 0 /\ \A k \in 0 .. m - 1 : mem[b + k] # 0
  BY MemoryIs DEF StrEndsAt
<1> DEFINE size == m
<1>0. size \in 0 .. Size /\ size = m
  BY <1>1
<1> HIDE DEF size
<1>2. PICK n \in Nat : /\ n <= l /\ n <= m /\ n <= size /\ \A k \in 0 .. n - 1 : mem[a + k] = mem[b + k]
                       /\ n < l /\ n < m /\ n < size => mem[a + n] # mem[b + n]
                       /\ strncmp(a, b, size) = IF n = size THEN 0 ELSE mem[a + n] - mem[b + n]
  BY <1>0, StrncmpIs
<1>3. CASE n = m
  BY <1>0, <1>2, <1>3 DEF Same
<1>4. CASE n < m
  <2>1. n \in 0 .. m - 1
    BY <1>1, <1>4
  <2>2. mem[a + n] # mem[b + n]
    BY <1>0, <1>1, <1>2, <1>4, <2>1
  <2>3. mem[a + n] \in Nat /\ mem[b + n] \in Nat
    <3>1. a + n \in 0 .. Size - 1 /\ b + n \in 0 .. Size - 1
      <4>1. a + l \in 0 .. Size - 1 /\ b + m \in 0 .. Size - 1 /\ Size \in Nat
        BY MemoryIs DEF StrEndsAt
      <4> QED
        BY <1>1, <1>2, <4>1
    <3> QED
      BY <3>1, MemoryIs
  <2>4. strncmp(a, b, m) # 0
    BY <1>0, <1>2, <1>4, <2>2, <2>3
  <2> QED
    BY <2>1, <2>2, <2>4 DEF Same
<1> QED
  BY <1>1, <1>2, <1>3, <1>4

\* The rest of a string ends where it does.
LEMMA RestEnds ==
  ASSUME Memory(mem), NEW a, NEW l, StrEndsAt(a, l), NEW i \in a .. a + l
  PROVE  StrEndsAt(i, a + l - i)
<1>1. a \in Nat /\ l \in Nat
  BY DEF StrEndsAt
<1>2. ASSUME NEW k \in 0 .. a + l - i - 1
      PROVE  mem[i + k] # 0
  <2>1. i - a + k \in 0 .. l - 1 /\ a + (i - a + k) = i + k
    BY <1>1
  <2> QED
    BY <2>1 DEF StrEndsAt
<1>3. i + (a + l - i) = a + l
  BY <1>1
<1> QED
  BY <1>1, <1>2, <1>3 DEF StrEndsAt

\* strstr() finds the first place where the string is.
LEMMA StrstrAnswers ==
  ASSUME Memory(mem), NEW p \in DOMAIN mem, NEW q \in DOMAIN mem, Str(p), Str(q), ret' = strstr(p, q),
         NEW places, places = {i \in p .. p + Len(String(p)) : IsPrefix(String(q), String(i))}
  PROVE  ret' = IF places = {} THEN NULL_PTR ELSE Min(places)
<1>1. PICK l \in Nat : StrEndsAt(p, l)
  BY StrEnds
<1>2. PICK m \in Nat : StrEndsAt(q, m)
  BY StrEnds
<1>3. p \in Nat /\ q \in Nat /\ Len(String(p)) = l
  BY <1>1, TextIs, MemoryIs
<1>4. places = {i \in p .. p + l : Same(i, q, m)}
  <2>1. \A i \in p .. p + l : IsPrefix(String(q), String(i)) <=> Same(i, q, m)
    BY <1>1, <1>2, RestEnds, PrefixIs
  <2> QED
    BY <1>3, <2>1
<1>5. mem[q + m] = 0 /\ \A k \in 0 .. m - 1 : mem[q + k] # 0
  BY <1>2 DEF StrEndsAt
<1>6. CASE mem[q] = 0
  <2>1. m = 0
    <3>1. m # 0 => 0 \in 0 .. m - 1 /\ q + 0 = q
      BY <1>3
    <3> QED
      BY <1>5, <1>6, <3>1
  <2>2. \A i : Same(i, q, m)
    BY <2>1 DEF Same
  <2>3. places = p .. p + l
    BY <1>4, <2>2
  <2>4. p \in places /\ places \subseteq Int /\ \A y \in places : p <= y
    BY <1>3, <2>3
  <2>5. Min(places) = p
    BY <2>4, MinIs
  <2>6. ret' = p
    BY <1>6 DEF strstr
  <2> QED
    BY <2>4, <2>5, <2>6
<1>7. CASE mem[q] # 0
  <2>1. m # 0
    BY <1>3, <1>5, <1>7
  <2>2. m - 1 \in Nat /\ q + 1 \in q .. q + m /\ q + m - (q + 1) = m - 1
    BY <1>3, <2>1
  <2>3. StrEndsAt(q + 1, m - 1)
    <3>1. StrEndsAt(q + 1, q + m - (q + 1))
      BY <1>2, <2>2, RestEnds
    <3> QED
      BY <2>2, <3>1
  <2>4. strlen(q + 1) = m - 1 /\ strlen(p) = l
    BY <1>1, <2>3, StrlenIs
  <2>5. ASSUME NEW i \in p .. p + l - 1
        PROVE  mem[i] = mem[q] /\ strncmp(i + 1, q + 1, m - 1) = 0 <=> Same(i, q, m)
    <3>1. i + 1 \in p .. p + l /\ i \in Nat
      BY <1>3
    <3>2. StrEndsAt(i + 1, p + l - (i + 1))
      BY <1>1, <3>1, RestEnds
    <3>3. strncmp(i + 1, q + 1, m - 1) = 0 <=> Same(i + 1, q + 1, m - 1)
      BY <2>3, <3>2, StrncmpZero
    <3>4. ASSUME mem[i] = mem[q], Same(i + 1, q + 1, m - 1)
          PROVE  Same(i, q, m)
      <4> SUFFICES ASSUME NEW k \in 0 .. m - 1
                   PROVE  mem[i + k] = mem[q + k]
        BY DEF Same
      <4>1. CASE k = 0
        <5>1. i + k = i /\ q + k = q
          BY <1>3, <3>1, <4>1
        <5> QED
          BY <3>4, <5>1
      <4>2. CASE k # 0
        <5>1. k - 1 \in 0 .. (m - 1) - 1 /\ i + 1 + (k - 1) = i + k /\ q + 1 + (k - 1) = q + k
          BY <1>3, <3>1, <4>2
        <5>2. mem[i + 1 + (k - 1)] = mem[q + 1 + (k - 1)]
          BY <3>4, <5>1 DEF Same
        <5> QED
          BY <5>1, <5>2
      <4> QED
        BY <4>1, <4>2
    <3>5. ASSUME Same(i, q, m)
          PROVE  mem[i] = mem[q] /\ Same(i + 1, q + 1, m - 1)
      <4>1. 0 \in 0 .. m - 1 /\ i + 0 = i /\ q + 0 = q
        BY <1>3, <2>1, <3>1
      <4>2. mem[i] = mem[q]
        <5>1. mem[i + 0] = mem[q + 0]
          BY <3>5, <4>1 DEF Same
        <5> QED
          BY <4>1, <5>1
      <4>3. ASSUME NEW k \in 0 .. (m - 1) - 1
            PROVE  mem[i + 1 + k] = mem[q + 1 + k]
        <5>1. k + 1 \in 0 .. m - 1 /\ i + (k + 1) = i + 1 + k /\ q + (k + 1) = q + 1 + k
          BY <1>3, <3>1
        <5>2. mem[i + (k + 1)] = mem[q + (k + 1)]
          BY <3>5, <5>1 DEF Same
        <5> QED
          BY <5>1, <5>2
      <4> QED
        BY <4>2, <4>3 DEF Same
    <3> QED
      BY <3>3, <3>4, <3>5
  <2>6. ~Same(p + l, q, m)
    <3>1. mem[p + l] = 0 /\ 0 \in 0 .. m - 1 /\ p + l + 0 = p + l /\ q + 0 = q
      BY <1>1, <1>3, <2>1 DEF StrEndsAt
    <3>2. Same(p + l, q, m) => mem[p + l + 0] = mem[q + 0]
      BY <3>1 DEF Same
    <3> QED
      BY <1>7, <3>1, <3>2
  <2> DEFINE starts == {i \in p .. p + strlen(p) - 1 :
                          mem[i] = mem[q] /\ strncmp(i + 1, q + 1, strlen(q + 1)) = 0}
  <2>7. starts = places
    <3>1. starts = {i \in p .. p + l - 1 : mem[i] = mem[q] /\ strncmp(i + 1, q + 1, m - 1) = 0}
      BY <2>4
    <3> HIDE DEF starts
    <3>2. \A i : i \in p .. p + l <=> i \in p .. p + l - 1 \/ i = p + l
      BY <1>3
    <3> QED
      BY <1>4, <2>5, <2>6, <3>1, <3>2
  <2>8. ret' = CASE mem[q] = 0 -> p
                 [] mem[q] # 0 /\ starts = {} -> NULL_PTR
                 [] OTHER -> Min(starts)
    BY DEF strstr
  <2> HIDE DEF starts
  <2> QED
    BY <1>7, <2>7, <2>8
<1> QED
  BY <1>6, <1>7

---------------------------------------------------------------------------
\* Digits and their value.

\* What the characters are as digits.
LEMMA DigitCodes ==
  /\ \A c \in Nat : Digit(c) \in Nat
  /\ Digit(0) = 36 /\ Digit(Plus) = 36 /\ Digit(Minus) = 36 /\ Digit(Zero) = 0 /\ Digit(X) = 33
  /\ \A c \in Blank : Digit(c) = 36
<1>1. ASSUME NEW c \in Nat
      PROVE  Digit(c) \in Nat
  <2>1. CASE c \in 48 .. 57
    BY <2>1 DEF Digit
  <2>2. CASE c \in 97 .. 122
    BY <2>2 DEF Digit
  <2>3. CASE c \in 65 .. 90
    BY <2>3 DEF Digit
  <2>4. CASE c \notin 48 .. 57 /\ c \notin 97 .. 122 /\ c \notin 65 .. 90
    BY <2>4 DEF Digit
  <2> QED
    BY <2>1, <2>2, <2>3, <2>4
<1>2. \A c \in {0, 32, 9, 43, 45} : c \notin 48 .. 57 /\ c \notin 97 .. 122 /\ c \notin 65 .. 90
  OBVIOUS
<1>3. \A c \in {0, 32, 9, 43, 45} : Digit(c) = 36
  BY <1>2 DEF Digit
<1>4. Digit(48) = 0
  <2>1. 48 \in 48 .. 57 /\ 48 \notin 97 .. 122 /\ 48 \notin 65 .. 90 /\ 48 - 48 = 0
    OBVIOUS
  <2> QED
    BY <2>1 DEF Digit
<1>5. Digit(120) = 33
  <2>1. 120 \notin 48 .. 57 /\ 120 \in 97 .. 122 /\ 120 \notin 65 .. 90 /\ 120 - 97 + 10 = 33
    OBVIOUS
  <2> QED
    BY <2>1 DEF Digit
<1> QED
  BY <1>1, <1>3, <1>4, <1>5 DEF Plus, Minus, Zero, X, Blank

\* Values that go from each number to the next by g, from b on.
Steps(S, b, g, n) == \E f \in [0 .. n -> S] : f[0] = b /\ \A k \in 1 .. n : f[k] = g[k][f[k - 1]]

\* A recursive function exists if each step gives a value,
LEMMA StepsFrom ==
  ASSUME NEW S, NEW b, b \in S, NEW g, g \in [Nat -> [S -> S]], NEW n, n \in Nat
  PROVE  Steps(S, b, g, n)
BY StepsExist, SMT DEF Steps

\* also one of numbers,
LEMMA NumbersExist ==
  ASSUME NEW b \in Nat, NEW g \in [Nat -> [Nat -> Nat]], NEW n \in Nat
  PROVE  \E f \in [0 .. n -> Nat] : f[0] = b /\ \A k \in 1 .. n : f[k] = g[k][f[k - 1]]
<1>1. Steps(Nat, b, g, n)
 BY StepsFrom, Zenon
<1> QED
  BY <1>1 DEF Steps

\* which then has numbers for values.
LEMMA NumbersAre ==
  ASSUME NEW n \in Nat, NEW f, f[0] \in Nat, \A k \in 1 .. n : f[k - 1] \in Nat => f[k] \in Nat
  PROVE  \A k \in 0 .. n : f[k] \in Nat
<1> DEFINE Bad == {j \in 0 .. n : f[j] \notin Nat}
<1>1. SUFFICES ASSUME Bad # {}
               PROVE  FALSE
  OBVIOUS
<1>2. PICK j \in Bad : \A i \in Bad : j <= i
  <2>1. Bad \subseteq Nat
    OBVIOUS
  <2> QED
    BY <1>1, <2>1, LeastOfNat
<1>3. j # 0
  BY <1>2
<1>4. j \in 1 .. n /\ j - 1 \in 0 .. n /\ ~ j <= j - 1
  BY <1>2, <1>3
<1>5. f[j - 1] \in Nat
  BY <1>2, <1>4
<1> QED
  BY <1>2, <1>4, <1>5

\* The digits of an area.
HasDigits(a, n) == \A k \in 0 .. n - 1 : Digit(mem[a + k]) \in Nat

\* Horner's rule for them,
LEMMA DigitsValueIs ==
  ASSUME NEW a \in Nat, NEW n \in Nat, NEW b \in Nat, HasDigits(a, n)
  PROVE  \E f : /\ \A k \in 0 .. n : f[k] \in Nat
                /\ f[0] = 0 /\ \A k \in 1 .. n : f[k] = f[k - 1] * b + Digit(mem[a + k - 1])
                /\ DigitsValue(a, n, b) = f[n]
<1> DEFINE D(k) == Digit(mem[a + k - 1])
           go == [k \in Nat |-> [v \in Nat |-> IF k \in 1 .. n THEN v * b + D(k) ELSE v]]
           Runs(f) == f = [k \in 0 .. n |-> IF k = 0 THEN 0 ELSE f[k - 1] * b + D(k)]
<1>1. \A k \in 1 .. n : D(k) \in Nat
  <2> TAKE k \in 1 .. n
  <2>1. k - 1 \in 0 .. n - 1 /\ a + (k - 1) = a + k - 1
    OBVIOUS
  <2> QED
    BY <2>1 DEF HasDigits
<1> HIDE DEF D
<1>2. go \in [Nat -> [Nat -> Nat]]
  <2>1. \A k \in Nat : \A v \in Nat : (IF k \in 1 .. n THEN v * b + D(k) ELSE v) \in Nat
    BY <1>1
  <2> QED
    BY <2>1
<1>3. PICK f \in [0 .. n -> Nat] : f[0] = 0 /\ \A k \in 1 .. n : f[k] = go[k][f[k - 1]]
  <2> HIDE DEF go
  <2>1. 0 \in Nat
    OBVIOUS
  <2> QED
    BY ONLY <1>2, <2>1, n \in Nat, NumbersExist
<1>4. \A k \in 1 .. n : f[k] = f[k - 1] * b + D(k)
  <2> TAKE k \in 1 .. n
  <2>1. k - 1 \in 0 .. n /\ k \in Nat
    OBVIOUS
  <2>2. f[k - 1] \in Nat
    BY <2>1
  <2> QED
    BY <1>3, <2>1, <2>2
<1>5. Runs(f)
  <2>1. \A k \in 0 .. n : f[k] = IF k = 0 THEN 0 ELSE f[k - 1] * b + D(k)
    BY <1>3, <1>4
  <2> QED
    BY <2>1
<1> DEFINE r == CHOOSE q : Runs(q)
<1>6. Runs(r)
  BY <1>5
<1>7. DigitsValue(a, n, b) = r[n]
  BY DEF DigitsValue, D
<1> HIDE DEF r
<1>8. r[0] = 0 /\ \A k \in 1 .. n : r[k] = r[k - 1] * b + D(k)
  <2>1. \A k \in 0 .. n : r[k] = IF k = 0 THEN 0 ELSE r[k - 1] * b + D(k)
    BY <1>6
  <2>2. 0 \in 0 .. n /\ \A k \in 1 .. n : k \in 0 .. n /\ k # 0
    OBVIOUS
  <2> QED
    BY <2>1, <2>2
<1>9. \A k \in 0 .. n : r[k] \in Nat
  <2>1. ASSUME NEW k \in 1 .. n, r[k - 1] \in Nat
        PROVE  r[k] \in Nat
    <3>1. \A v, w \in Nat : v * b + w \in Nat
      OBVIOUS
    <3>2. r[k - 1] * b + D(k) \in Nat
      BY <1>1, <2>1, <3>1, Zenon
    <3> QED
      BY <1>8, <3>2
  <2>2. r[0] \in Nat
    BY <1>8
  <2> QED
    BY <2>1, <2>2, NumbersAre
<1> QED
  BY <1>7, <1>8, <1>9 DEF D

\* the weights of their places,
LEMMA WeightIs ==
  ASSUME Memory(mem), 0 \in DOMAIN mem, NEW b \in Nat
  PROVE  /\ \A k \in DOMAIN mem : Weight(b)[k] \in Nat
         /\ Weight(b)[0] = 1 /\ \A k \in DOMAIN mem : k # 0 => Weight(b)[k] = b * Weight(b)[k - 1]
<1> DEFINE n == Size - 1
           go == [k \in Nat |-> [v \in Nat |-> b * v]]
           Runs(f) == f = [k \in DOMAIN mem |-> IF k = 0 THEN 1 ELSE b * f[k - 1]]
<1>1. n \in Nat /\ DOMAIN mem = 0 .. n
  BY MemoryIs
<1> HIDE DEF n
<1>2. go \in [Nat -> [Nat -> Nat]]
  <2>1. \A v \in Nat : b * v \in Nat
    OBVIOUS
  <2> QED
    BY <2>1
<1>3. PICK f \in [0 .. n -> Nat] : f[0] = 1 /\ \A k \in 1 .. n : f[k] = go[k][f[k - 1]]
  <2> HIDE DEF go
  <2>1. 1 \in Nat
    OBVIOUS
  <2>2. n \in Nat
    BY <1>1
  <2> QED
    BY ONLY <1>2, <2>1, <2>2, NumbersExist
<1>4. \A k \in 1 .. n : f[k] = b * f[k - 1]
  <2> TAKE k \in 1 .. n
  <2>1. k - 1 \in 0 .. n /\ k \in Nat
    BY <1>1
  <2>2. f[k - 1] \in Nat
    BY <2>1
  <2> QED
    BY <1>3, <2>1, <2>2
<1>5. Runs(f)
  <2>1. \A k \in 0 .. n : k = 0 \/ k \in 1 .. n
    BY <1>1
  <2>2. \A k \in 0 .. n : f[k] = IF k = 0 THEN 1 ELSE b * f[k - 1]
    BY <1>1, <1>3, <1>4, <2>1
  <2> QED
    BY <1>1, <2>2
<1> DEFINE r == CHOOSE q : Runs(q)
<1>6. Runs(r)
  BY <1>5
<1>7. Weight(b) = r
  BY DEF Weight
<1> HIDE DEF r
<1>8. r[0] = 1 /\ \A k \in 1 .. n : r[k] = b * r[k - 1]
  <2>1. \A k \in 0 .. n : r[k] = IF k = 0 THEN 1 ELSE b * r[k - 1]
    BY <1>1, <1>6
  <2>2. 0 \in 0 .. n /\ \A k \in 1 .. n : k \in 0 .. n /\ k # 0
    BY <1>1
  <2> QED
    BY <2>1, <2>2
<1>9. \A k \in 0 .. n : r[k] \in Nat
  <2>1. ASSUME NEW k \in 1 .. n, r[k - 1] \in Nat
        PROVE  r[k] \in Nat
    <3>1. \A v \in Nat : b * v \in Nat
      OBVIOUS
    <3> QED
      BY <1>8, <2>1, <3>1
  <2>2. r[0] \in Nat
    BY <1>8
  <2> QED
    BY <1>1, <2>1, <2>2, NumbersAre
<1>10. \A k \in DOMAIN mem : k # 0 => k \in 1 .. n
  BY <1>1
<1> QED
  BY <1>1, <1>7, <1>8, <1>9, <1>10

\* That f has the sums of the n digits before e with their weights.
Sums(f, q, n, e, b) ==
  /\ \A k \in 0 .. n : f[k] \in Nat
  /\ f[0] = 0 /\ \A k \in 1 .. n : f[k] = f[k - 1] + Digit(mem[e - k]) * Weight(b)[k - 1]
  /\ Value(q, e, b) = f[n]

\* and the sum of the weighted digits.
LEMMA ValueIs ==
  ASSUME Memory(mem), NEW q \in Nat, NEW n \in Nat, NEW e \in Nat, e = q + n, NEW b \in Nat, HasDigits(q, n), n \in DOMAIN mem
  PROVE  \E f : Sums(f, q, n, e, b)
<1> DEFINE D(k) == Digit(mem[e - k]) * Weight(b)[k - 1]
           go == [k \in Nat |-> [v \in Nat |-> IF k \in 1 .. n THEN v + D(k) ELSE v]]
           Runs(f) == f = [k \in 0 .. e - q |-> IF k = 0 THEN 0
                                                ELSE f[k - 1] + Digit(mem[e - k]) * Weight(b)[k - 1]]
<1>1. \A k \in 1 .. n : D(k) \in Nat
  <2> TAKE k \in 1 .. n
  <2>1. n - k \in 0 .. n - 1 /\ q + (n - k) = e - k
    OBVIOUS
  <2>2. Digit(mem[e - k]) \in Nat
    BY <2>1 DEF HasDigits
  <2>3. k - 1 \in DOMAIN mem /\ 0 \in DOMAIN mem
    BY MemoryIs
  <2>4. Weight(b)[k - 1] \in Nat
    BY <2>3, WeightIs
  <2>5. \A v, w \in Nat : v * w \in Nat
    OBVIOUS
  <2> QED
    BY <2>2, <2>4, <2>5
<1> HIDE DEF D
<1>2. go \in [Nat -> [Nat -> Nat]]
  <2>1. \A k \in Nat : \A v \in Nat : (IF k \in 1 .. n THEN v + D(k) ELSE v) \in Nat
    BY <1>1
  <2> QED
    BY <2>1
<1>3. PICK f \in [0 .. n -> Nat] : f[0] = 0 /\ \A k \in 1 .. n : f[k] = go[k][f[k - 1]]
  <2> HIDE DEF go
  <2>1. 0 \in Nat
    OBVIOUS
  <2> QED
    BY ONLY <1>2, <2>1, n \in Nat, NumbersExist
<1>4. \A k \in 1 .. n : f[k] = f[k - 1] + D(k)
  <2> TAKE k \in 1 .. n
  <2>1. k - 1 \in 0 .. n /\ k \in Nat
    OBVIOUS
  <2>2. f[k - 1] \in Nat
    BY <2>1
  <2> QED
    BY <1>3, <2>1, <2>2
<1>5. Runs(f)
  <2>1. \A k \in 0 .. n : f[k] = IF k = 0 THEN 0 ELSE f[k - 1] + D(k)
    BY <1>3, <1>4
  <2>2. e - q = n
    OBVIOUS
  <2> QED
    BY <2>1, <2>2 DEF D
<1> DEFINE r == CHOOSE u : Runs(u)
<1>6. Runs(r)
  BY <1>5
<1>7. Value(q, e, b) = r[n]
  <2>1. Value(q, e, b) = r[e - q]
    BY DEF Value
  <2>2. e - q = n
    OBVIOUS
  <2> QED
    BY <2>1, <2>2
<1> HIDE DEF r
<1>8. r[0] = 0 /\ \A k \in 1 .. n : r[k] = r[k - 1] + D(k)
  <2>1. \A k \in 0 .. n : r[k] = IF k = 0 THEN 0 ELSE r[k - 1] + D(k)
    <3>1. e - q = n
      OBVIOUS
    <3> QED
      BY <1>6, <3>1 DEF D
  <2>2. 0 \in 0 .. n /\ \A k \in 1 .. n : k \in 0 .. n /\ k # 0
    OBVIOUS
  <2> QED
    BY <2>1, <2>2
<1>9. \A k \in 0 .. n : r[k] \in Nat
  <2>1. ASSUME NEW k \in 1 .. n, r[k - 1] \in Nat
        PROVE  r[k] \in Nat
    BY <1>1, <1>8, <2>1
  <2>2. r[0] \in Nat
    BY <1>8
  <2> QED
    BY <2>1, <2>2, NumbersAre
<1> QED
  BY <1>7, <1>8, <1>9 DEF D, Sums

\* Horner's rule gives that sum.
LEMMA HornerIsValue ==
  ASSUME Memory(mem), NEW q \in Nat, NEW n \in Nat, NEW e \in Nat, e = q + n,
         NEW b \in Nat, HasDigits(q, n), n \in DOMAIN mem
  PROVE  DigitsValue(q, n, b) = Value(q, e, b) /\ DigitsValue(q, n, b) \in Nat
<1>1. PICK h : /\ \A k \in 0 .. n : h[k] \in Nat
               /\ h[0] = 0 /\ \A k \in 1 .. n : h[k] = h[k - 1] * b + Digit(mem[q + k - 1])
               /\ DigitsValue(q, n, b) = h[n]
  BY DigitsValueIs
<1>9. PICK s : Sums(s, q, n, e, b)
  BY ValueIs, Zenon
<1>2. /\ \A k \in 0 .. n : s[k] \in Nat
      /\ s[0] = 0 /\ \A k \in 1 .. n : s[k] = s[k - 1] + Digit(mem[e - k]) * Weight(b)[k - 1]
      /\ Value(q, e, b) = s[n]
  BY <1>9, Zenon DEF Sums
<1> DEFINE W == Weight(b)
<1>3. /\ \A k \in 0 .. n : W[k] \in Nat
      /\ W[0] = 1 /\ \A k \in 1 .. n : W[k] = b * W[k - 1]
  <2>1. 0 \in DOMAIN mem /\ \A k \in 0 .. n : k \in DOMAIN mem
    BY MemoryIs
  <2>2. \A k \in 1 .. n : k \in 0 .. n /\ k # 0
    OBVIOUS
  <2> QED
    BY <2>1, <2>2, WeightIs
<1> HIDE DEF W
<1> DEFINE Bad == {k \in 0 .. n : h[n] # h[n - k] * W[k] + s[k]}
<1>4. Bad = {}
  <2>0. SUFFICES ASSUME Bad # {}
                 PROVE  FALSE
    OBVIOUS
  <2>1. PICK j \in Bad : \A i \in Bad : j <= i
    <3>1. Bad \subseteq Nat
      OBVIOUS
    <3> QED
      BY <2>0, <3>1, LeastOfNat
  <2>2. h[n] = h[n - 0] * W[0] + s[0]
    <3>1. n - 0 = n /\ n \in 0 .. n
      OBVIOUS
    <3>2. \A v \in Nat : v = v * 1 + 0
      OBVIOUS
    <3> QED
      BY <1>1, <1>2, <1>3, <3>1, <3>2
  <2>3. j # 0
    BY <2>1, <2>2
  <2>4. /\ j \in 1 .. n /\ j - 1 \in 0 .. n /\ ~ j <= j - 1
        /\ n - j \in 0 .. n /\ n - (j - 1) \in 1 .. n /\ n - (j - 1) - 1 = n - j
        /\ q + (n - (j - 1)) - 1 = e - j
    BY <2>1, <2>3
  <2>5. h[n] = h[n - (j - 1)] * W[j - 1] + s[j - 1]
    BY <2>1, <2>4
  <2> DEFINE d == Digit(mem[e - j])
  <2>6. h[n - (j - 1)] = h[n - j] * b + d
    <3>1. h[n - (j - 1)] = h[n - (j - 1) - 1] * b + Digit(mem[q + (n - (j - 1)) - 1])
      BY <1>1, <2>4
    <3> QED
      BY <2>4, <3>1
  <2>7. s[j] = s[j - 1] + d * W[j - 1]
    BY <1>2, <2>4 DEF W
  <2>8. W[j] = b * W[j - 1]
    BY <1>3, <2>4
  <2>9. d \in Nat
    <3>1. n - j \in 0 .. n - 1 /\ q + (n - j) = e - j
      BY <2>4
    <3> QED
      BY <3>1 DEF HasDigits
  <2> HIDE DEF d
  <2>10. PICK g \in Nat, w \in Nat, c \in Nat : g = h[n - j] /\ w = W[j - 1] /\ c = s[j - 1]
    BY <1>1, <1>2, <1>3, <2>4
  <2>11. (g * b + d) * w + c = g * (b * w) + (c + d * w)
    BY <2>9
  <2>12. h[n] = h[n - j] * W[j] + s[j]
    BY <2>5, <2>6, <2>7, <2>8, <2>10, <2>11, Zenon
  <2> QED
    BY <2>1, <2>12
<1>5. h[n] = h[n - n] * W[n] + s[n]
  <2>1. n \in 0 .. n
    OBVIOUS
  <2> QED
    BY <1>4, <2>1
<1>6. n - n = 0 /\ n \in 0 .. n
  OBVIOUS
<1>7. \A v, w \in Nat : 0 * v + w = w
  OBVIOUS
<1>8. h[n] = s[n]
  <2>1. h[n] = 0 * W[n] + s[n]
    BY <1>1, <1>5, <1>6, Zenon
  <2> QED
    BY <1>2, <1>3, <1>6, <1>7, <2>1, Zenon
<1> QED
  BY <1>1, <1>2, <1>6, <1>8, Zenon

---------------------------------------------------------------------------
\* strtol().

\* That the text's numeral has its sign at i, its prefix at p, its digits of
\* base b from q to e and the sign sgn.
ReadsAs(base, l, i, p, q, b, sgn, e) ==
  /\ i \in 0 .. l /\ p \in {i, i + 1} /\ q \in {p, p + 1, p + 2} /\ q <= e /\ e \in 0 .. l
  /\ \A x \in 0 .. i - 1 : mem[x] \in Blank
  /\ mem[i] \notin Blank /\ ~ Digit(mem[e]) < b
  /\ \A x \in q .. e - 1 : Digit(mem[x]) < b
  /\ \/ mem[i] \notin {Plus, Minus} /\ p = i /\ sgn = 1
     \/ mem[i] = Plus /\ p = i + 1 /\ sgn = 1
     \/ mem[i] = Minus /\ p = i + 1 /\ sgn = -1
  /\ \/ base \in {0, 16} /\ mem[p] = Zero /\ mem[p + 1] = X /\ q = p + 2 /\ b = 16
     \/ base = 0 /\ mem[p] = Zero /\ mem[p + 1] # X /\ q = p + 1 /\ b = 8
     \/ base = 0 /\ mem[p] # Zero /\ q = p /\ b = 10
     \/ /\ base # 0 /\ ~(base = 16 /\ mem[p] = Zero /\ mem[p + 1] = X)
        /\ q = p /\ b = base

\* The first characters are blanks,
LEMMA BlanksEnd ==
  ASSUME Memory(mem), NEW l, StrEndsAt(0, l)
  PROVE  \E i \in 0 .. l : /\ \A x \in 0 .. i - 1 : mem[x] \in Blank
                           /\ mem[i] \notin Blank
                           /\ Stop(LAMBDA k : mem[0 + k] \in Blank) = i
<1> DEFINE S == {k \in 0 .. Size : ~(mem[0 + k] \in Blank)}
<1>1. l \in 0 .. Size /\ Size \in Nat /\ mem[0 + l] = 0 /\ 0 \notin Blank
  BY MemoryIs DEF StrEndsAt, Blank
<1>2. l \in S
  BY <1>1
<1>3. PICK n \in S : /\ n \in Nat /\ n <= l /\ \A k \in 0 .. n - 1 : k \notin S
                     /\ \A j \in 0 .. Size : j \in S /\ (\A k \in 0 .. j - 1 : k \notin S) => j = n
  <2> HIDE DEF S
  <2>1. S \subseteq 0 .. Size
    BY DEF S
  <2> QED
    BY ONLY <1>2, <2>1, FirstStop, Memory(mem)
<1>4. n \in 0 .. Size /\ ~(mem[0 + n] \in Blank)
  BY <1>3
<1>5. \A j \in 0 .. Size : \A k \in 0 .. j - 1 : k \in 0 .. Size
  BY <1>1
<1>6. \A k \in 0 .. n - 1 : mem[0 + k] \in Blank
  BY <1>3, <1>4, <1>5
<1>7. \A j \in 0 .. Size : ~(mem[0 + j] \in Blank) /\ (\A k \in 0 .. j - 1 : mem[0 + k] \in Blank) => j = n
  BY <1>3, <1>5
<1>8. Stop(LAMBDA k : mem[0 + k] \in Blank) = n
  BY <1>4, <1>6, <1>7, Zenon DEF Stop, Size
<1>9. n \in 0 .. l /\ 0 + n = n /\ \A k \in 0 .. n - 1 : 0 + k = k
  BY <1>1, <1>3
<1>10. mem[n] \notin Blank
  BY <1>4, <1>9
<1>11. \A x \in 0 .. n - 1 : mem[x] \in Blank
  BY <1>6, <1>9
<1> QED
  BY <1>8, <1>9, <1>10, <1>11

\* How many digits of base b are at q.
RunOf(q, b) == Stop(LAMBDA k : Digit(mem[q + k]) < b)

\* and digits end before the string does.
LEMMA DigitsEnd ==
  ASSUME Memory(mem), NEW l, StrEndsAt(0, l), NEW q \in 0 .. l, NEW b \in Nat, b <= 36
  PROVE  \E n \in 0 .. l - q : /\ \A x \in q .. q + n - 1 : Digit(mem[x]) < b
                               /\ ~ Digit(mem[q + n]) < b
                               /\ RunOf(q, b) = n
<1> DEFINE S == {k \in 0 .. Size : ~(Digit(mem[q + k]) < b)}
<1>1. l \in 0 .. Size /\ Size \in Nat /\ l \in Nat /\ mem[l] = 0 /\ l - q \in 0 .. Size /\ q + (l - q) = l
  <2>1. l \in 0 .. Size /\ Size \in Nat /\ mem[0 + l] = 0 /\ l \in Nat
    BY MemoryIs DEF StrEndsAt
  <2>2. 0 + l = l
    BY <2>1
  <2> QED
    BY <2>1, <2>2
<1>2. l - q \in S
  <2>1. ~ Digit(mem[q + (l - q)]) < b
    BY <1>1, DigitCodes
  <2> QED
    BY <1>1, <2>1
<1>3. PICK n \in S : /\ n \in Nat /\ n <= l - q /\ \A k \in 0 .. n - 1 : k \notin S
                     /\ \A j \in 0 .. Size : j \in S /\ (\A k \in 0 .. j - 1 : k \notin S) => j = n
  <2> DEFINE y == l - q
  <2> HIDE DEF S, y
  <2>1. S \subseteq 0 .. Size
    BY DEF S
  <2>2. y \in S
    BY <1>2 DEF y
  <2>3. PICK n \in S : /\ n \in Nat /\ n <= y /\ \A k \in 0 .. n - 1 : k \notin S
                     /\ \A j \in 0 .. Size : j \in S /\ (\A k \in 0 .. j - 1 : k \notin S) => j = n
    BY ONLY <2>1, <2>2, FirstStop, Memory(mem)
  <2> QED
    BY <2>3, Zenon DEF y
<1>4. n \in 0 .. Size /\ ~(Digit(mem[q + n]) < b)
  BY <1>3
<1>5. \A j \in 0 .. Size : \A k \in 0 .. j - 1 : k \in 0 .. Size
  BY <1>1
<1>6. \A k \in 0 .. n - 1 : Digit(mem[q + k]) < b
  BY <1>3, <1>4, <1>5
<1>7. \A j \in 0 .. Size : ~(Digit(mem[q + j]) < b) /\ (\A k \in 0 .. j - 1 : Digit(mem[q + k]) < b) => j = n
  BY <1>3, <1>5
<1>8. Stop(LAMBDA k : Digit(mem[q + k]) < b) = n
  BY <1>4, <1>6, <1>7, Zenon DEF Stop, Size
<1>9. n \in 0 .. l - q
  BY <1>3
<1>10. ASSUME NEW x \in q .. q + n - 1
       PROVE  Digit(mem[x]) < b
  <2>1. x - q \in 0 .. n - 1 /\ q + (x - q) = x
    BY <1>1, <1>9
  <2>2. Digit(mem[q + (x - q)]) < b
    BY <1>6, <2>1
  <2> QED
    BY <2>1, <2>2
<1>11. RunOf(q, b) = n
  BY <1>8 DEF RunOf
<1> QED
  BY <1>4, <1>9, <1>10, <1>11

\* strtol() reads so,
LEMMA StrtolReads ==
  ASSUME Memory(mem), NEW l, StrEndsAt(0, l), NEW base \in {0, 8, 10, 16}
  PROVE  \E i, p, q, b, sgn, e :
           /\ ReadsAs(base, l, i, p, q, b, sgn, e)
           /\ strtol(0, base).val = IF mem[i] = Minus THEN -DigitsValue(q, e - q, b) ELSE DigitsValue(q, e - q, b)
           /\ strtol(0, base).endptr = e
<1> DEFINE sign == 0 + Stop(LAMBDA k : mem[0 + k] \in Blank)
           prefix == IF mem[sign] \in {Plus, Minus} THEN sign + 1 ELSE sign
           skip == BasePrefix(prefix, base)
           digits == prefix + skip[1]
           n == Stop(LAMBDA k : Digit(mem[digits + k]) < skip[2])
           val == DigitsValue(digits, n, skip[2])
<1>1. strtol(0, base) = [val |-> IF mem[sign] = Minus THEN -val ELSE val, endptr |-> digits + n]
  BY DEF strtol
<1>2. l \in Nat /\ mem[l] = 0 /\ \A x \in 0 .. l - 1 : mem[x] # 0
  <2>1. l \in Nat /\ mem[0 + l] = 0 /\ \A x \in 0 .. l - 1 : mem[0 + x] # 0
    BY DEF StrEndsAt
  <2>2. 0 + l = l /\ \A x \in 0 .. l - 1 : 0 + x = x
    BY <2>1
  <2> QED
    BY <2>1, <2>2
<1>3. \A x \in 0 .. l : mem[x] # 0 => x + 1 \in 0 .. l
  BY <1>2
<1>4. PICK i \in 0 .. l : /\ \A x \in 0 .. i - 1 : mem[x] \in Blank
                          /\ mem[i] \notin Blank
                          /\ Stop(LAMBDA k : mem[0 + k] \in Blank) = i
  BY BlanksEnd
<1>5. sign = i
  BY <1>2, <1>4
<1> HIDE DEF sign
<1>6. /\ prefix \in {i, i + 1} /\ prefix \in 0 .. l
      /\ \/ mem[i] \notin {Plus, Minus} /\ prefix = i
         \/ mem[i] = Plus /\ prefix = i + 1
         \/ mem[i] = Minus /\ prefix = i + 1
  <2>1. CASE mem[i] \in {Plus, Minus}
    <3>1. mem[i] # 0
      BY <2>1 DEF Plus, Minus
    <3> QED
      BY <1>3, <1>5, <2>1, <3>1
  <2>2. CASE mem[i] \notin {Plus, Minus}
    BY <1>5, <2>2
  <2> QED
    BY <2>1, <2>2
<1> HIDE DEF prefix
<1>7. \/ base \in {0, 16} /\ mem[prefix] = Zero /\ mem[prefix + 1] = X /\ skip = <<2, 16>>
      \/ base = 0 /\ mem[prefix] = Zero /\ mem[prefix + 1] # X /\ skip = <<1, 8>>
      \/ base = 0 /\ mem[prefix] # Zero /\ skip = <<0, 10>>
      \/ /\ base # 0 /\ ~(base = 16 /\ mem[prefix] = Zero /\ mem[prefix + 1] = X)
         /\ skip = <<0, base>>
  <2>1. CASE base \in {0, 16} /\ mem[prefix] = Zero /\ mem[prefix + 1] = X
    <3>1. ~(base = 0 /\ mem[prefix] = Zero /\ mem[prefix + 1] # X) /\ ~(base = 0 /\ mem[prefix] # Zero)
      BY <2>1
    <3> QED
      BY <2>1, <3>1 DEF BasePrefix
  <2>2. CASE base = 0 /\ mem[prefix] = Zero /\ mem[prefix + 1] # X
    BY <2>2 DEF BasePrefix
  <2>3. CASE base = 0 /\ mem[prefix] # Zero
    BY <2>3 DEF BasePrefix
  <2>4. CASE base # 0 /\ ~(base \in {0, 16} /\ mem[prefix] = Zero /\ mem[prefix + 1] = X)
    BY <2>4 DEF BasePrefix
  <2> QED
    BY <2>1, <2>2, <2>3, <2>4
<1> HIDE DEF skip
<1> DEFINE b == skip[2]
<1>8. /\ digits \in {prefix, prefix + 1, prefix + 2} /\ digits \in 0 .. l /\ b \in Nat /\ b <= 36
      /\ \/ base \in {0, 16} /\ mem[prefix] = Zero /\ mem[prefix + 1] = X /\ digits = prefix + 2 /\ b = 16
         \/ base = 0 /\ mem[prefix] = Zero /\ mem[prefix + 1] # X /\ digits = prefix + 1 /\ b = 8
         \/ base = 0 /\ mem[prefix] # Zero /\ digits = prefix /\ b = 10
         \/ /\ base # 0 /\ ~(base = 16 /\ mem[prefix] = Zero /\ mem[prefix + 1] = X)
            /\ digits = prefix /\ b = base
  <2>1. prefix \in Nat /\ prefix <= l
    BY <1>2, <1>6
  <2>2. mem[prefix] = Zero => prefix + 1 \in 0 .. l
    BY <1>3, <1>6 DEF Zero
  <2>3. mem[prefix] = Zero /\ mem[prefix + 1] = X => prefix + 1 + 1 \in 0 .. l
    BY <1>3, <2>2 DEF X
  <2>4. CASE base \in {0, 16} /\ mem[prefix] = Zero /\ mem[prefix + 1] = X /\ skip = <<2, 16>>
    <3>1. digits = prefix + 2 /\ b = 16 /\ prefix + 1 + 1 = prefix + 2
      BY <2>1, <2>4
    <3> QED
      BY <2>3, <2>4, <3>1
  <2>5. CASE base = 0 /\ mem[prefix] = Zero /\ mem[prefix + 1] # X /\ skip = <<1, 8>>
    <3>1. digits = prefix + 1 /\ b = 8
      BY <2>1, <2>5
    <3> QED
      BY <2>2, <2>5, <3>1
  <2>6. CASE base = 0 /\ mem[prefix] # Zero /\ skip = <<0, 10>>
    <3>1. digits = prefix /\ b = 10
      BY <2>1, <2>6
    <3> QED
      BY <2>6, <3>1, <1>6
  <2>7. CASE /\ base # 0 /\ ~(base = 16 /\ mem[prefix] = Zero /\ mem[prefix + 1] = X)
             /\ skip = <<0, base>>
    <3>1. digits = prefix /\ b = base /\ base \in Nat /\ base <= 36
      BY <2>1, <2>7
    <3> QED
      BY <2>7, <3>1, <1>6
  <2> QED
    BY <1>7, <2>4, <2>5, <2>6, <2>7
<1>20. n = RunOf(digits, b)
  BY DEF RunOf
<1> HIDE DEF digits, b, n
<1>9. PICK m \in 0 .. l - digits : /\ \A x \in digits .. digits + m - 1 : Digit(mem[x]) < b
                                   /\ ~ Digit(mem[digits + m]) < b
                                   /\ RunOf(digits, b) = m
  BY <1>8, DigitsEnd
<1>10. n = m
  BY <1>9, <1>20
<1> DEFINE e == digits + m
           sgn == IF mem[i] = Minus THEN -1 ELSE 1
<1>11. e - digits = m /\ digits <= e /\ e \in 0 .. l
  BY <1>2, <1>8, <1>9
<1>12. \/ mem[i] \notin {Plus, Minus} /\ prefix = i /\ sgn = 1
       \/ mem[i] = Plus /\ prefix = i + 1 /\ sgn = 1
       \/ mem[i] = Minus /\ prefix = i + 1 /\ sgn = -1
  BY <1>6 DEF Plus, Minus
<1>13. ReadsAs(base, l, i, prefix, digits, b, sgn, e)
  <2> HIDE DEF sgn
  <2> QED
    BY <1>4, <1>6, <1>8, <1>9, <1>11, <1>12 DEF ReadsAs
<1>14. strtol(0, base).val = IF mem[i] = Minus THEN -DigitsValue(digits, e - digits, b)
                                               ELSE DigitsValue(digits, e - digits, b)
  BY <1>1, <1>5, <1>10, <1>11 DEF b
<1>15. strtol(0, base).endptr = e
  BY <1>1, <1>10
<1> HIDE DEF e, sgn
<1> QED
  BY <1>13, <1>14, <1>15

\* which is a numeral of the text,
LEMMA ReadsNumeral ==
  ASSUME Memory(mem), NEW l, StrEndsAt(0, l), NEW base \in {0, 8, 10, 16},
         NEW i, NEW p, NEW q, NEW b, NEW sgn, NEW e, ReadsAs(base, l, i, p, q, b, sgn, e)
  PROVE  /\ q \in DOMAIN mem /\ b \in {base, 8, 10, 16} /\ sgn \in {1, -1}
         /\ sgn = (IF mem[i] = Minus THEN -1 ELSE 1) /\ IsNumeral(base, q, b, sgn, e)
<1>1. Len(String(0)) = l /\ l \in Nat
  BY TextIs
<1>2. l \in DOMAIN mem
  <2>1. 0 + l \in DOMAIN mem /\ 0 + l = l
    BY <1>1 DEF StrEndsAt
  <2> QED
    BY <2>1
<1>3. i \in 0 .. l /\ p \in {i, i + 1} /\ q \in {p, p + 1, p + 2} /\ q <= e /\ e \in 0 .. l
  BY DEF ReadsAs
<1>4. q \in DOMAIN mem
  <2>1. q \in Nat /\ q <= l
    BY <1>1, <1>3
  <2> QED
    BY <1>2, <2>1, MemoryIs
<1>5. sgn \in {1, -1} /\ sgn = (IF mem[i] = Minus THEN -1 ELSE 1) /\ Signed(i, p, sgn)
  BY DEF ReadsAs, Signed, Plus, Minus
<1>6. b \in {base, 8, 10, 16} /\ Prefixed(base, p, q, b)
  BY DEF ReadsAs, Prefixed
<1>7. IsNumeral(base, q, b, sgn, e)
  <2>1. \A x \in 0 .. i - 1 : mem[x] \in Blank
    BY DEF ReadsAs
  <2>2. \A x \in q .. e - 1 : Digit(mem[x]) < b
    BY DEF ReadsAs
  <2>3. i \in 0 .. Len(String(0))
    BY <1>1, <1>3
  <2> QED
    BY <1>3, <1>5, <1>6, <2>1, <2>2, <2>3, Zenon DEF IsNumeral
<1> QED
  BY <1>4, <1>5, <1>6, <1>7

\* and no longer one is there.
LEMMA ReadsLongest ==
  ASSUME Memory(mem), NEW l, StrEndsAt(0, l), NEW base \in {0, 8, 10, 16},
         NEW i, NEW p, NEW q, NEW b, NEW sgn, NEW e, ReadsAs(base, l, i, p, q, b, sgn, e),
         NEW r \in DOMAIN mem, NEW z \in DOMAIN mem, NEW c \in {base, 8, 10, 16}, NEW g,
         IsNumeral(base, r, c, g, z)
  PROVE  z <= e
<1>1. PICK j \in 0 .. Len(String(0)) : \E t \in {j, j + 1} :
        (\A x \in 0 .. j - 1 : mem[x] \in Blank) /\ Signed(j, t, g) /\ Prefixed(base, t, r, c)
  BY Zenon DEF IsNumeral
<1>2. PICK t \in {j, j + 1} :
        (\A x \in 0 .. j - 1 : mem[x] \in Blank) /\ Signed(j, t, g) /\ Prefixed(base, t, r, c)
  BY <1>1
<1>3. \A x \in r .. z - 1 : Digit(mem[x]) < c
  BY Zenon DEF IsNumeral
<1>4. /\ i \in Nat /\ j \in Nat /\ p \in {i, i + 1} /\ q \in {p, p + 1, p + 2} /\ q <= e
      /\ e \in Nat /\ z \in Nat /\ r \in Nat /\ c \in Nat /\ c <= 16
  <2>1. Len(String(0)) = l /\ l \in Nat
    BY TextIs
  <2>2. i \in 0 .. l /\ p \in {i, i + 1} /\ q \in {p, p + 1, p + 2} /\ q <= e /\ e \in 0 .. l
    BY DEF ReadsAs
  <2> QED
    BY <2>1, <2>2, MemoryIs
<1>5. p \in Nat /\ q \in Nat /\ i <= p /\ p <= q /\ q <= e
  BY <1>4
<1>6. mem[i] \notin Blank /\ \A x \in 0 .. i - 1 : mem[x] \in Blank
  BY DEF ReadsAs
<1> SUFFICES ASSUME e < z
             PROVE  FALSE
  BY <1>4
<1>7. \A x \in Nat : r <= x /\ x <= e => Digit(mem[x]) < c
  BY <1>3, <1>4
<1>8. \A y \in Blank \cup {X, Plus, Minus} : Digit(y) \in {33, 36}
  <2> TAKE y \in Blank \cup {X, Plus, Minus}
  <2>1. y \in Blank \/ y = X \/ y = Plus \/ y = Minus
    OBVIOUS
  <2>2. Digit(y) = 33 \/ Digit(y) = 36
    BY <2>1, DigitCodes, Zenon
  <2> QED
    BY <2>2
<1>9. ASSUME NEW x \in Nat, x <= e, mem[x] \in Blank \cup {X, Plus, Minus}
      PROVE  x < r
  <2>1. Digit(mem[x]) \in {33, 36}
    BY <1>8, <1>9
  <2>2. ~ Digit(mem[x]) < c
    BY <1>4, <2>1
  <2> QED
    BY <1>4, <1>7, <1>9, <2>2
<1>10. ~(i < j)
  BY <1>2, <1>4, <1>6
<1>11. ASSUME j < i
       PROVE  FALSE
  <2>1. mem[j] \in Blank /\ j <= e
    BY <1>4, <1>5, <1>6, <1>11
  <2>2. mem[j] \notin {Plus, Minus, Zero}
    BY <2>1 DEF Plus, Minus, Zero, Blank
  <2>3. t = j
    BY <1>2, <2>2 DEF Signed
  <2>4. r = j
    BY <1>2, <2>2, <2>3 DEF Prefixed
  <2>5. j < r
    BY <1>4, <1>9, <2>1
  <2> QED
    BY <1>4, <2>4, <2>5
<1>12. j = i
  BY <1>4, <1>10, <1>11
<1>13. \/ mem[i] \notin {Plus, Minus} /\ p = i
       \/ mem[i] \in {Plus, Minus} /\ p = i + 1
  BY DEF ReadsAs
<1>14. t = p
  <2>1. CASE mem[i] \notin {Plus, Minus}
    BY <1>2, <1>12, <1>13, <2>1 DEF Signed
  <2>2. CASE mem[i] \in {Plus, Minus}
    <3>1. ASSUME t = i
          PROVE  FALSE
      <4>1. r = i
        BY <1>2, <2>2, <3>1 DEF Prefixed, Plus, Minus, Zero
      <4>2. i < r
        BY <1>4, <1>5, <1>9, <2>2
      <4> QED
        BY <1>4, <4>1, <4>2
    <3> QED
      BY <1>2, <1>12, <1>13, <2>2, <3>1
  <2> QED
    BY <2>1, <2>2
<1>15. ASSUME r = q, b = c
       PROVE  FALSE
  <2>1. ~ Digit(mem[e]) < b
    BY DEF ReadsAs
  <2> QED
    BY <1>4, <1>7, <1>15, <2>1
<1>16. Prefixed(base, p, r, c)
  BY <1>2, <1>14
<1>17. CASE base \in {0, 16} /\ mem[p] = Zero /\ mem[p + 1] = X /\ q = p + 2 /\ b = 16
  <2>1. p + 1 \in Nat /\ p + 1 <= e
    BY <1>4, <1>5, <1>17
  <2>2. p + 1 < r
    BY <1>9, <1>17, <2>1
  <2>3. r = p + 2 /\ c = 16
    BY <1>5, <1>16, <2>2 DEF Prefixed
  <2> QED
    BY <1>15, <1>17, <2>3
<1>18. CASE base = 0 /\ mem[p] = Zero /\ mem[p + 1] # X /\ q = p + 1 /\ b = 8
  BY <1>15, <1>16, <1>18 DEF Prefixed
<1>19. CASE base = 0 /\ mem[p] # Zero /\ q = p /\ b = 10
  BY <1>15, <1>16, <1>19 DEF Prefixed
<1>20. CASE /\ base # 0 /\ ~(base = 16 /\ mem[p] = Zero /\ mem[p + 1] = X)
            /\ q = p /\ b = base
  BY <1>15, <1>16, <1>20 DEF Prefixed
<1> QED
  BY <1>17, <1>18, <1>19, <1>20, Zenon DEF ReadsAs

\* strtol() answers with it.
LEMMA StrtolAnswers ==
  ASSUME Memory(mem), NEW x \in DOMAIN mem, mem[x] = 0, NEW base \in {0, 8, 10, 16}, ret' = strtol(0, base)
  PROVE  /\ \E q \in DOMAIN mem, b \in {base, 8, 10, 16}, sgn \in {1, -1} :
              IsNumeral(base, q, b, sgn, ret'.endptr) /\ ret'.val = sgn * Value(q, ret'.endptr, b)
         /\ \A q, e \in DOMAIN mem, b \in {base, 8, 10, 16}, sgn \in {1, -1} :
              IsNumeral(base, q, b, sgn, e) => e <= ret'.endptr
<1>1. PICK l \in Nat : StrEndsAt(0, l)
  <2>1. 0 \in DOMAIN mem /\ x >= 0
    BY MemoryIs
  <2>2. Str(0)
    BY <2>1 DEF Str
  <2> QED
    BY <2>1, <2>2, StrEnds
<1>2. PICK i, p, q, b, sgn, e :
        /\ ReadsAs(base, l, i, p, q, b, sgn, e)
        /\ strtol(0, base).val = IF mem[i] = Minus THEN -DigitsValue(q, e - q, b) ELSE DigitsValue(q, e - q, b)
        /\ strtol(0, base).endptr = e
  BY <1>1, StrtolReads
<1>3. /\ q \in DOMAIN mem /\ b \in {base, 8, 10, 16} /\ sgn \in {1, -1}
      /\ sgn = (IF mem[i] = Minus THEN -1 ELSE 1) /\ IsNumeral(base, q, b, sgn, e)
  BY <1>1, <1>2, ReadsNumeral
<1>4. ret'.endptr = e /\ ret'.val = IF mem[i] = Minus THEN -DigitsValue(q, e - q, b) ELSE DigitsValue(q, e - q, b)
  BY <1>2
<1>5. DigitsValue(q, e - q, b) = Value(q, e, b) /\ DigitsValue(q, e - q, b) \in Nat
  <2>1. q <= e /\ e \in 0 .. l
    BY <1>2 DEF ReadsAs
  <2>2. l \in 0 .. Size - 1 /\ Size \in Nat
    <3>1. 0 + l \in DOMAIN mem /\ 0 + l = l
      BY <1>1 DEF StrEndsAt
    <3> QED
      BY <3>1, MemoryIs
  <2>3. q \in Nat /\ e \in Nat /\ b \in Nat /\ e - q \in Nat /\ e = q + (e - q) /\ e - q \in DOMAIN mem
    <3>1. q \in Nat /\ b \in Nat
      BY <1>3, MemoryIs
    <3>2. e - q \in 0 .. Size - 1
      BY <2>1, <2>2, <3>1
    <3> QED
      BY <2>1, <2>2, <3>1, <3>2, MemoryIs
  <2>4. HasDigits(q, e - q)
    <3> SUFFICES ASSUME NEW k \in 0 .. e - q - 1
                 PROVE  Digit(mem[q + k]) \in Nat
      BY DEF HasDigits
    <3>1. q + k \in 0 .. Size - 1
      BY <2>1, <2>2, <2>3
    <3>2. mem[q + k] \in Nat
      BY <3>1, MemoryIs
    <3> QED
      BY <3>2, DigitCodes
  <2> DEFINE n == e - q
  <2>5. n \in Nat /\ e = q + n /\ n \in DOMAIN mem /\ HasDigits(q, n)
    BY <2>3, <2>4
  <2> HIDE DEF n
  <2>6. DigitsValue(q, n, b) = Value(q, e, b) /\ DigitsValue(q, n, b) \in Nat
    BY ONLY <2>3, <2>5, HornerIsValue, Memory(mem)
  <2> QED
    BY <2>6 DEF n
<1>6. ret'.val = sgn * Value(q, e, b)
  <2>1. PICK v \in Nat : v = Value(q, e, b)
    BY <1>5
  <2>2. ret'.val = IF mem[i] = Minus THEN -v ELSE v
    BY <1>4, <1>5, <2>1
  <2>3. -v = -1 * v /\ v = 1 * v
    OBVIOUS
  <2>4. CASE mem[i] = Minus
    BY <1>3, <2>1, <2>2, <2>3, <2>4
  <2>5. CASE mem[i] # Minus
    BY <1>3, <2>1, <2>2, <2>3, <2>5
  <2> QED
    BY <2>4, <2>5
<1>7. ASSUME NEW r \in DOMAIN mem, NEW z \in DOMAIN mem, NEW c \in {base, 8, 10, 16}, NEW g \in {1, -1},
             IsNumeral(base, r, c, g, z)
      PROVE  z <= ret'.endptr
  <2>1. z <= e
    BY <1>1, <1>2, <1>7, ReadsLongest
  <2> QED
    BY <1>4, <2>1
<1> QED
  BY <1>3, <1>4, <1>6, <1>7

---------------------------------------------------------------------------
\* The calls.

\* A call of the library means what its name says.
LEMMA CallMeans ==
  ASSUME StringsAssumption, StrNext
  PROVE  CallMeaning(call'[1], call'[2], call'[3], call'[4])
<1>0. ASSUME NEW fn, NEW a, NEW b, NEW n, NEW m, NEW r, Call(fn, a, b, n, m, r), CallMeaning(fn, a, b, n)
      PROVE  CallMeaning(call'[1], call'[2], call'[3], call'[4])
  BY <1>0 DEF Call
<1>1. CASE /\ call = NoCall /\ mem \in Buffers
           /\ \E a \in DOMAIN mem, n \in 0 .. Cardinality(DOMAIN mem) :
                \/ \E b \in DOMAIN mem : CopyCalls(a, b, n) \/ SearchCalls(a, b, n)
                \/ \E c \in Fills : FillCalls(a, c, n)
  <2>6. Memory(mem)
    BY <1>1 DEF StringsAssumption
  <2>1. PICK a \in DOMAIN mem, n \in 0 .. Size :
          \/ \E b \in DOMAIN mem : CopyCalls(a, b, n) \/ SearchCalls(a, b, n)
          \/ \E c \in Fills : FillCalls(a, c, n)
    BY <1>1 DEF Size
  <2>2. n \in Nat
    BY <2>6, MemoryIs
  <2>3. ASSUME NEW b \in DOMAIN mem, CopyCalls(a, b, n)
        PROVE  CallMeaning(call'[1], call'[2], call'[3], call'[4])
    <3>1. CASE /\ Str(b) /\ Room(a, strlen(b) + 1) /\ Apart(a, strlen(b) + 1, b, strlen(b) + 1)
               /\ Call("strcpy", a, b, 0, strcpy(a, b), a)
      <4>1. mem' = strcpy(a, b)
        BY <3>1 DEF Call
      <4>2. Written(a, Append(String(b), 0))
        BY <2>6, <3>1, <4>1, StrcpyWrites
      <4>3. CallMeaning("strcpy", a, b, 0)
        BY <4>2 DEF CallMeaning
      <4> QED
        BY <1>0, <3>1, <4>3
    <3>2. CASE /\ Str(a) /\ Str(b) /\ Room(a, strlen(a) + strlen(b) + 1)
               /\ Apart(a, strlen(a) + strlen(b) + 1, b, strlen(b) + 1)
               /\ Call("strcat", a, b, 0, strcat(a, b), a)
      <4>1. mem' = strcat(a, b)
        BY <3>2 DEF Call
      <4>2. Written(a, String(a) \o Append(String(b), 0))
        BY <2>6, <3>2, <4>1, StrcatWrites
      <4>3. CallMeaning("strcat", a, b, 0)
        BY <4>2 DEF CallMeaning
      <4> QED
        BY <1>0, <3>2, <4>3
    <3>3. CASE /\ Str(b) /\ Room(a, n) /\ Apart(a, n, b, strlen(b) + 1)
               /\ Call("strncpy", a, b, n, strncpy(a, b, n), a)
      <4>1. mem' = strncpy(a, b, n)
        BY <3>3 DEF Call
      <4>2. Written(a, [k \in 1 .. n |-> IF k <= Len(String(b)) THEN String(b)[k] ELSE 0])
        BY <2>6, <2>2, <3>3, <4>1, StrncpyWrites
      <4>3. CallMeaning("strncpy", a, b, n)
        BY <4>2 DEF CallMeaning
      <4> QED
        BY <1>0, <3>3, <4>3
    <3>4. CASE /\ Str(b) /\ Room(a, n) /\ Apart(a, n, b, strlen(b) + 1)
               /\ Call("strlcpy", a, b, n, strlcpy(a, b, n), IF n = 0 THEN 0 ELSE strnlen(b, n - 1))
      <4>1. mem' = strlcpy(a, b, n) /\ ret' = IF n = 0 THEN 0 ELSE strnlen(b, n - 1)
        BY <3>4 DEF Call
      <4>2. /\ Written(a, IF n = 0 THEN << >> ELSE Append(Take(String(b), n - 1), 0))
            /\ n > 0 => ret' = Len(Take(String(b), n - 1))
        BY <2>6, <2>2, <3>4, <4>1, StrlcpyWrites
      <4>3. CallMeaning("strlcpy", a, b, n)
        BY <4>2 DEF CallMeaning
      <4> QED
        BY <1>0, <3>4, <4>3
    <3>5. CASE Room(a, n) /\ Room(b, n) /\ Call("memmove", a, b, n, memmove(a, b, n), a)
      <4>1. mem' = memmove(a, b, n)
        BY <3>5 DEF Call
      <4>2. Written(a, Chars(b, n))
        BY <2>6, <2>2, <3>5, <4>1, MemmoveWrites
      <4>3. CallMeaning("memmove", a, b, n)
        BY <4>2 DEF CallMeaning
      <4> QED
        BY <1>0, <3>5, <4>3
    <3> QED
      BY <2>3, <3>1, <3>2, <3>3, <3>4, <3>5 DEF CopyCalls
  <2>4. ASSUME NEW b \in DOMAIN mem, SearchCalls(a, b, n)
        PROVE  CallMeaning(call'[1], call'[2], call'[3], call'[4])
    <3>1. CASE Str(a) /\ Call("strnlen", a, 0, n, mem, strnlen(a, n))
      <4>1. mem' = mem /\ ret' = strnlen(a, n)
        BY <3>1 DEF Call
      <4>2. PICK l \in Nat : StrEndsAt(a, l)
        BY <2>6, <3>1, StrEnds
      <4>3. ret' = Len(Take(String(a), n))
        BY <2>6, <2>2, <4>1, <4>2, StrnlenIs, StartIs
      <4>4. Written(0, << >>)
        <5>1. Area(0, 0) = {}
          BY DEF Area
        <5>2. mem = [x \in DOMAIN mem |-> mem[x]]
          BY <2>6 DEF Memory
        <5> QED
          BY <4>1, <5>1, <5>2 DEF Written
      <4>5. CallMeaning("strnlen", a, 0, n)
        BY <4>3, <4>4 DEF CallMeaning
      <4> QED
        BY <1>0, <3>1, <4>5
    <3>2. CASE Str(a) /\ Str(b) /\ Call("strcmp", a, b, 0, mem, strcmp(a, b))
      <4>1. ret' = strcmp(a, b)
        BY <3>2 DEF Call
      <4>2. Compares(String(a), String(b))
        BY <2>6, <3>2, <4>1, StrcmpCompares
      <4>3. CallMeaning("strcmp", a, b, 0)
        BY <4>2 DEF CallMeaning
      <4> QED
        BY <1>0, <3>2, <4>3
    <3>3. CASE Str(a) /\ Str(b) /\ Call("strncmp", a, b, n, mem, strncmp(a, b, n))
      <4>1. ret' = strncmp(a, b, n)
        BY <3>3 DEF Call
      <4>2. Compares(Take(String(a), n), Take(String(b), n))
        BY <2>6, <3>3, <4>1, StrncmpCompares
      <4>3. CallMeaning("strncmp", a, b, n)
        BY <4>2 DEF CallMeaning
      <4> QED
        BY <1>0, <3>3, <4>3
    <3>4. CASE Room(a, n) /\ Room(b, n) /\ Call("memcmp", a, b, n, mem, memcmp(a, b, n))
      <4>1. ret' = memcmp(a, b, n)
        BY <3>4 DEF Call
      <4>2. Compares(Chars(a, n), Chars(b, n))
        BY <2>6, <3>4, <4>1, MemcmpCompares
      <4>3. CallMeaning("memcmp", a, b, n)
        BY <4>2 DEF CallMeaning
      <4> QED
        BY <1>0, <3>4, <4>3
    <3>5. CASE Str(a) /\ Str(b) /\ Call("strstr", a, b, 0, mem, strstr(a, b))
      <4>1. ret' = strstr(a, b)
        BY <3>5 DEF Call
      <4> DEFINE places == {i \in a .. a + Len(String(a)) : IsPrefix(String(b), String(i))}
      <4>2. ret' = IF places = {} THEN NULL_PTR ELSE Min(places)
        BY <2>6, <3>5, <4>1, StrstrAnswers
      <4>3. CallMeaning("strstr", a, b, 0)
        BY <4>2 DEF CallMeaning
      <4> QED
        BY <1>0, <3>5, <4>3
    <3> QED
      BY <2>4, <3>1, <3>2, <3>3, <3>4, <3>5 DEF SearchCalls
  <2>5. ASSUME NEW c \in Fills, FillCalls(a, c, n)
        PROVE  CallMeaning(call'[1], call'[2], call'[3], call'[4])
    <3>0. c \in Int
      BY DEF StringsAssumption
    <3>1. CASE Room(a, n) /\ Call("memset", a, c, n, memset(a, c, n), a)
      <4>1. mem' = memset(a, c, n)
        BY <3>1 DEF Call
      <4>2. Written(a, [k \in 1 .. n |-> c % BYTE])
        BY <2>6, <2>2, <3>0, <4>1, MemsetWrites
      <4>3. CallMeaning("memset", a, c, n)
        BY <4>2 DEF CallMeaning
      <4> QED
        BY <1>0, <3>1, <4>3
    <3>2. CASE Room(a, n) /\ Call("memfind", a, c, n, mem, memfind(a, c, n))
      <4>1. ret' = memfind(a, c, n)
        BY <3>2 DEF Call
      <4>2. ret' = Min({a + k - 1 : k \in Places(Chars(a, n), c)} \cup {a + n})
        BY <2>6, <3>2, <4>1, MemfindAnswers
      <4>3. CallMeaning("memfind", a, c, n)
        BY <4>2 DEF CallMeaning
      <4> QED
        BY <1>0, <3>2, <4>3
    <3>3. CASE Str(a) /\ Call("strchr", a, c, 0, mem, strchr(a, c))
      <4>1. ret' = strchr(a, c)
        BY <3>3 DEF Call
      <4>2. ret' = Min({a + k - 1 : k \in Places(String(a), c)} \cup
                       (IF Places(String(a), c) = {} THEN {NULL_PTR} ELSE {}))
        BY <2>6, <3>3, <4>1, StrchrAnswers
      <4>3. CallMeaning("strchr", a, c, 0)
        BY <4>2 DEF CallMeaning
      <4> QED
        BY <1>0, <3>3, <4>3
    <3>4. CASE Str(a) /\ Call("strfind", a, c, 0, mem, strfind(a, c))
      <4>1. ret' = strfind(a, c)
        BY <3>4 DEF Call
      <4>2. ret' = Min({a + k - 1 : k \in Places(String(a), c)} \cup {a + Len(String(a))})
        BY <2>6, <3>4, <4>1, StrfindAnswers
      <4>3. CallMeaning("strfind", a, c, 0)
        BY <4>2 DEF CallMeaning
      <4> QED
        BY <1>0, <3>4, <4>3
    <3> QED
      BY <2>5, <3>1, <3>2, <3>3, <3>4 DEF FillCalls
  <2> QED
    BY <2>1, <2>3, <2>4, <2>5
<1>2. CASE /\ call = NoCall /\ mem \in Texts
           /\ \E base \in {0, 8, 10, 16} : Call("strtol", 0, base, 0, mem, strtol(0, base))
  <2>1. Memory(mem) /\ \E x \in DOMAIN mem : mem[x] = 0
    BY <1>2 DEF StringsAssumption
  <2>2. PICK x \in DOMAIN mem : mem[x] = 0
    BY <2>1
  <2>3. PICK base \in {0, 8, 10, 16} : Call("strtol", 0, base, 0, mem, strtol(0, base))
    BY <1>2
  <2>4. ret' = strtol(0, base)
    BY <2>3 DEF Call
  <2>5. /\ \E q \in DOMAIN mem, b \in {base, 8, 10, 16}, sgn \in {1, -1} :
             IsNumeral(base, q, b, sgn, ret'.endptr) /\ ret'.val = sgn * Value(q, ret'.endptr, b)
        /\ \A q, e \in DOMAIN mem, b \in {base, 8, 10, 16}, sgn \in {1, -1} :
             IsNumeral(base, q, b, sgn, e) => e <= ret'.endptr
    BY <2>1, <2>2, <2>4, StrtolAnswers
  <2>6. CallMeaning("strtol", 0, base, 0)
    BY <2>5 DEF CallMeaning
  <2> QED
    BY <1>0, <2>3, <2>6
<1> QED
  BY <1>1, <1>2, Zenon DEF StrNext

(***************************************************************************)
(* The string library: each of its functions does in memory, and answers,  *)
(* what its name says of strings and areas, in every memory, with          *)
(* arguments the function allows; memmove() also when the areas overlap.   *)
(***************************************************************************)
THEOREM StringCallsRight == StrSpec => CallsRight
<1>1. StrNext => (call' # NoCall => CallMeaning(call'[1], call'[2], call'[3], call'[4]))
  BY StringsAssumption, CallMeans
<1>2. [StrNext]_strVars => [call' # NoCall => CallMeaning(call'[1], call'[2], call'[3], call'[4])]_strVars
  BY <1>1
<1> QED
  BY <1>2, PTL DEF StrSpec, CallsRight

---------------------------------------------------------------------------
\* The lists.

\* No element is there twice.
Once(s) == \A j, k \in DOMAIN s : s[j] = s[k] => j = k

ListTypes ==
  /\ list \in Seq(Elem) /\ Once(list)
  /\ next \in [Elem \cup {HEAD} -> Elem \cup {NULL}]
  /\ le_prev \in [Elem -> Elem \cup {HEAD, NULL}]
  /\ var \in Elem \cup {NULL}

ListInv == ListTypes /\ Linked

USE ListsAssumption

---------------------------------------------------------------------------
\* An element put into a list, or taken out.

\* The elements of a list after an insertion, place by place.
LEMMA InsertAtPlaces ==
  ASSUME NEW s \in Seq(Elem), NEW e \in Elem, NEW q \in 1 .. Len(s) + 1
  PROVE  /\ InsertAt(s, q, e) \in Seq(Elem) /\ Len(InsertAt(s, q, e)) = Len(s) + 1
         /\ \A k \in 1 .. Len(s) + 1 :
              InsertAt(s, q, e)[k] = IF k < q THEN s[k] ELSE IF k = q THEN e ELSE s[k - 1]
<1> DEFINE a == SubSeq(s, 1, q - 1)
           b == SubSeq(s, q, Len(s))
<1>1. Len(s) \in Nat /\ q \in Nat /\ q >= 1 /\ q <= Len(s) + 1
  OBVIOUS
<1>2. /\ a \in Seq(Elem) /\ Len(a) = q - 1
      /\ \A k \in 1 .. q - 1 : a[k] = s[k]
  <2>1. \A k \in 1 .. q - 1 : s[k] \in Elem
    BY <1>1
  <2> QED
    BY <1>1, <2>1, SubSeqProperties
<1>3. /\ b \in Seq(Elem) /\ Len(b) = Len(s) - q + 1
      /\ \A k \in 1 .. Len(s) - q + 1 : b[k] = s[q + k - 1]
  <2>1. \A k \in q .. Len(s) : s[k] \in Elem
    BY <1>1
  <2> QED
    BY <1>1, <2>1, SubSeqProperties
<1>4. InsertAt(s, q, e) = (a \o <<e>>) \o b
  BY DEF InsertAt
<1> HIDE DEF a, b
<1>5. <<e>> \in Seq(Elem) /\ Len(<<e>>) = 1 /\ <<e>>[1] = e
  OBVIOUS
<1>6. /\ a \o <<e>> \in Seq(Elem) /\ Len(a \o <<e>>) = q
      /\ \A k \in 1 .. q : (a \o <<e>>)[k] = IF k <= q - 1 THEN a[k] ELSE <<e>>[k - (q - 1)]
  BY <1>1, <1>2, <1>5, ConcatProperties
<1>7. \A k \in 1 .. q : (a \o <<e>>)[k] = IF k < q THEN s[k] ELSE e
  BY <1>1, <1>2, <1>5, <1>6
<1> DEFINE c == a \o <<e>>
<1> HIDE DEF c
<1>8. /\ c \o b \in Seq(Elem) /\ Len(c \o b) = Len(s) + 1
      /\ \A k \in 1 .. Len(s) + 1 : (c \o b)[k] = IF k <= q THEN c[k] ELSE b[k - q]
  <2>1. c \in Seq(Elem) /\ Len(c) = q
    BY <1>6 DEF c
  <2>2. /\ c \o b \in Seq(Elem) /\ Len(c \o b) = Len(c) + Len(b)
        /\ \A k \in 1 .. Len(c) + Len(b) : (c \o b)[k] = IF k <= Len(c) THEN c[k] ELSE b[k - Len(c)]
    BY <1>3, <2>1, ConcatProperties
  <2>3. Len(c) + Len(b) = Len(s) + 1
    BY <1>1, <1>3, <2>1
  <2> QED
    BY <2>1, <2>2, <2>3
<1>9. \A k \in 1 .. Len(s) + 1 :
        (c \o b)[k] = IF k < q THEN s[k] ELSE IF k = q THEN e ELSE s[k - 1]
  BY <1>1, <1>3, <1>7, <1>8 DEF c
<1> QED
  BY <1>4, <1>8, <1>9 DEF c

\* The elements of a list after a removal, place by place.
LEMMA RemoveAtPlaces ==
  ASSUME NEW s \in Seq(Elem), NEW q \in 1 .. Len(s)
  PROVE  /\ RemoveAt(s, q) \in Seq(Elem) /\ Len(RemoveAt(s, q)) = Len(s) - 1
         /\ \A k \in 1 .. Len(s) - 1 : RemoveAt(s, q)[k] = IF k < q THEN s[k] ELSE s[k + 1]
<1> DEFINE a == SubSeq(s, 1, q - 1)
           b == SubSeq(s, q + 1, Len(s))
<1>1. Len(s) \in Nat /\ q \in Nat /\ q >= 1 /\ q <= Len(s)
  OBVIOUS
<1>2. /\ a \in Seq(Elem) /\ Len(a) = q - 1
      /\ \A k \in 1 .. q - 1 : a[k] = s[k]
  <2>1. \A k \in 1 .. q - 1 : s[k] \in Elem
    BY <1>1
  <2> QED
    BY <1>1, <2>1, SubSeqProperties
<1>3. /\ b \in Seq(Elem) /\ Len(b) = Len(s) - q
      /\ \A k \in 1 .. Len(s) - q : b[k] = s[q + k]
  <2>1. \A k \in q + 1 .. Len(s) : s[k] \in Elem
    BY <1>1
  <2> QED
    BY <1>1, <2>1, SubSeqProperties
<1>4. RemoveAt(s, q) = a \o b
  BY DEF RemoveAt
<1> HIDE DEF a, b
<1>5. /\ a \o b \in Seq(Elem) /\ Len(a \o b) = Len(s) - 1
      /\ \A k \in 1 .. Len(s) - 1 : (a \o b)[k] = IF k <= q - 1 THEN a[k] ELSE b[k - (q - 1)]
  <2>1. /\ a \o b \in Seq(Elem) /\ Len(a \o b) = Len(a) + Len(b)
        /\ \A k \in 1 .. Len(a) + Len(b) : (a \o b)[k] = IF k <= Len(a) THEN a[k] ELSE b[k - Len(a)]
    BY <1>2, <1>3, ConcatProperties
  <2>2. Len(a) + Len(b) = Len(s) - 1
    BY <1>1, <1>2, <1>3
  <2> QED
    BY <1>2, <2>1, <2>2
<1>6. \A k \in 1 .. Len(s) - 1 : (a \o b)[k] = IF k < q THEN s[k] ELSE s[k + 1]
  <2> SUFFICES ASSUME NEW k \in 1 .. Len(s) - 1
               PROVE  (a \o b)[k] = IF k < q THEN s[k] ELSE s[k + 1]
    OBVIOUS
  <2>1. CASE k < q
    BY <1>1, <1>2, <1>5, <2>1
  <2>2. CASE k >= q
    <3> DEFINE m == k - (q - 1)
    <3>1. m \in 1 .. Len(s) - q /\ q + m = k + 1 /\ ~(k < q) /\ ~(k <= q - 1)
      BY <1>1, <2>2
    <3>2. (a \o b)[k] = b[m]
      BY <1>5, <3>1
    <3> HIDE DEF m
    <3>3. b[m] = s[k + 1]
      BY <1>3, <3>1
    <3> QED
      BY <3>1, <3>2, <3>3
  <2>3. k < q \/ k >= q
    BY <1>1
  <2> QED
    BY <2>1, <2>2, <2>3, Zenon
<1> QED
  BY <1>4, <1>5, <1>6

\* The head macro inserts at the first place.
LEMMA InsertAtHead ==
  ASSUME NEW s \in Seq(Elem), NEW e \in Elem
  PROVE  <<e>> \o s = InsertAt(s, 1, e)
<1>1. SubSeq(s, 1, 0) = << >> /\ SubSeq(s, 1, Len(s)) = s
  BY SubSeqFull, SubSeqEmpty
<1>2. << >> \o <<e>> = <<e>>
  OBVIOUS
<1> QED
  BY <1>1, <1>2 DEF InsertAt

\* The place of an element of the list.
LEMMA PlaceOf ==
  ASSUME ListTypes, NEW e, InList(e)
  PROVE  Place(e) \in 1 .. Len(list) /\ list[Place(e)] = e /\ e \in Elem
BY DEF ListTypes, InList, Place

---------------------------------------------------------------------------
\* The links.

(* An element e put at place q, behind the pointer b: the pointer, the     *)
(* element and the one behind it are linked and no other link changes.     *)
LEMMA InsertLinks ==
  ASSUME ListInv, NEW e \in Elem, ~InList(e), NEW q \in 1 .. Len(list) + 1,
         NEW b, b = Pointer(list, q), list' = InsertAt(list, q, e),
         next' = [next EXCEPT ![e] = next[b], ![b] = e],
         le_prev' \in [Elem -> Elem \cup {HEAD, NULL}],
         \A x \in Elem : le_prev'[x] = IF x = e THEN b
                                       ELSE IF q <= Len(list) /\ x = list[q] THEN e
                                       ELSE le_prev[x],
         var' = var
  PROVE  ListInv'
<1>1. /\ list \in Seq(Elem) /\ Once(list) /\ Len(list) \in Nat /\ q \in Nat /\ q >= 1 /\ q <= Len(list) + 1
      /\ DOMAIN list = 1 .. Len(list) /\ \A k \in 1 .. Len(list) : list[k] \in Elem /\ list[k] # e
      /\ next \in [Elem \cup {HEAD} -> Elem \cup {NULL}]
  BY DEF ListInv, ListTypes, InList
<1>2. /\ list' \in Seq(Elem) /\ Len(list') = Len(list) + 1 /\ DOMAIN list' = 1 .. Len(list) + 1
      /\ \A k \in 1 .. Len(list) + 1 :
           list'[k] = IF k < q THEN list[k] ELSE IF k = q THEN e ELSE list[k - 1]
  <2> DEFINE t == InsertAt(list, q, e)
  <2>1. /\ t \in Seq(Elem) /\ Len(t) = Len(list) + 1
        /\ \A k \in 1 .. Len(list) + 1 :
             t[k] = IF k < q THEN list[k] ELSE IF k = q THEN e ELSE list[k - 1]
    BY ZenonT(60), <1>1, InsertAtPlaces
  <2>2. DOMAIN t = 1 .. Len(list) + 1
    <3> HIDE DEF t
    <3> QED
      BY <2>1
  <2>3. list' = t
    OBVIOUS
  <2> HIDE DEF t
  <2> QED
    BY <2>1, <2>2, <2>3
<1>3. Once(list')
  <2> SUFFICES ASSUME NEW j \in 1 .. Len(list) + 1, NEW k \in 1 .. Len(list) + 1, list'[j] = list'[k]
               PROVE  j = k
    BY <1>2 DEF Once
  <2>1. \A m \in 1 .. Len(list) + 1 : list'[m] = e => m = q
    BY <1>1, <1>2
  <2>2. CASE j = q \/ k = q
    BY <1>1, <1>2, <2>1, <2>2
  <2>3. CASE j # q /\ k # q
    <3> DEFINE old(m) == IF m < q THEN m ELSE m - 1
    <3>1. \A m \in 1 .. Len(list) + 1 : m # q => old(m) \in 1 .. Len(list) /\ list'[m] = list[old(m)]
      BY <1>1, <1>2
    <3>2. old(j) = old(k)
      <4> HIDE DEF old
      <4>1. old(j) \in DOMAIN list /\ old(k) \in DOMAIN list /\ list[old(j)] = list[old(k)]
        BY <1>1, <2>3, <3>1
      <4> QED
        BY <1>1, <4>1 DEF Once
    <3> QED
      BY <1>1, <2>3, <3>2
  <2> QED
    BY <2>2, <2>3
<1>4. b \in Elem \cup {HEAD} /\ b # e
  BY <1>1 DEF Pointer
<1>5. /\ next' \in [Elem \cup {HEAD} -> Elem \cup {NULL}]
      /\ next'[b] = e /\ next'[e] = next[b]
      /\ \A x \in Elem \cup {HEAD} : x # b /\ x # e => next'[x] = next[x]
  BY <1>1, <1>4
<1>6. ListTypes'
  BY <1>2, <1>3, <1>5 DEF ListInv, ListTypes
<1>7. /\ \A k \in 1 .. Len(list) : /\ next[Pointer(list, k)] = list[k]
                                   /\ le_prev[list[k]] = Pointer(list, k)
      /\ next[Pointer(list, Len(list) + 1)] = NULL
  BY <1>1 DEF ListInv, Linked
<1>8. \A k \in 1 .. Len(list) + 1 : k # q => Pointer(list, k) # b /\ Pointer(list, k) # e
                                             /\ Pointer(list, k) \in Elem \cup {HEAD}
  BY <1>1 DEF Pointer, Once
<1>9. /\ \A k \in 1 .. q - 1 : Pointer(list', k) = Pointer(list, k)
      /\ Pointer(list', q) = b /\ Pointer(list', q + 1) = e
      /\ \A k \in q + 2 .. Len(list) + 2 : Pointer(list', k) = Pointer(list, k - 1)
  BY <1>1, <1>2 DEF Pointer
<1>10. ASSUME NEW k \in 1 .. Len(list) + 1
       PROVE  next'[Pointer(list', k)] = list'[k] /\ le_prev'[list'[k]] = Pointer(list', k)
  <2>1. CASE k < q
    <3>1. list'[k] = list[k] /\ k \in 1 .. Len(list) /\ k \in 1 .. q - 1 /\ list[k] \in Elem /\ list[k] # e
      BY <1>1, <1>2, <2>1
    <3>2. q <= Len(list) => list[k] # list[q]
      BY <1>1, <2>1, <3>1 DEF Once
    <3>3. le_prev'[list[k]] = le_prev[list[k]]
      BY <3>1, <3>2
    <3>4. next'[Pointer(list, k)] = next[Pointer(list, k)]
      BY <1>1, <1>5, <1>8, <2>1, <3>1
    <3> QED
      BY <1>7, <1>9, <3>1, <3>3, <3>4
  <2>2. CASE k = q
    <3>1. list'[k] = e /\ Pointer(list', k) = b
      BY <1>2, <1>9, <2>2
    <3> QED
      BY <1>5, <3>1
  <2>3. CASE k = q + 1
    <3>1. list'[k] = list[q] /\ Pointer(list', k) = e /\ q \in 1 .. Len(list)
      BY <1>1, <1>2, <1>9, <2>3
    <3> QED
      BY <1>1, <1>5, <1>7, <3>1
  <2>4. CASE k > q + 1
    <3>1. list'[k] = list[k - 1] /\ k - 1 \in 1 .. Len(list) /\ k - 1 # q /\ k \in q + 2 .. Len(list) + 2
      BY <1>1, <1>2, <2>4
    <3>2. list[k - 1] \in Elem /\ list[k - 1] # e /\ (q <= Len(list) => list[k - 1] # list[q])
      BY <1>1, <3>1 DEF Once
    <3>3. le_prev'[list[k - 1]] = le_prev[list[k - 1]]
      BY <3>2
    <3>4. next'[Pointer(list, k - 1)] = next[Pointer(list, k - 1)]
      BY <1>1, <1>5, <1>8, <3>1
    <3> QED
      BY <1>7, <1>9, <3>1, <3>3, <3>4
  <2> QED
    BY <1>1, <2>1, <2>2, <2>3, <2>4
<1>11. next'[Pointer(list', Len(list) + 2)] = NULL
  <2>1. CASE q = Len(list) + 1
    BY <1>1, <1>5, <1>7, <1>9, <2>1
  <2>2. CASE q <= Len(list)
    <3>1. Len(list) + 2 \in q + 2 .. Len(list) + 2 /\ (Len(list) + 2) - 1 = Len(list) + 1
      BY <1>1, <2>2
    <3>2. next'[Pointer(list, Len(list) + 1)] = next[Pointer(list, Len(list) + 1)]
      BY <1>1, <1>5, <1>8, <2>2
    <3>3. Pointer(list', Len(list) + 2) = Pointer(list, Len(list) + 1)
      BY <1>9, <3>1
    <3> QED
      BY <1>7, <3>2, <3>3
  <2> QED
    BY <1>1, <2>1, <2>2
<1>12. Linked'
  <2>1. Len(list') + 1 = Len(list) + 2
    BY <1>1, <1>2
  <2> QED
    BY <1>2, <1>10, <1>11, <2>1 DEF Linked
<1> QED
  BY <1>6, <1>12 DEF ListInv

(* The element at place q taken out: the pointer at it now points at the   *)
(* one behind it, and that one back.                                       *)
LEMMA RemoveLinks ==
  ASSUME ListInv, NEW q \in 1 .. Len(list), NEW e, e = list[q],
         list' = RemoveAt(list, q),
         next' = [next EXCEPT ![le_prev[e]] = next[e]],
         le_prev' = IF next[e] = NULL THEN le_prev
                    ELSE [le_prev EXCEPT ![next[e]] = le_prev[e]],
         var' = var
  PROVE  ListInv'
<1>0. /\ q \in Nat /\ q >= 1 /\ Len(list) \in Nat
      /\ q = Len(list) \/ (q < Len(list) /\ q # Len(list) /\ q + 1 \in 1 .. Len(list))
  <2>1. Len(list) \in Nat
    BY DEF ListInv, ListTypes
  <2> QED
    BY <2>1
<1>1. /\ list \in Seq(Elem) /\ Once(list) /\ Len(list) \in Nat /\ q \in Nat /\ q >= 1 /\ q <= Len(list)
      /\ DOMAIN list = 1 .. Len(list) /\ \A k \in 1 .. Len(list) : list[k] \in Elem
      /\ next \in [Elem \cup {HEAD} -> Elem \cup {NULL}]
      /\ le_prev \in [Elem -> Elem \cup {HEAD, NULL}]
  BY DEF ListInv, ListTypes
<1>2. /\ list' \in Seq(Elem) /\ Len(list') = Len(list) - 1 /\ DOMAIN list' = 1 .. Len(list) - 1
      /\ \A k \in 1 .. Len(list) - 1 : list'[k] = IF k < q THEN list[k] ELSE list[k + 1]
  <2> DEFINE t == RemoveAt(list, q)
  <2>1. /\ t \in Seq(Elem) /\ Len(t) = Len(list) - 1
        /\ \A k \in 1 .. Len(list) - 1 : t[k] = IF k < q THEN list[k] ELSE list[k + 1]
    BY <1>1, RemoveAtPlaces
  <2>2. DOMAIN t = 1 .. Len(list) - 1
    <3> HIDE DEF t
    <3> QED
      BY <2>1
  <2>3. list' = t
    OBVIOUS
  <2> HIDE DEF t
  <2> QED
    BY <2>1, <2>2, <2>3
<1>3. Once(list')
  <2> SUFFICES ASSUME NEW j \in 1 .. Len(list) - 1, NEW k \in 1 .. Len(list) - 1, list'[j] = list'[k]
               PROVE  j = k
    BY <1>2 DEF Once
  <2> DEFINE old(m) == IF m < q THEN m ELSE m + 1
  <2>1. \A m \in 1 .. Len(list) - 1 : old(m) \in 1 .. Len(list) /\ list'[m] = list[old(m)]
    BY <1>1, <1>2
  <2>2. old(j) = old(k)
    <3> HIDE DEF old
    <3> QED
      BY <1>1, <2>1 DEF Once
  <2> QED
    BY <1>1, <2>2
<1>4. /\ \A k \in 1 .. Len(list) : /\ next[Pointer(list, k)] = list[k]
                                   /\ le_prev[list[k]] = Pointer(list, k)
      /\ next[Pointer(list, Len(list) + 1)] = NULL
  BY <1>1 DEF ListInv, Linked
<1> DEFINE b == Pointer(list, q)
<1>5. b \in Elem \cup {HEAD} /\ le_prev[e] = b /\ e \in Elem /\ b # e
  BY <1>1, <1>4 DEF Pointer, Once
<1>6. next[e] = IF q = Len(list) THEN NULL ELSE list[q + 1]
  <2>1. Pointer(list, q + 1) = e
    BY <1>1 DEF Pointer
  <2>2. q = Len(list) => next[e] = NULL
    BY <1>4, <2>1
  <2>3. q # Len(list) => q + 1 \in 1 .. Len(list)
    BY <1>0
  <2>4. q # Len(list) => next[e] = list[q + 1]
    BY <1>4, <2>1, <2>3
  <2> QED
    BY <2>2, <2>4
<1> HIDE DEF b
<1>7. /\ next' \in [Elem \cup {HEAD} -> Elem \cup {NULL}]
      /\ next'[b] = next[e]
      /\ \A x \in Elem \cup {HEAD} : x # b => next'[x] = next[x]
  BY <1>1, <1>5
<1>8. /\ le_prev' \in [Elem -> Elem \cup {HEAD, NULL}]
      /\ q < Len(list) => le_prev'[list[q + 1]] = b
      /\ \A x \in Elem : (q < Len(list) => x # list[q + 1]) => le_prev'[x] = le_prev[x]
  <2>1. CASE q = Len(list)
    BY <1>1, <1>6, <2>1
  <2>2. CASE q < Len(list)
    <3>0. q + 1 \in 1 .. Len(list) /\ q # Len(list)
      BY <1>0, <2>2
    <3>1. list[q + 1] \in Elem /\ next[e] = list[q + 1] /\ next[e] # NULL
      BY <1>1, <1>6, <3>0
    <3>2. le_prev' = [le_prev EXCEPT ![list[q + 1]] = b]
      BY <1>5, <3>1
    <3> QED
      BY <1>1, <1>5, <2>2, <3>1, <3>2
  <2>3. q = Len(list) \/ q < Len(list)
    BY <1>0
  <2> QED
    BY <2>1, <2>2, <2>3, Zenon
<1>9. ListTypes'
  BY <1>2, <1>3, <1>7, <1>8 DEF ListInv, ListTypes
<1>10. \A k \in 1 .. Len(list) + 1 : k # q => Pointer(list, k) # b /\ Pointer(list, k) \in Elem \cup {HEAD}
  BY <1>1 DEF Pointer, Once, b
<1>11. /\ \A k \in 1 .. q : Pointer(list', k) = Pointer(list, k)
       /\ \A k \in q + 1 .. Len(list) : Pointer(list', k) = Pointer(list, k + 1)
  BY <1>1, <1>2 DEF Pointer
<1>12. ASSUME NEW k \in 1 .. Len(list) - 1
       PROVE  next'[Pointer(list', k)] = list'[k] /\ le_prev'[list'[k]] = Pointer(list', k)
  <2>1. CASE k < q
    <3>1. list'[k] = list[k] /\ k \in 1 .. Len(list) /\ k \in 1 .. q /\ k # q /\ list[k] \in Elem
      BY <1>1, <1>2, <2>1
    <3>2. q < Len(list) => list[k] # list[q + 1]
      BY <1>1, <2>1, <3>1 DEF Once
    <3>3. le_prev'[list[k]] = le_prev[list[k]]
      BY <1>8, <3>1, <3>2
    <3>4. next'[Pointer(list, k)] = next[Pointer(list, k)]
      BY <1>1, <1>7, <1>10, <3>1
    <3> QED
      BY <1>4, <1>11, <3>1, <3>3, <3>4
  <2>2. CASE k = q
    <3>1. list'[k] = list[q + 1] /\ Pointer(list', k) = b /\ q < Len(list)
      BY <1>1, <1>2, <1>11, <2>2 DEF b
    <3>2. next[e] = list[q + 1]
      BY <1>0, <1>6, <3>1
    <3> QED
      BY <1>7, <1>8, <3>1, <3>2
  <2>3. CASE k > q
    <3>1. list'[k] = list[k + 1] /\ k + 1 \in 1 .. Len(list) /\ k + 1 # q /\ k \in q + 1 .. Len(list)
      BY <1>1, <1>2, <2>3
    <3>2. list[k + 1] \in Elem /\ (q < Len(list) => list[k + 1] # list[q + 1])
      BY <1>1, <2>3, <3>1 DEF Once
    <3>3. le_prev'[list[k + 1]] = le_prev[list[k + 1]]
      BY <1>8, <3>2
    <3>4. next'[Pointer(list, k + 1)] = next[Pointer(list, k + 1)]
      BY <1>1, <1>7, <1>10, <3>1
    <3> QED
      BY <1>4, <1>11, <3>1, <3>3, <3>4
  <2> QED
    BY <1>1, <2>1, <2>2, <2>3
<1>13. next'[Pointer(list', Len(list))] = NULL
  <2>1. CASE q = Len(list)
    <3>1. Pointer(list', Len(list)) = b /\ next[e] = NULL
      BY <1>1, <1>6, <1>11, <2>1 DEF b
    <3> QED
      BY <1>7, <3>1
  <2>2. CASE q < Len(list)
    <3>1. Pointer(list', Len(list)) = Pointer(list, Len(list) + 1)
      BY <1>1, <1>11, <2>2
    <3>2. next'[Pointer(list, Len(list) + 1)] = next[Pointer(list, Len(list) + 1)]
      BY <1>1, <1>7, <1>10, <2>2
    <3> QED
      BY <1>4, <3>1, <3>2
  <2>3. q = Len(list) \/ q < Len(list)
    BY <1>0
  <2> QED
    BY <2>1, <2>2, <2>3, Zenon
<1>14. Linked'
  <2>1. Len(list') + 1 = Len(list)
    BY <1>1, <1>2
  <2> QED
    BY <1>2, <1>12, <1>13, <2>1 DEF Linked
<1> QED
  BY <1>9, <1>14 DEF ListInv

\* The pointer at place k, and what it points at.
LEMMA PointerAt ==
  ASSUME ListInv
  PROVE  /\ Len(list) \in Nat /\ DOMAIN list = 1 .. Len(list)
         /\ \A k \in 1 .. Len(list) : /\ list[k] \in Elem /\ next[Pointer(list, k)] = list[k]
                                      /\ le_prev[list[k]] = Pointer(list, k)
                                      /\ Pointer(list, k + 1) = list[k]
         /\ next[Pointer(list, Len(list) + 1)] = NULL /\ Pointer(list, 1) = HEAD
<1>1. list \in Seq(Elem)
  BY DEF ListInv, ListTypes
<1>2. \A k \in 1 .. Len(list) : Pointer(list, k + 1) = list[k]
  BY <1>1 DEF Pointer
<1> QED
  BY <1>1, <1>2 DEF ListInv, Linked, Pointer

\* InsertBehind() at the pointer of place q.
LEMMA BehindInserts ==
  ASSUME ListInv, NEW e \in Elem, ~InList(e), NEW q \in 1 .. Len(list) + 1,
         list' = InsertAt(list, q, e), InsertBehind(Pointer(list, q), e)
  PROVE  ListInv'
<1> DEFINE b == Pointer(list, q)
<1>1. next[b] = IF q <= Len(list) THEN list[q] ELSE NULL
  BY PointerAt
<1>2. b \in Elem \cup {HEAD}
  BY PointerAt DEF Pointer
<1>3. /\ next' = [next EXCEPT ![e] = next[b], ![b] = e]
      /\ le_prev' = IF next[b] = NULL THEN [le_prev EXCEPT ![e] = b]
                    ELSE [le_prev EXCEPT ![next[b]] = e, ![e] = b]
      /\ var' = var
  BY DEF InsertBehind, loopVars
<1> HIDE DEF b
<1>4. le_prev \in [Elem -> Elem \cup {HEAD, NULL}]
  BY DEF ListInv, ListTypes
<1>5. /\ \A x \in Elem : le_prev'[x] = IF x = e THEN b ELSE IF x = next[b] THEN e ELSE le_prev[x]
      /\ le_prev' \in [Elem -> Elem \cup {HEAD, NULL}]
  <2>1. CASE next[b] = NULL
    BY <1>2, <1>3, <1>4, <2>1
  <2>2. CASE next[b] # NULL
    <3>1. next[b] \in Elem
      BY <1>2, <2>2 DEF ListInv, ListTypes
    <3> QED
      BY <1>2, <1>3, <1>4, <2>2, <3>1
  <2> QED
    BY <2>1, <2>2
<1>6. \A x \in Elem : x = next[b] <=> q <= Len(list) /\ x = list[q]
  BY <1>1
<1>7. \A x \in Elem : le_prev'[x] = IF x = e THEN b
                                    ELSE IF q <= Len(list) /\ x = list[q] THEN e
                                    ELSE le_prev[x]
  BY <1>5, <1>6
<1> QED
  BY <1>3, <1>5, <1>7, InsertLinks DEF b

\* Every macro keeps the list linked.
LEMMA ListStep == ListInv /\ [ListNext]_listVars => ListInv'
<1> SUFFICES ASSUME ListInv, [ListNext]_listVars
             PROVE  ListInv'
  OBVIOUS
<1>1. /\ list \in Seq(Elem) /\ Once(list) /\ Len(list) \in Nat
      /\ next \in [Elem \cup {HEAD} -> Elem \cup {NULL}]
      /\ le_prev \in [Elem -> Elem \cup {HEAD, NULL}]
      /\ var \in Elem \cup {NULL}
  BY DEF ListInv, ListTypes
<1>2. CASE Clear
  <2>1. /\ list' = << >> /\ next' = [next EXCEPT ![HEAD] = NULL]
        /\ le_prev' = le_prev /\ var' = var
    BY <1>2 DEF Clear, loopVars
  <2>2. ListTypes'
    BY <1>1, <2>1 DEF ListTypes, Once
  <2>3. Linked'
    BY <1>1, <2>1 DEF Linked, Pointer
  <2> QED
    BY <2>2, <2>3 DEF ListInv
<1>3. ASSUME UNCHANGED <<list, next, le_prev>>, var' \in Elem \cup {NULL}
      PROVE  ListInv'
  BY <1>3 DEF ListInv, ListTypes, Linked, Pointer, Once
<1>4. CASE Foreach \/ LIST_NEXT
  <2>1. var' \in Elem \cup {NULL} /\ UNCHANGED <<list, next, le_prev>>
    BY <1>1, <1>4 DEF Foreach, LIST_NEXT, linkVars
  <2> QED
    BY <1>3, <2>1
<1>5. ASSUME NEW e \in Elem, LIST_INSERT_HEAD(e)
      PROVE  ListInv'
  <2>1. ~InList(e) /\ list' = InsertAt(list, 1, e) /\ InsertBehind(HEAD, e)
    BY <1>1, <1>5, InsertAtHead DEF LIST_INSERT_HEAD, MayInsert
  <2>2. Pointer(list, 1) = HEAD /\ 1 \in 1 .. Len(list) + 1
    BY <1>1 DEF Pointer
  <2> QED
    BY <1>5, <2>1, <2>2, BehindInserts
<1>6. ASSUME NEW l \in Elem, NEW e \in Elem, LIST_INSERT_AFTER(l, e)
      PROVE  ListInv'
  <2>1. InList(l) /\ ~InList(e) /\ list' = InsertAt(list, Place(l) + 1, e) /\ InsertBehind(l, e)
    BY <1>6 DEF LIST_INSERT_AFTER, MayInsert
  <2>2. Place(l) \in 1 .. Len(list) /\ list[Place(l)] = l
    BY <2>1, PlaceOf DEF ListInv
  <2>3. Place(l) + 1 \in 1 .. Len(list) + 1 /\ Pointer(list, Place(l) + 1) = l
    BY <1>1, <2>2, PointerAt
  <2> QED
    BY <1>6, <2>1, <2>3, BehindInserts
<1>7. ASSUME NEW l \in Elem, NEW e \in Elem, LIST_INSERT_BEFORE(l, e)
      PROVE  ListInv'
  <2> DEFINE q == Place(l)
             b == Pointer(list, q)
  <2>1. /\ InList(l) /\ ~InList(e) /\ list' = InsertAt(list, q, e) /\ var' = var
        /\ next' = [next EXCEPT ![e] = l, ![le_prev[l]] = e]
        /\ le_prev' = [le_prev EXCEPT ![e] = le_prev[l], ![l] = e]
    BY <1>7 DEF LIST_INSERT_BEFORE, MayInsert, loopVars
  <2>2. q \in 1 .. Len(list) /\ list[q] = l
    BY <2>1, PlaceOf DEF ListInv
  <2>3. le_prev[l] = b /\ next[b] = l /\ q \in 1 .. Len(list) + 1 /\ q <= Len(list) /\ l # e
    BY <1>1, <2>1, <2>2, PointerAt DEF InList
  <2>4. b \in Elem \cup {HEAD}
    BY <1>1, <2>2 DEF Pointer
  <2> HIDE DEF q, b
  <2>5. /\ le_prev' \in [Elem -> Elem \cup {HEAD, NULL}]
        /\ \A x \in Elem : le_prev'[x] = IF x = e THEN b
                                         ELSE IF q <= Len(list) /\ x = list[q] THEN e
                                         ELSE le_prev[x]
    BY <1>1, <2>1, <2>2, <2>3, <2>4
  <2>6. next' = [next EXCEPT ![e] = next[b], ![b] = e]
    BY <2>1, <2>3
  <2>7. b = Pointer(list, q)
    BY DEF b
  <2>8. ~InList(e) /\ q \in 1 .. Len(list) + 1 /\ list' = InsertAt(list, q, e) /\ var' = var
    BY <2>1, <2>3
  <2> QED
    BY <1>7, <2>5, <2>6, <2>7, <2>8, InsertLinks
<1>8. ASSUME NEW e \in Elem, LIST_REMOVE(e)
      PROVE  ListInv'
  <2>1. /\ InList(e) /\ list' = RemoveAt(list, Place(e)) /\ var' = var
        /\ le_prev' = IF next[e] = NULL THEN le_prev
                      ELSE [le_prev EXCEPT ![next[e]] = le_prev[e]]
        /\ next' = [next EXCEPT ![le_prev[e]] = next[e]]
    BY <1>8 DEF LIST_REMOVE, MayRemove, loopVars
  <2>2. Place(e) \in 1 .. Len(list) /\ list[Place(e)] = e
    BY <2>1, PlaceOf DEF ListInv
  <2> DEFINE q == Place(e)
  <2>3. q \in 1 .. Len(list) /\ e = list[q] /\ list' = RemoveAt(list, q)
    BY <2>1, <2>2
  <2> HIDE DEF q
  <2> QED
    BY <2>1, <2>3, RemoveLinks
<1>9. CASE UNCHANGED listVars
  BY <1>1, <1>3, <1>9 DEF listVars, linkVars, loopVars
<1> QED
  BY <1>2, <1>4, <1>5, <1>6, <1>7, <1>8, <1>9 DEF ListNext

\* An empty list is linked.
LEMMA ListStart == ListInit => ListInv
<1> SUFFICES ASSUME ListInit PROVE ListInv
  OBVIOUS
<1>1. ListTypes
  BY DEF ListInit, ListTypes, Once
<1> QED
  BY <1>1 DEF ListInv, ListInit, Linked, Pointer

(* The macros keep the links those of the list the caller means, for any   *)
(* elements, wherever they are put in and taken out.                       *)
THEOREM ListsLinked == ListSpec => []Linked
<1>1. ListInv => Linked
  BY DEF ListInv
<1> QED
  BY <1>1, ListStart, ListStep, PTL DEF ListSpec

---------------------------------------------------------------------------
\* LIST_FOREACH while its body changes the list.

\* The elements that the loop still has to visit or has visited.
Staying == ToSet(due) \ gone

\* What is in front of the loop; the element it is at may be out of the list.
ToCome(e) ==
  IF InList(var) THEN Precedes(list, var, e)
  ELSE next[var] # NULL /\ (e = next[var] \/ Precedes(list, next[var], e))

VisitedInOrder ==
  /\ due \in Seq(Elem) /\ visited \in Seq(Elem)
  /\ ToSet(visited) \subseteq ToSet(due)
  /\ \A j, k \in DOMAIN visited : j < k => Precedes(due, visited[j], visited[k])

(* What stays is in the list in its old order; what is in front of the     *)
(* loop comes after all it has visited, and the rest has been visited.     *)
OnTheWay ==
  /\ InList(var) \/ next[var] = NULL \/ InList(next[var])
  /\ \A e \in Staying : InList(e)
  /\ \A a, b \in Staying : Precedes(list, a, b) => Precedes(due, a, b)
  /\ \A e \in Staying :
       IF ToCome(e) THEN \A k \in DOMAIN visited : Precedes(due, visited[k], e)
       ELSE e \in ToSet(visited)

LoopInv ==
  /\ VisitedInOrder
  /\ IF var = NULL THEN Staying \subseteq ToSet(visited) ELSE OnTheWay

Has(s, a) == \E k \in DOMAIN s : s[k] = a

\* The order of the other elements is kept when one is put in ...
LEMMA InsertOrder ==
  ASSUME NEW s \in Seq(Elem), NEW e \in Elem, NEW q \in 1 .. Len(s) + 1,
         NEW t, t = InsertAt(s, q, e)
  PROVE  /\ \A a : a # e => (Has(t, a) <=> Has(s, a))
         /\ \A a, b : a # e /\ b # e => (Precedes(t, a, b) <=> Precedes(s, a, b))
<1>1. Len(s) \in Nat /\ q \in Nat /\ q >= 1 /\ q <= Len(s) + 1 /\ DOMAIN s = 1 .. Len(s)
  OBVIOUS
<1>2. /\ t \in Seq(Elem) /\ Len(t) = Len(s) + 1
      /\ \A k \in 1 .. Len(s) + 1 :
           t[k] = IF k < q THEN s[k] ELSE IF k = q THEN e ELSE s[k - 1]
  BY SMTT(30), InsertAtPlaces
<1>3. DOMAIN t = 1 .. Len(s) + 1
  BY <1>2
<1> DEFINE new(k) == IF k < q THEN k ELSE k + 1
           old(k) == IF k < q THEN k ELSE k - 1
<1>4. \A k \in 1 .. Len(s) : new(k) \in 1 .. Len(s) + 1 /\ t[new(k)] = s[k]
  BY <1>1, <1>2
<1>5. \A k \in 1 .. Len(s) + 1 : k # q => old(k) \in 1 .. Len(s) /\ t[k] = s[old(k)]
  BY <1>1, <1>2
<1>6. t[q] = e
  BY <1>1, <1>2
<1>7. /\ \A j, k \in 1 .. Len(s) : j < k => new(j) < new(k)
      /\ \A j, k \in 1 .. Len(s) + 1 : j < k /\ j # q /\ k # q => old(j) < old(k)
  BY <1>1
<1> HIDE DEF new, old
<1>8. ASSUME NEW a, a # e
      PROVE  Has(t, a) <=> Has(s, a)
  BY <1>1, <1>3, <1>4, <1>5, <1>6, <1>8 DEF Has
<1>9. ASSUME NEW a, NEW b, a # e, b # e
      PROVE  Precedes(t, a, b) <=> Precedes(s, a, b)
  <2>1. ASSUME Precedes(s, a, b) PROVE Precedes(t, a, b)
    <3>1. PICK j, k \in 1 .. Len(s) : j < k /\ s[j] = a /\ s[k] = b
      BY <1>1, <2>1 DEF Precedes
    <3>2. new(j) \in DOMAIN t /\ new(k) \in DOMAIN t /\ new(j) < new(k)
          /\ t[new(j)] = a /\ t[new(k)] = b
      BY <1>3, <1>4, <1>7, <3>1
    <3> QED
      BY <3>2 DEF Precedes
  <2>2. ASSUME Precedes(t, a, b) PROVE Precedes(s, a, b)
    <3>1. PICK j, k \in 1 .. Len(s) + 1 : j < k /\ t[j] = a /\ t[k] = b
      BY <1>3, <2>2 DEF Precedes
    <3>2. j # q /\ k # q
      BY <1>6, <1>9, <3>1
    <3>3. old(j) \in DOMAIN s /\ old(k) \in DOMAIN s /\ old(j) < old(k)
          /\ s[old(j)] = a /\ s[old(k)] = b
      BY <1>1, <1>5, <1>7, <3>1, <3>2
    <3> QED
      BY <3>3 DEF Precedes
  <2> QED
    BY <2>1, <2>2
<1> QED
  BY <1>8, <1>9

\* ... and when one is taken out.
LEMMA RemoveOrder ==
  ASSUME NEW s \in Seq(Elem), NEW q \in 1 .. Len(s), Once(s), NEW t, t = RemoveAt(s, q)
  PROVE  /\ \A a : Has(t, a) <=> (a # s[q] /\ Has(s, a))
         /\ \A a, b : a # s[q] /\ b # s[q] => (Precedes(t, a, b) <=> Precedes(s, a, b))
<1>1. Len(s) \in Nat /\ q \in Nat /\ q >= 1 /\ q <= Len(s) /\ DOMAIN s = 1 .. Len(s)
  OBVIOUS
<1>2. /\ t \in Seq(Elem) /\ Len(t) = Len(s) - 1
      /\ \A k \in 1 .. Len(s) - 1 : t[k] = IF k < q THEN s[k] ELSE s[k + 1]
  BY RemoveAtPlaces
<1>3. DOMAIN t = 1 .. Len(s) - 1
  BY <1>2
<1> DEFINE new(k) == IF k < q THEN k ELSE k - 1
           old(k) == IF k < q THEN k ELSE k + 1
<1>4. \A k \in 1 .. Len(s) : k # q => new(k) \in 1 .. Len(s) - 1 /\ t[new(k)] = s[k]
  BY <1>1, <1>2
<1>5. \A k \in 1 .. Len(s) - 1 : old(k) \in 1 .. Len(s) /\ old(k) # q /\ t[k] = s[old(k)]
  BY <1>1, <1>2
<1>6. /\ \A j, k \in 1 .. Len(s) : j < k /\ j # q /\ k # q => new(j) < new(k)
      /\ \A j, k \in 1 .. Len(s) - 1 : j < k => old(j) < old(k)
  BY <1>1
<1>7. \A k \in 1 .. Len(s) : s[k] = s[q] => k = q
  BY <1>1 DEF Once
<1> HIDE DEF new, old
<1>8. ASSUME NEW a
      PROVE  Has(t, a) <=> (a # s[q] /\ Has(s, a))
  BY <1>1, <1>3, <1>4, <1>5, <1>7 DEF Has
<1>9. ASSUME NEW a, NEW b, a # s[q], b # s[q]
      PROVE  Precedes(t, a, b) <=> Precedes(s, a, b)
  <2>1. ASSUME Precedes(s, a, b) PROVE Precedes(t, a, b)
    <3>1. PICK j, k \in 1 .. Len(s) : j < k /\ s[j] = a /\ s[k] = b
      BY <1>1, <2>1 DEF Precedes
    <3>2. j # q /\ k # q
      BY <1>9, <3>1
    <3>3. new(j) \in DOMAIN t /\ new(k) \in DOMAIN t /\ new(j) < new(k)
          /\ t[new(j)] = a /\ t[new(k)] = b
      BY <1>3, <1>4, <1>6, <3>1, <3>2
    <3> QED
      BY <3>3 DEF Precedes
  <2>2. ASSUME Precedes(t, a, b) PROVE Precedes(s, a, b)
    <3>1. PICK j, k \in 1 .. Len(s) - 1 : j < k /\ t[j] = a /\ t[k] = b
      BY <1>3, <2>2 DEF Precedes
    <3>2. old(j) \in DOMAIN s /\ old(k) \in DOMAIN s /\ old(j) < old(k)
          /\ s[old(j)] = a /\ s[old(k)] = b
      BY <1>1, <1>5, <1>6, <3>1
    <3> QED
      BY <3>2 DEF Precedes
  <2> QED
    BY <2>1, <2>2
<1> QED
  BY <1>8, <1>9

\* What is behind an element: the next one and all that is behind that.
LEMMA BehindNext ==
  ASSUME ListInv, NEW v \in Elem, InList(v), NEW x
  PROVE  /\ next[v] = NULL \/ (next[v] \in Elem /\ next[v] # v /\ InList(next[v]))
         /\ Precedes(list, v, x) <=>
              (next[v] # NULL /\ (x = next[v] \/ Precedes(list, next[v], x)))
<1>1. PICK q \in DOMAIN list : list[q] = v
  BY DEF InList
<1>2. list \in Seq(Elem) /\ Once(list)
  BY DEF ListInv, ListTypes
<1>3. Len(list) \in Nat /\ DOMAIN list = 1 .. Len(list) /\ q \in Nat /\ q >= 1 /\ q <= Len(list)
  BY <1>2
<1>4. \A k \in 1 .. Len(list) : list[k] \in Elem /\ (list[k] = v => k = q)
  BY <1>1, <1>2, <1>3 DEF Once
<1>5. Precedes(list, v, x) <=> \E k \in 1 .. Len(list) : q < k /\ list[k] = x
  BY <1>1, <1>3, <1>4 DEF Precedes
<1>6. CASE q = Len(list)
  <2>1. Pointer(list, Len(list) + 1) = v
    BY <1>1, <1>3, <1>6 DEF Pointer
  <2>2. next[v] = NULL
    BY <2>1 DEF ListInv, Linked
  <2>3. ~ \E k \in 1 .. Len(list) : q < k /\ list[k] = x
    BY <1>3, <1>6
  <2> QED
    BY <1>5, <2>2, <2>3
<1>7. CASE q < Len(list)
  <2>1. q + 1 \in 1 .. Len(list) /\ q + 1 # q
    BY <1>3, <1>7
  <2>2. Pointer(list, q + 1) = v
    BY <1>1, <1>3 DEF Pointer
  <2>3. next[v] = list[q + 1]
    BY <1>3, <2>1, <2>2 DEF ListInv, Linked
  <2>4. next[v] \in Elem /\ next[v] # v /\ InList(next[v]) /\ next[v] # NULL
    BY <1>3, <1>4, <2>1, <2>3 DEF InList
  <2>5. Precedes(list, next[v], x) <=> \E k \in 1 .. Len(list) : q + 1 < k /\ list[k] = x
    <3>1. \A j \in 1 .. Len(list) : list[j] = list[q + 1] => j = q + 1
      BY <1>2, <1>3, <2>1 DEF Once
    <3> QED
      BY <1>3, <2>1, <2>3, <3>1 DEF Precedes
  <2>6. \A k \in 1 .. Len(list) : q < k <=> (k = q + 1 \/ q + 1 < k)
    BY <1>3
  <2>7. (\E k \in 1 .. Len(list) : q < k /\ list[k] = x) <=>
          (x = list[q + 1] \/ \E k \in 1 .. Len(list) : q + 1 < k /\ list[k] = x)
    BY <2>1, <2>6
  <2> QED
    BY <1>5, <2>3, <2>4, <2>5, <2>7
<1> QED
  BY <1>3, <1>6, <1>7

(* An element put in leaves the loop where it is: it stays away from the   *)
(* links of the element that the loop is at, when that one is out.         *)
LEMMA InsertOnTheWay ==
  ASSUME ListInv, LoopInv, NEW e \in Elem, ~InList(e), e # var,
         NEW q \in 1 .. Len(list) + 1, list' = InsertAt(list, q, e),
         var' = var, due' = due, visited' = visited, gone' = gone,
         (var # NULL /\ ~InList(var)) => next'[var] = next[var]
  PROVE  LoopInv'
<1>1. VisitedInOrder' /\ Staying' = Staying
  BY DEF LoopInv, VisitedInOrder, Staying
<1>2. CASE var = NULL
  BY <1>1, <1>2 DEF LoopInv
<1>3. CASE var # NULL
  <2>1. list \in Seq(Elem)
    BY DEF ListInv, ListTypes
  <2>2. \A a : a # e => (InList(a)' <=> InList(a))
    <3>1. \A a : a # e => (Has(list', a) <=> Has(list, a))
      BY <2>1, InsertOrder
    <3> QED
      BY <3>1 DEF InList, Has
  <2>3. \A a, b : a # e /\ b # e => (Precedes(list, a, b)' <=> Precedes(list, a, b))
    <3>1. \A a, b : a # e /\ b # e => (Precedes(list', a, b) <=> Precedes(list, a, b))
      BY <2>1, InsertOrder
    <3> QED
      BY <3>1 DEF Precedes
  <2>4. OnTheWay
    BY <1>3 DEF LoopInv
  <2>5. \A a \in Staying : InList(a) /\ a # e
    BY <2>4 DEF OnTheWay
  <2>6. ASSUME ~InList(var) PROVE next'[var] = next[var] /\ next[var] # e
    <3>1. next[var] = NULL \/ InList(next[var])
      BY <2>4, <2>6 DEF OnTheWay
    <3> QED
      BY <1>3, <2>6, <3>1
  <2>7. (InList(var) \/ next[var] = NULL \/ InList(next[var]))'
    BY <2>2, <2>4, <2>6 DEF OnTheWay
  <2>8. ASSUME NEW a \in Staying PROVE ToCome(a)' <=> ToCome(a)
    <3>1. InList(var)' <=> InList(var)
      BY <2>2 DEF InList
    <3>2. CASE InList(var)
      BY <2>3, <2>5, <2>8, <3>1, <3>2 DEF ToCome
    <3>3. CASE ~InList(var)
      BY <2>3, <2>5, <2>6, <2>8, <3>1, <3>3 DEF ToCome
    <3> QED
      BY <3>2, <3>3
  <2>9. \A a, b : Precedes(due, a, b)' <=> Precedes(due, a, b)
    BY DEF Precedes
  <2>10. OnTheWay'
    BY <1>1, <2>2, <2>3, <2>4, <2>5, <2>7, <2>8, <2>9 DEF OnTheWay
  <2> QED
    BY <1>1, <1>3, <2>10 DEF LoopInv
<1> QED
  BY <1>2, <1>3

(* An element taken out, the one that the loop is at included: its own     *)
(* link is not touched and leads on.                                       *)
LEMMA RemoveOnTheWay ==
  ASSUME ListInv, LoopInv, NEW q \in 1 .. Len(list), var # NULL => InList(var),
         list' = RemoveAt(list, q),
         next' = [next EXCEPT ![le_prev[list[q]]] = next[list[q]]],
         var' = var, due' = due, visited' = visited,
         gone' = IF var = NULL THEN gone ELSE gone \cup {list[q]}
  PROVE  LoopInv'
<1>1. VisitedInOrder' /\ Staying' = IF var = NULL THEN Staying ELSE Staying \ {list[q]}
  BY DEF LoopInv, VisitedInOrder, Staying
<1>2. CASE var = NULL
  BY <1>1, <1>2 DEF LoopInv
<1>3. CASE var # NULL
  <2>1. list \in Seq(Elem) /\ Once(list) /\ var \in Elem /\ InList(var)
    BY <1>3 DEF ListInv, ListTypes
  <2>2. \A a : InList(a)' <=> (a # list[q] /\ InList(a))
    <3>1. \A a : Has(list', a) <=> (a # list[q] /\ Has(list, a))
      BY <2>1, RemoveOrder
    <3> QED
      BY <3>1 DEF InList, Has
  <2>3. \A a, b : a # list[q] /\ b # list[q] =>
                    (Precedes(list, a, b)' <=> Precedes(list, a, b))
    <3>1. \A a, b : a # list[q] /\ b # list[q] =>
                      (Precedes(list', a, b) <=> Precedes(list, a, b))
      BY <2>1, RemoveOrder
    <3> QED
      BY <3>1 DEF Precedes
  <2>4. OnTheWay
    BY <1>3 DEF LoopInv
  <2>5. \A a \in Staying' : a \in Staying /\ a # list[q] /\ InList(a)
    BY <1>1, <1>3, <2>4 DEF OnTheWay
  <2>6. \A a, b : Precedes(due, a, b)' <=> Precedes(due, a, b)
    BY DEF Precedes
  <2>7. /\ (InList(var) \/ next[var] = NULL \/ InList(next[var]))'
        /\ \A a \in Staying' : ToCome(a)' <=> ToCome(a)
    <3>1. CASE var # list[q]
      <4>1. InList(var)'
        BY <2>1, <2>2, <3>1 DEF InList
      <4> QED
        BY <2>1, <2>3, <2>5, <3>1, <4>1 DEF ToCome
    <3>2. CASE var = list[q]
      <4>1. next'[var] = next[var]
        <5>1. Len(list) \in Nat /\ DOMAIN list = 1 .. Len(list) /\ q \in Nat /\ q >= 1
          BY <2>1
        <5>2. le_prev[list[q]] = Pointer(list, q)
          BY <5>1 DEF ListInv, Linked
        <5>3. q # 1 => list[q - 1] # list[q]
          BY <2>1, <5>1 DEF Once
        <5>4. le_prev[list[q]] # var
          BY <2>1, <3>2, <5>2, <5>3 DEF Pointer
        <5> QED
          BY <2>1, <5>4 DEF ListInv, ListTypes
      <4>2. ~InList(var)'
        BY <2>2, <3>2 DEF InList
      <4>3. next[var] = NULL \/ (next[var] # var /\ InList(next[var]))
        BY <2>1, BehindNext
      <4>4. \A a : Precedes(list, var, a) <=>
                     (next[var] # NULL /\ (a = next[var] \/ Precedes(list, next[var], a)))
        BY <2>1, BehindNext
      <4>5. (next[var] = NULL \/ InList(next[var]))'
        BY <2>2, <3>2, <4>1, <4>3
      <4>6. ASSUME NEW a \in Staying' PROVE ToCome(a)' <=> ToCome(a)
        <5>1. ToCome(a) <=> Precedes(list, var, a)
          BY <2>1 DEF ToCome
        <5>2. ToCome(a)' <=> (next[var] # NULL /\ (a = next[var] \/ Precedes(list', next[var], a)))
          BY <4>1, <4>2 DEF ToCome, Precedes
        <5>3. next[var] # NULL => (Precedes(list', next[var], a) <=> Precedes(list, next[var], a))
          <6>1. \A b : b # list[q] => (Precedes(list', b, a) <=> Precedes(list, b, a))
            BY <2>1, <2>5, <4>6, RemoveOrder
          <6> QED
            BY <3>2, <4>3, <6>1
        <5> QED
          BY <4>4, <5>1, <5>2, <5>3
      <4> QED
        BY <4>5, <4>6
    <3> QED
      BY <3>1, <3>2
  <2>8. OnTheWay'
    BY <2>2, <2>3, <2>4, <2>5, <2>6, <2>7 DEF OnTheWay
  <2> QED
    BY <1>1, <1>3, <2>8 DEF LoopInv
<1> QED
  BY <1>2, <1>3

\* LIST_FOREACH starts at the first element, all the others in front of it.
LEMMA ForeachOnTheWay == ListInv /\ LoopInv /\ Foreach => LoopInv'
<1> SUFFICES ASSUME ListInv, Foreach PROVE LoopInv'
  OBVIOUS
<1>1. list \in Seq(Elem) /\ Len(list) \in Nat /\ DOMAIN list = 1 .. Len(list)
  BY DEF ListInv, ListTypes
<1>2. /\ var' = next[HEAD] /\ due' = list /\ gone' = {} /\ list' = list
      /\ visited' = IF var' = NULL THEN << >> ELSE <<var'>>
  BY DEF Foreach
<1>3. CASE list = << >>
  <2>1. var' = NULL
    BY <1>2, <1>3, PointerAt
  <2>2. due' = << >> /\ visited' = << >>
    BY <1>2, <1>3, <2>1
  <2> QED
    BY <2>1, <2>2 DEF LoopInv, VisitedInOrder, Staying, ToSet
<1>4. CASE list # << >>
  <2>1. 1 \in 1 .. Len(list)
    BY <1>1, <1>4
  <2>2. var' = list[1] /\ list[1] \in Elem
    BY <1>2, <2>1, PointerAt
  <2>3. visited' = <<list[1]>> /\ var' # NULL
    BY <1>2, <2>2
  <2>4. visited' \in Seq(Elem) /\ DOMAIN visited' = {1} /\ visited'[1] = list[1]
    BY <2>2, <2>3
  <2>5. ToSet(visited') = {list[1]} /\ list[1] \in ToSet(list)
    BY <1>1, <2>1, <2>4 DEF ToSet
  <2>6. VisitedInOrder'
    BY <1>1, <1>2, <2>4, <2>5 DEF VisitedInOrder
  <2>7. Staying' = ToSet(list)
    BY <1>2 DEF Staying
  <2>8. \A x : InList(x)' <=> x \in ToSet(list)
    BY <1>2 DEF InList, ToSet
  <2>9. \A x : ToCome(x)' <=> Precedes(list, list[1], x)
    BY <1>2, <2>2, <2>5, <2>8 DEF ToCome, Precedes
  <2>10. ASSUME NEW x \in ToSet(list), x # list[1] PROVE Precedes(list, list[1], x)
    <3>1. PICK k \in 1 .. Len(list) : list[k] = x
      BY <1>1, <2>10 DEF ToSet
    <3>2. 1 < k
      BY <1>1, <2>10, <3>1
    <3> QED
      BY <1>1, <2>1, <3>1, <3>2 DEF Precedes
  <2>11. \A a, b : Precedes(due, a, b)' <=> Precedes(list, a, b)
    BY <1>2 DEF Precedes
  <2>12. \A a, b : Precedes(list, a, b)' <=> Precedes(list, a, b)
    BY <1>2 DEF Precedes
  <2>13. OnTheWay'
    <3>1. InList(var)' /\ \A x \in Staying' : InList(x)'
      BY <2>2, <2>5, <2>7, <2>8 DEF InList
    <3>2. \A x \in Staying' : IF ToCome(x)' THEN \A k \in DOMAIN visited' : Precedes(list, visited'[k], x)
                              ELSE x \in ToSet(visited')
      BY <2>4, <2>5, <2>7, <2>9, <2>10
    <3>3. \A x \in Staying' : ToCome(x)' => \A k \in DOMAIN visited' : Precedes(due', visited'[k], x)
      BY <1>2, <3>2
    <3> QED
      BY <3>1, <3>2, <3>3, <2>11, <2>12 DEF OnTheWay, Precedes
  <2> QED
    BY <2>3, <2>6, <2>13 DEF LoopInv
<1> QED
  BY <1>3, <1>4

(* LIST_NEXT: the element it goes to comes behind all that was visited,    *)
(* and nothing that stays lies between.                                    *)
LEMMA NextOnTheWay == ListInv /\ LoopInv /\ LIST_NEXT => LoopInv'
<1> SUFFICES ASSUME ListInv, LoopInv, LIST_NEXT PROVE LoopInv'
  OBVIOUS
<1> DEFINE n == next[var]
<1>1. /\ var # NULL /\ var' = n /\ list' = list /\ due' = due /\ gone' = gone /\ next' = next
      /\ visited' = IF n \in Staying THEN Append(visited, n) ELSE visited
  BY DEF LIST_NEXT, linkVars, InDue, Staying
<1>2. list \in Seq(Elem) /\ var \in Elem /\ n \in Elem \cup {NULL}
  BY <1>1 DEF ListInv, ListTypes
<1>3. OnTheWay /\ VisitedInOrder
  BY <1>1 DEF LoopInv
<1>4. n = NULL \/ InList(n)
  BY <1>2, <1>3, BehindNext DEF OnTheWay
<1>5. \A x : ToCome(x) <=> (n # NULL /\ (x = n \/ Precedes(list, n, x)))
  <2>1. CASE InList(var)
    BY <1>2, <2>1, BehindNext DEF ToCome
  <2>2. CASE ~InList(var)
    BY <2>2 DEF ToCome
  <2> QED
    BY <2>1, <2>2
<1> HIDE DEF n
<1>6. Staying' = Staying /\ Staying \subseteq Elem
  BY <1>1, <1>3 DEF Staying, VisitedInOrder, ToSet
<1>7. /\ \A x \in Staying : InList(x)
      /\ \A a, b \in Staying : Precedes(list, a, b) => Precedes(due, a, b)
      /\ \A x \in Staying : IF ToCome(x) THEN \A k \in DOMAIN visited : Precedes(due, visited[k], x)
                            ELSE x \in ToSet(visited)
  BY <1>3 DEF OnTheWay
<1>8. CASE n = NULL
  <2>1. visited' = visited
    BY <1>1, <1>6, <1>8
  <2>2. Staying \subseteq ToSet(visited)
    BY <1>5, <1>7, <1>8
  <2> QED
    BY <1>1, <1>3, <1>6, <1>8, <2>1, <2>2 DEF LoopInv, VisitedInOrder
<1>9. CASE n # NULL
  <2>1. n \in Elem /\ InList(n) /\ InList(var)'
    BY <1>1, <1>2, <1>4, <1>9 DEF InList
  <2>2. \A x : ToCome(x)' <=> Precedes(list, n, x)
    BY <1>1, <2>1 DEF ToCome, Precedes
  <2>3. \A x : ToCome(x) <=> (x = n \/ Precedes(list, n, x))
    BY <1>5, <1>9
  <2>4. visited \in Seq(Elem) /\ due \in Seq(Elem) /\ ToSet(visited) \subseteq ToSet(due)
        /\ \A j, k \in DOMAIN visited : j < k => Precedes(due, visited[j], visited[k])
    BY <1>3 DEF VisitedInOrder
  <2>5. \A x \in Staying : InList(x)'
    BY <1>1, <1>7 DEF InList
  <2>6. \A a, b \in Staying : Precedes(list', a, b) => Precedes(due', a, b)
    BY <1>1, <1>7
  <2>7. SUFFICES /\ visited' \in Seq(Elem) /\ ToSet(visited') \subseteq ToSet(due)
                 /\ \A j, k \in DOMAIN visited' : j < k => Precedes(due, visited'[j], visited'[k])
                 /\ \A x \in Staying : IF Precedes(list, n, x)
                                       THEN \A k \in DOMAIN visited' : Precedes(due, visited'[k], x)
                                       ELSE x \in ToSet(visited')
    <3>1. VisitedInOrder'
      BY <1>1, <2>4, <2>7 DEF VisitedInOrder
    <3>2. \A x \in Staying' : IF ToCome(x)' THEN \A k \in DOMAIN visited' : Precedes(due', visited'[k], x)
                              ELSE x \in ToSet(visited')
      BY <1>1, <1>6, <2>2, <2>7
    <3>3. OnTheWay'
      BY <1>6, <2>1, <2>5, <2>6, <3>2 DEF OnTheWay, Precedes
    <3> QED
      BY <1>1, <1>9, <3>1, <3>3 DEF LoopInv
  <2>8. CASE n \notin Staying
    BY <1>1, <1>7, <2>3, <2>4, <2>8
  <2>9. CASE n \in Staying
    <3>1. Len(visited) \in Nat /\ DOMAIN visited = 1 .. Len(visited)
      BY <2>4
    <3>2. /\ visited' \in Seq(Elem) /\ DOMAIN visited' = 1 .. Len(visited) + 1
          /\ visited'[Len(visited) + 1] = n
          /\ \A k \in 1 .. Len(visited) : visited'[k] = visited[k]
      BY <1>1, <2>1, <2>4, <2>9
    <3>3. ToSet(visited') = ToSet(visited) \cup {n}
      <4>1. \A k \in 1 .. Len(visited) + 1 : k \in 1 .. Len(visited) \/ k = Len(visited) + 1
        BY <3>1
      <4>2. \A k \in 1 .. Len(visited) : k \in 1 .. Len(visited) + 1
        BY <3>1
      <4>3. Len(visited) + 1 \in 1 .. Len(visited) + 1
        BY <3>1
      <4> QED
        BY <3>1, <3>2, <4>1, <4>2, <4>3 DEF ToSet
    <3>4. n \in ToSet(due)
      BY <2>9 DEF Staying
    <3>5. \A k \in 1 .. Len(visited) : Precedes(due, visited[k], n)
      BY <1>7, <2>3, <2>9, <3>1
    <3>6. ASSUME NEW j \in DOMAIN visited', NEW k \in DOMAIN visited', j < k
          PROVE  Precedes(due, visited'[j], visited'[k])
      <4>1. j \in 1 .. Len(visited)
        BY <3>1, <3>2, <3>6
      <4>2. k \in 1 .. Len(visited) \/ k = Len(visited) + 1
        BY <3>1, <3>2
      <4> QED
        BY <2>4, <3>1, <3>2, <3>5, <3>6, <4>1, <4>2
    <3>7. ASSUME NEW x \in Staying, Precedes(list, n, x), NEW k \in DOMAIN visited'
          PROVE  Precedes(due, visited'[k], x)
      <4>1. k \in 1 .. Len(visited) \/ k = Len(visited) + 1
        BY <3>1, <3>2
      <4>2. Precedes(due, n, x)
        BY <1>7, <2>9, <3>7
      <4> QED
        BY <1>7, <2>3, <3>1, <3>2, <3>7, <4>1, <4>2
    <3>8. ASSUME NEW x \in Staying, ~Precedes(list, n, x)
          PROVE  x \in ToSet(visited')
      BY <1>7, <2>3, <3>3, <3>8
    <3> QED
      BY <2>4, <3>2, <3>3, <3>4, <3>6, <3>7, <3>8
  <2> QED
    BY <2>8, <2>9
<1> QED
  BY <1>8, <1>9

\* Every macro, and every turn of the loop, keeps the loop on its way.
LEMMA LoopStep == ListInv /\ LoopInv /\ [ListNext]_listVars => LoopInv'
<1> SUFFICES ASSUME ListInv, LoopInv, [ListNext]_listVars
             PROVE  LoopInv'
  OBVIOUS
<1>1. /\ list \in Seq(Elem) /\ Len(list) \in Nat /\ var \in Elem \cup {NULL}
      /\ next \in [Elem \cup {HEAD} -> Elem \cup {NULL}]
  BY DEF ListInv, ListTypes
<1>2. CASE Clear
  BY <1>2 DEF Clear, loopVars, LoopInv, VisitedInOrder, Staying
<1>3. CASE Foreach \/ LIST_NEXT
  BY <1>3, ForeachOnTheWay, NextOnTheWay
\* next, at an element out of the list, when the pointer p gets e behind it
<1>4. ASSUME NEW e \in Elem, NEW p, p = HEAD \/ InList(p), e # var, var # NULL, ~InList(var),
             NEW y, next' = [next EXCEPT ![e] = y, ![p] = e]
      PROVE  next'[var] = next[var]
  BY <1>1, <1>4 DEF InList
<1>5. ASSUME NEW e \in Elem, LIST_INSERT_HEAD(e)
      PROVE  LoopInv'
  <2>1. /\ ~InList(e) /\ e # var /\ list' = InsertAt(list, 1, e)
        /\ next' = [next EXCEPT ![e] = next[HEAD], ![HEAD] = e]
        /\ var' = var /\ due' = due /\ visited' = visited /\ gone' = gone
    BY <1>1, <1>5, InsertAtHead DEF LIST_INSERT_HEAD, MayInsert, InsertBehind, loopVars
  <2>2. 1 \in 1 .. Len(list) + 1
    BY <1>1
  <2>3. var # NULL /\ ~InList(var) => next'[var] = next[var]
    BY <1>4, <2>1
  <2> QED
    BY <2>1, <2>2, <2>3, InsertOnTheWay
<1>6. ASSUME NEW l \in Elem, NEW e \in Elem, LIST_INSERT_AFTER(l, e)
      PROVE  LoopInv'
  <2>1. /\ InList(l) /\ ~InList(e) /\ e # var /\ list' = InsertAt(list, Place(l) + 1, e)
        /\ next' = [next EXCEPT ![e] = next[l], ![l] = e]
        /\ var' = var /\ due' = due /\ visited' = visited /\ gone' = gone
    BY <1>6 DEF LIST_INSERT_AFTER, MayInsert, InsertBehind, loopVars
  <2>2. Place(l) + 1 \in 1 .. Len(list) + 1
    BY <1>1, <2>1, PlaceOf DEF ListInv
  <2>3. var # NULL /\ ~InList(var) => next'[var] = next[var]
    BY <1>4, <2>1
  <2> QED
    BY <2>1, <2>2, <2>3, InsertOnTheWay
<1>7. ASSUME NEW l \in Elem, NEW e \in Elem, LIST_INSERT_BEFORE(l, e)
      PROVE  LoopInv'
  <2>1. /\ InList(l) /\ ~InList(e) /\ e # var /\ list' = InsertAt(list, Place(l), e)
        /\ next' = [next EXCEPT ![e] = l, ![le_prev[l]] = e]
        /\ var' = var /\ due' = due /\ visited' = visited /\ gone' = gone
    BY <1>7 DEF LIST_INSERT_BEFORE, MayInsert, loopVars
  <2>2. Place(l) \in 1 .. Len(list) /\ list[Place(l)] = l
    BY <2>1, PlaceOf DEF ListInv
  <2>3. Place(l) \in 1 .. Len(list) + 1
    BY <1>1, <2>2
  <2>4. le_prev[l] = HEAD \/ InList(le_prev[l])
    <3>1. le_prev[l] = Pointer(list, Place(l))
      BY <2>2, PointerAt
    <3> QED
      BY <1>1, <2>2, <3>1 DEF Pointer, InList
  <2>5. var # NULL /\ ~InList(var) => next'[var] = next[var]
    BY <1>4, <2>1, <2>4
  <2> QED
    BY <2>1, <2>3, <2>5, InsertOnTheWay
<1>8. ASSUME NEW e \in Elem, LIST_REMOVE(e)
      PROVE  LoopInv'
  <2>1. /\ InList(e) /\ (var # NULL => InList(var)) /\ list' = RemoveAt(list, Place(e))
        /\ next' = [next EXCEPT ![le_prev[e]] = next[e]]
        /\ var' = var /\ due' = due /\ visited' = visited
        /\ gone' = IF var = NULL THEN gone ELSE gone \cup {e}
    BY <1>8 DEF LIST_REMOVE, MayRemove, loopVars
  <2>2. Place(e) \in 1 .. Len(list) /\ list[Place(e)] = e
    BY <2>1, PlaceOf DEF ListInv
  <2> QED
    BY <2>1, <2>2, RemoveOnTheWay
<1>9. CASE UNCHANGED listVars
  BY <1>9 DEF listVars, linkVars, loopVars, LoopInv, VisitedInOrder, Staying, OnTheWay, ToCome,
              InList, Precedes
<1> QED
  BY <1>2, <1>3, <1>5, <1>6, <1>7, <1>8, <1>9 DEF ListNext

(* LIST_FOREACH, its body inserting and removing what it may, visits       *)
(* everything that stays in the list, in the list's order and nothing      *)
(* twice, whatever the list and however often it is changed under way.     *)
THEOREM LoopVisitsAll == ListSpec => []VisitsAll
<1>1. ListInit => ListInv /\ LoopInv
  <2>1. ListInit => LoopInv
    BY DEF ListInit, LoopInv, VisitedInOrder, Staying, ToSet
  <2> QED
    BY <2>1, ListStart
<1>2. (ListInv /\ LoopInv) /\ [ListNext]_listVars => (ListInv /\ LoopInv)'
  BY ListStep, LoopStep
<1>3. ListInv /\ LoopInv => VisitsAll
  BY DEF LoopInv, VisitedInOrder, VisitsAll, Staying
<1> QED
  BY <1>1, <1>2, <1>3, PTL DEF ListSpec
=============================================================================
