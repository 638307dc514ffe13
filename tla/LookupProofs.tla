---------------------------- MODULE LookupProofs ----------------------------
(***************************************************************************)
(* The lookup of a function, for every section whose units are closed or   *)
(* end where the next begins, and every address: debuginfo_rip() offers    *)
(* list_func_die() the direct children of a unit's entry and nothing else, *)
(* stops at the first function that contains the address, and counts the   *)
(* parameters of that function.                                            *)
(***************************************************************************)
EXTENDS DebugLookup, FiniteSetTheorems, WellFoundedInduction, TLAPS

---------------------------------------------------------------------------
\* Every set of numbers that is not empty has a least one.
LEMMA LeastPlace ==
  ASSUME NEW S, S \subseteq Nat, S # {}
  PROVE  Min(S) \in S /\ \A k \in S : Min(S) <= k
<1> DEFINE R == {ss \in Nat \X Nat : ss[1] < ss[2]}
<1>1. IsWellFoundedOn(R, Nat)
  BY NatLessThanWellFounded DEF OpToRel
<1> HIDE DEF R
<1>2. PICK m \in S : \A k \in S : <<k, m>> \notin R
  BY <1>1, WFMin
<1>3. ASSUME NEW k \in S, k < m
      PROVE  FALSE
  <2>1. <<k, m>> \in Nat \X Nat /\ <<k, m>>[1] = k /\ <<k, m>>[2] = m
    OBVIOUS
  <2>2. <<k, m>> \in R
    BY <1>3, <2>1 DEF R
  <2> QED
    BY <1>2, <2>2
<1>4. \A k \in S : m <= k
  BY <1>3
<1> QED
  BY <1>4 DEF Min

---------------------------------------------------------------------------
\* The nesting of entries.

\* By how much the entry at q changes it.
Opens(es, q) == es[q].tag # "null" /\ es[q].kids
Closes(es, q) == es[q].tag = "null"
Delta(es, q) == IF Closes(es, q) THEN -1 ELSE IF Opens(es, q) THEN 1 ELSE 0

\* The nesting is a number.
LEMMA DepthType ==
  ASSUME NEW es, NEW f \in Nat, NEW p \in Nat
  PROVE  Depth(es, f, p) \in Int
<1> DEFINE A == {q \in f .. p - 1 : es[q].tag # "null" /\ es[q].kids}
           B == {q \in f .. p - 1 : es[q].tag = "null"}
<1>1. IsFiniteSet(f .. p - 1)
  BY FS_Interval
<1>2. IsFiniteSet(A) /\ IsFiniteSet(B)
  BY <1>1, FS_Subset
<1> HIDE DEF A, B
<1>3. Cardinality(A) \in Nat /\ Cardinality(B) \in Nat
  BY <1>2, FS_CardinalityType
<1>4. Cardinality(A) - Cardinality(B) \in Int
  BY <1>3
<1> QED
  BY <1>4 DEF Depth, A, B

\* An entry is passed.
LEMMA DepthStep ==
  ASSUME NEW es, NEW f \in Nat, NEW p \in Nat, f <= p
  PROVE  Depth(es, f, p + 1) = Depth(es, f, p) + Delta(es, p)
<1> DEFINE A(n) == {q \in f .. n - 1 : es[q].tag # "null" /\ es[q].kids}
           B(n) == {q \in f .. n - 1 : es[q].tag = "null"}
<1>1. f .. (p + 1) - 1 = (f .. p - 1) \cup {p} /\ p \notin f .. p - 1
  OBVIOUS
<1>2. /\ A(p + 1) = IF Opens(es, p) THEN A(p) \cup {p} ELSE A(p)
      /\ B(p + 1) = IF Closes(es, p) THEN B(p) \cup {p} ELSE B(p)
      /\ p \notin A(p) /\ p \notin B(p)
  BY <1>1 DEF Opens, Closes
<1>3. IsFiniteSet(A(p)) /\ IsFiniteSet(B(p))
  <2>1. IsFiniteSet(f .. p - 1)
    BY FS_Interval
  <2> QED
    BY <2>1, FS_Subset
<1>4. Depth(es, f, p) = Cardinality(A(p)) - Cardinality(B(p))
  BY DEF Depth
<1>5. Depth(es, f, p + 1) = Cardinality(A(p + 1)) - Cardinality(B(p + 1))
  BY DEF Depth
<1> HIDE DEF A, B
<1>6. Cardinality(A(p)) \in Nat /\ Cardinality(B(p)) \in Nat
  BY <1>3, FS_CardinalityType
<1>7. /\ Cardinality(A(p + 1)) = IF Opens(es, p) THEN Cardinality(A(p)) + 1 ELSE Cardinality(A(p))
      /\ Cardinality(B(p + 1)) = IF Closes(es, p) THEN Cardinality(B(p)) + 1 ELSE Cardinality(B(p))
  BY <1>2, <1>3, FS_AddElement
<1>8. ~(Opens(es, p) /\ Closes(es, p))
  BY DEF Opens, Closes
<1> QED
  BY <1>4, <1>5, <1>6, <1>7, <1>8 DEF Delta

\* The nesting is counted from the first entry on.
LEMMA DepthStart ==
  ASSUME NEW es, NEW f \in Nat
  PROVE  Depth(es, f, f) = 0
<1>1. f .. f - 1 = {}
  OBVIOUS
<1>2. /\ {q \in f .. f - 1 : es[q].tag # "null" /\ es[q].kids} = {}
      /\ {q \in f .. f - 1 : es[q].tag = "null"} = {}
  BY <1>1
<1>3. Cardinality({}) = 0
  BY FS_EmptySet
<1>4. Depth(es, f, f) = Cardinality({}) - Cardinality({})
  BY <1>2, Zenon DEF Depth
<1> QED
  BY <1>3, <1>4

\* It adds up.
LEMMA DepthSum ==
  ASSUME NEW es, NEW f \in Nat, NEW p \in Nat, NEW q \in Nat, f <= p, p <= q
  PROVE  Depth(es, f, q) = Depth(es, f, p) + Depth(es, p, q)
<1> DEFINE Bad == {n \in Nat : p <= n /\ Depth(es, f, n) # Depth(es, f, p) + Depth(es, p, n)}
<1> SUFFICES ASSUME Bad # {}
             PROVE  FALSE
  OBVIOUS
<1> DEFINE m == Min(Bad)
<1>1. m \in Bad /\ \A n \in Bad : m <= n
  <2> HIDE DEF Bad
  <2>1. Bad \subseteq Nat
    BY DEF Bad
  <2> QED
    BY <2>1, LeastPlace
<1>2. m \in Nat /\ p <= m /\ Depth(es, f, m) # Depth(es, f, p) + Depth(es, p, m)
  BY <1>1
<1>3. \A n \in Nat : p <= n /\ n < m => Depth(es, f, n) = Depth(es, f, p) + Depth(es, p, n)
  <2> HIDE DEF m
  <2> SUFFICES ASSUME NEW n \in Nat, p <= n, n < m
               PROVE  n \notin Bad
    OBVIOUS
  <2> HIDE DEF Bad
  <2> QED
    BY <1>1, <1>2
<1> HIDE DEF Bad, m
<1>4. m # p
  <2>1. Depth(es, p, p) = 0 /\ Depth(es, f, p) \in Int
    BY DepthStart, DepthType
  <2>2. Depth(es, f, p) = Depth(es, f, p) + Depth(es, p, p)
    BY <2>1
  <2> QED
    BY <1>2, <2>2, Zenon
<1> DEFINE n == m - 1
<1>5. n \in Nat /\ p <= n /\ n < m /\ n + 1 = m /\ f <= n
  BY <1>2, <1>4
<1> HIDE DEF n
<1>6. Depth(es, f, n) = Depth(es, f, p) + Depth(es, p, n)
  BY <1>3, <1>5
<1>7. /\ Depth(es, f, m) = Depth(es, f, n) + Delta(es, n)
      /\ Depth(es, p, m) = Depth(es, p, n) + Delta(es, n)
  <2>1. /\ Depth(es, f, n + 1) = Depth(es, f, n) + Delta(es, n)
        /\ Depth(es, p, n + 1) = Depth(es, p, n) + Delta(es, n)
    BY <1>5, DepthStep
  <2> QED
    BY <1>5, <2>1
<1>8. /\ Depth(es, f, p) \in Int /\ Depth(es, p, n) \in Int /\ Depth(es, f, n) \in Int
      /\ Delta(es, n) \in Int
  BY <1>5, DepthType DEF Delta
<1> QED
  BY <1>2, <1>6, <1>7, <1>8

---------------------------------------------------------------------------
\* The units of a section.

\* Units follow one another, within the section.
LEMMA UnitsFollow ==
  ASSUME NEW inf, InfoOK(inf), NEW u \in 1 .. Len(inf.units), NEW v \in 1 .. Len(inf.units), u < v
  PROVE  inf.units[u].next <= inf.units[v].first
<1> DEFINE n == Len(inf.units)
           F(w) == inf.units[w].first
           N(w) == inf.units[w].next
<1>1. inf.units \in Seq(UnitHeaders) /\ n \in Nat /\ DOMAIN inf.units = 1 .. n
  BY DEF InfoOK
<1>2. \A w \in 1 .. n : F(w) \in Nat /\ N(w) \in Nat /\ F(w) < N(w) /\ (w < n => N(w) = F(w + 1))
  <2> SUFFICES ASSUME NEW w \in 1 .. n
               PROVE  F(w) \in Nat /\ N(w) \in Nat /\ F(w) < N(w) /\ (w < n => N(w) = F(w + 1))
    OBVIOUS
  <2>1. inf.units[w] \in UnitHeaders
    BY <1>1
  <2>2. F(w) \in Nat /\ N(w) \in Nat
    BY <2>1 DEF UnitHeaders
  <2>3. F(w) < N(w) /\ N(w) = IF w = n THEN Len(inf.entries) + 1 ELSE F(w + 1)
    BY <1>1 DEF InfoOK
  <2>4. w < n => w # n
    BY <1>1
  <2> QED
    BY <2>2, <2>3, <2>4
<1> DEFINE Bad == {w \in 1 .. n : u < w /\ ~(N(u) <= F(w))}
<1> HIDE DEF n, F, N
<1> SUFFICES ASSUME Bad # {}
             PROVE  FALSE
  BY DEF n, F, N
<1> DEFINE m == Min(Bad)
<1>3. m \in Bad /\ \A w \in Bad : m <= w
  <2>1. Bad \subseteq Nat
    OBVIOUS
  <2> HIDE DEF Bad
  <2> QED
    BY <2>1, LeastPlace
<1>4. m \in 1 .. n /\ u < m /\ ~(N(u) <= F(m)) /\ u \in 1 .. n
  BY <1>3 DEF n
<1>5. \A w \in 1 .. n : u < w /\ w < m => N(u) <= F(w)
  <2> HIDE DEF m
  <2> SUFFICES ASSUME NEW w \in 1 .. n, u < w, w < m
               PROVE  w \notin Bad
    OBVIOUS
  <2> HIDE DEF Bad
  <2> QED
    BY <1>1, <1>3, <1>4
<1> HIDE DEF m, Bad
<1> DEFINE k == m - 1
<1>6. k \in 1 .. n /\ k < n /\ k + 1 = m /\ k < m /\ (k = u \/ u < k)
  BY <1>1, <1>4
<1> HIDE DEF k
<1>7. F(k) < N(k) /\ N(k) = F(m) /\ F(k) \in Nat /\ N(k) \in Nat /\ N(u) \in Nat
  BY <1>2, <1>4, <1>6
<1>8. CASE k = u
  BY <1>4, <1>7, <1>8
<1>9. CASE u < k
  <2>1. N(u) <= F(k)
    BY <1>5, <1>6, <1>9
  <2> QED
    BY <1>4, <1>7, <2>1
<1> QED
  BY <1>6, <1>8, <1>9

\* What is known of a unit.
LEMMA UnitIs ==
  ASSUME NEW inf, InfoOK(inf), NEW u \in 1 .. Len(inf.units)
  PROVE  /\ inf.units[u].first \in Nat \ {0} /\ inf.units[u].next \in Nat
         /\ inf.units[u].first < inf.units[u].next
         /\ inf.units[u].next <= Len(inf.entries) + 1
         /\ Depth(inf.entries, inf.units[u].first, inf.units[u].next) \in {0, 1}
         /\ \A p \in inf.units[u].first .. inf.units[u].next - 1 :
              inf.entries[p].tag # "null" /\ inf.entries[p].kids =>
                p + 1 < inf.units[u].next /\ inf.entries[p + 1].tag # "null"
<1> DEFINE n == Len(inf.units)
<1>1. /\ inf.units \in Seq(UnitHeaders) /\ n \in Nat /\ DOMAIN inf.units = 1 .. n
      /\ inf.entries \in Seq(DieEntries) /\ Len(inf.entries) \in Nat
  BY DEF InfoOK
<1>2. \A w \in 1 .. n : inf.units[w] \in UnitHeaders
  BY <1>1
<1>3. \A w \in 1 .. n : inf.units[w].first \in Nat \ {0} /\ inf.units[w].next \in Nat
  BY <1>2 DEF UnitHeaders
<1>4. \A w \in 1 .. n :
        /\ inf.units[w].first < inf.units[w].next
        /\ inf.units[w].next = IF w = n THEN Len(inf.entries) + 1 ELSE inf.units[w + 1].first
        /\ Depth(inf.entries, inf.units[w].first, inf.units[w].next) \in {0, 1}
        /\ \A p \in inf.units[w].first .. inf.units[w].next - 1 :
             inf.entries[p].tag # "null" /\ inf.entries[p].kids =>
               p + 1 < inf.units[w].next /\ inf.entries[p + 1].tag # "null"
  BY <1>1 DEF InfoOK
<1>5. inf.units[u].next <= Len(inf.entries) + 1
  <2>1. CASE u = n
    BY <1>1, <1>3, <1>4, <2>1
  <2>2. CASE u # n
    <3>1. n \in 1 .. n /\ u < n
      BY <1>1, <2>2
    <3>2. inf.units[u].next <= inf.units[n].first
      BY <3>1, UnitsFollow
    <3>3. inf.units[n].first < inf.units[n].next /\ inf.units[n].next = Len(inf.entries) + 1
      BY <1>4, <3>1
    <3> QED
      BY <1>1, <1>3, <3>1, <3>2, <3>3
  <2> QED
    BY <2>1, <2>2
<1> QED
  BY <1>3, <1>4, <1>5

\* A place is in one unit.
LEMMA UnitOfPlace ==
  ASSUME InfoOK(info), NEW u \in 1 .. Len(info.units),
         NEW p \in info.units[u].first .. info.units[u].next - 1
  PROVE  UnitOf(p) = u
<1>1. DOMAIN info.units = 1 .. Len(info.units) /\ Len(info.units) \in Nat
  BY DEF InfoOK
<1> DEFINE In(v) == info.units[v].first <= p /\ p < info.units[v].next
<1>2. In(u)
  BY UnitIs
<1>3. ASSUME NEW v \in 1 .. Len(info.units), In(v)
      PROVE  v = u
  <2>1. /\ info.units[u].first \in Nat /\ info.units[u].next \in Nat
        /\ info.units[v].first \in Nat /\ info.units[v].next \in Nat /\ p \in Int
    BY UnitIs
  <2>2. ~(u < v)
    <3>1. u < v => info.units[u].next <= info.units[v].first
      BY UnitsFollow
    <3> QED
      BY <1>2, <1>3, <2>1, <3>1
  <2>3. ~(v < u)
    <3>1. v < u => info.units[v].next <= info.units[u].first
      BY UnitsFollow
    <3> QED
      BY <1>2, <1>3, <2>1, <3>1
  <2> QED
    BY <1>1, <2>2, <2>3
<1>4. UnitOf(p) = CHOOSE v \in 1 .. Len(info.units) : In(v)
  BY <1>1 DEF UnitOf
<1> HIDE DEF In
<1> QED
  BY <1>2, <1>3, <1>4

---------------------------------------------------------------------------
\* The search at work.

Nesting(p) == Depth(info.entries, Unit.first, p)

\* An entry next below the unit's own.
TopLevel(p) ==
  p \in Unit.first .. Unit.next - 1 /\ Entry(p).tag # "null" /\ Nesting(p) = 1

Purposes == {"cudie", "child", "sibling", "firstarg", "firsttype", "nextarg", "nexttype"}

Structures == {"cudie", "die", "die2", "sib", "ret"}

\* Where a search stands, by what it is for.
SearchFor(s) ==
  /\ s = [off |-> s.off, level |-> s.level, sibling |-> s.sibling, into |-> s.into, then |-> s.then]
  /\ s.then \in Purposes
  /\ s.then = "cudie" => s.into = "cudie" /\ s.sibling = FALSE /\ s.off = Unit.first
  /\ s.then = "child" => s.into = "die" /\ s.sibling = FALSE /\ TopLevel(s.off)
  /\ s.then = "sibling" =>
       /\ s.into = "die2" /\ s.off \in Unit.first .. Unit.next /\ s.level \in Nat
       /\ s.sibling \in BOOLEAN
       /\ Nesting(s.off) = IF s.sibling THEN 1 + s.level ELSE 1

(* The nesting at the place of a search for a sibling is one more than its *)
(* level; what it ends with is at the top level, hence what comes next to  *)
(* list_func_die() is.                                                     *)
WalkInv ==
  /\ info \in Infos
  /\ pc \in Purposes \cup {"cu", "search", "list", "done"}
  /\ unit \in 0 .. Len(info.units) /\ (pc \notin {"cu", "done"} => unit # 0)
  /\ DOMAIN die = Structures
  /\ pc = "search" => SearchFor(search)
  /\ pc = "cudie" /\ found => die["cudie"].at = Unit.first /\ Entry(Unit.first).tag # "null"
  /\ pc \in {"child", "list"} => TopLevel(die["die"].at)
  /\ pc = "sibling" /\ found => TopLevel(die["die2"].at)

\* What the invariant says of the unit at work.
LEMMA UnitAtWork ==
  ASSUME WalkInv, unit # 0
  PROVE  /\ InfoOK(info) /\ unit \in 1 .. Len(info.units)
         /\ Unit.first \in Nat \ {0} /\ Unit.next \in Nat /\ Unit.first < Unit.next
         /\ Unit.next <= Len(info.entries) + 1
         /\ Nesting(Unit.next) \in {0, 1}
         /\ \A p \in Unit.first .. Unit.next - 1 :
              Entry(p).tag # "null" /\ Entry(p).kids =>
                p + 1 < Unit.next /\ Entry(p + 1).tag # "null"
<1>1. InfoOK(info) /\ unit \in 1 .. Len(info.units)
  <2>1. InfoOK(info)
    BY DebugLookupAssumption DEF WalkInv
  <2>2. Len(info.units) \in Nat
    BY <2>1 DEF InfoOK
  <2> QED
    BY <2>1, <2>2 DEF WalkInv
<1> QED
  BY <1>1, UnitIs DEF Unit, Entry, Nesting

\* The nesting behind an entry.
LEMMA NestingStep ==
  ASSUME WalkInv, unit # 0, NEW p \in Unit.first .. Unit.next - 1
  PROVE  /\ Nesting(p) \in Int /\ p \in Nat /\ p + 1 \in Unit.first .. Unit.next
         /\ Entry(p).tag = "null" => Nesting(p + 1) = Nesting(p) - 1
         /\ Entry(p).tag # "null" /\ Entry(p).kids => Nesting(p + 1) = Nesting(p) + 1
         /\ Entry(p).tag # "null" /\ ~Entry(p).kids => Nesting(p + 1) = Nesting(p)
<1>1. Unit.first \in Nat /\ Unit.next \in Nat
  BY UnitAtWork
<1>2. p \in Nat /\ Unit.first <= p /\ p + 1 \in Unit.first .. Unit.next
  BY <1>1
<1>3. Nesting(p) \in Int
  BY <1>1, <1>2, DepthType DEF Nesting
<1>4. Nesting(p + 1) = Nesting(p) + Delta(info.entries, p)
  BY <1>1, <1>2, DepthStep DEF Nesting
<1>5. Delta(info.entries, p) = IF Entry(p).tag = "null" THEN -1 ELSE IF Entry(p).kids THEN 1 ELSE 0
  BY DEF Delta, Opens, Closes, Entry
<1> QED
  BY <1>2, <1>3, <1>4, <1>5

(* DW_AT_sibling leads to the entry behind the children, in the unit: the  *)
(* first that is nested no deeper than their parent.                       *)
LEMMA SiblingPast ==
  ASSUME WalkInv, unit # 0, NEW p \in Unit.first .. Unit.next - 1,
         Entry(p).tag # "null", Entry(p).kids, Nesting(p) >= 1
  PROVE  /\ Sibling(p) \in p + 2 .. Unit.next /\ Nesting(Sibling(p)) = Nesting(p)
         /\ \A q \in p + 1 .. Sibling(p) - 1 : Nesting(q) > Nesting(p)
<1> DEFINE l == Nesting(p)
<1>1. /\ Unit.first \in Nat /\ Unit.next \in Nat
      /\ p \in Nat /\ Unit.first <= p /\ l \in Nat /\ l >= 1
      /\ Nesting(p + 1) = l + 1 /\ p + 1 <= Unit.next
  <2>1. /\ Nesting(p) \in Int /\ p \in Nat /\ p + 1 \in Unit.first .. Unit.next
        /\ Nesting(p + 1) = Nesting(p) + 1
    BY NestingStep
  <2>2. Unit.first \in Nat /\ Unit.next \in Nat
    BY UnitAtWork
  <2> QED
    BY <2>1, <2>2
<1>3. \A q \in p + 1 .. Unit.next : q \in Nat /\ Unit.first <= q /\ Nesting(q) \in Int
  <2> SUFFICES ASSUME NEW q \in p + 1 .. Unit.next
               PROVE  q \in Nat /\ Unit.first <= q /\ Nesting(q) \in Int
    OBVIOUS
  <2>1. q \in Nat /\ Unit.first <= q
    BY <1>1
  <2> QED
    BY <1>1, <2>1, DepthType DEF Nesting
<1> HIDE DEF l
<1> DEFINE Low == {q \in p + 1 .. Unit.next : Nesting(q) <= l}
           m == Min(Low)
<1>4. m \in Low /\ \A q \in Low : m <= q
  <2>1. Unit.next \in Low
    <3>1. Nesting(Unit.next) \in {0, 1}
      BY UnitAtWork
    <3> QED
      BY <1>1, <3>1
  <2>2. Low \subseteq Nat
    BY <1>3
  <2> HIDE DEF Low
  <2> QED
    BY <2>1, <2>2, LeastPlace
<1>5. m \in p + 1 .. Unit.next /\ Nesting(m) <= l /\ m # p + 1
  <2>1. m \in p + 1 .. Unit.next /\ Nesting(m) <= l
    BY <1>4
  <2> HIDE DEF m
  <2> QED
    BY <1>1, <2>1
<1>6. \A q \in p + 1 .. m - 1 : Nesting(q) > l
  <2> SUFFICES ASSUME NEW q \in p + 1 .. m - 1
               PROVE  Nesting(q) > l
    OBVIOUS
  <2> HIDE DEF m
  <2>1. q \in p + 1 .. Unit.next /\ q < m /\ q \in Nat /\ m \in Nat
    BY <1>1, <1>5
  <2>2. q \notin Low
    <3> HIDE DEF Low
    <3> QED
      BY <1>4, <2>1
  <2> QED
    BY <1>1, <1>3, <2>1, <2>2
<1> HIDE DEF m
<1> DEFINE k == m - 1
<1>7. k \in p + 1 .. m - 1 /\ k + 1 = m /\ k \in Unit.first .. Unit.next - 1
  BY <1>1, <1>5
<1> HIDE DEF k
<1>8. Nesting(k) \in Int /\ Nesting(k) > l
  BY <1>6, <1>7, NestingStep
<1>9. Nesting(m) = l
  <2>1. Nesting(k + 1) \in {Nesting(k) - 1, Nesting(k), Nesting(k) + 1}
    BY <1>7, NestingStep
  <2> QED
    BY <1>1, <1>3, <1>5, <1>7, <1>8, <2>1
<1> DEFINE T == {q \in p + 1 .. Unit.next : Depth(info.entries, p, q) = 0}
<1>10. \A q \in p + 1 .. Unit.next : Nesting(q) = l + Depth(info.entries, p, q)
                                   /\ Depth(info.entries, p, q) \in Int
  <2> SUFFICES ASSUME NEW q \in p + 1 .. Unit.next
               PROVE  Nesting(q) = l + Depth(info.entries, p, q) /\ Depth(info.entries, p, q) \in Int
    OBVIOUS
  <2>1. q \in Nat /\ p <= q
    BY <1>1
  <2>2. Depth(info.entries, Unit.first, q)
          = Depth(info.entries, Unit.first, p) + Depth(info.entries, p, q)
    BY <1>1, <2>1, DepthSum
  <2>3. Depth(info.entries, p, q) \in Int
    BY <1>1, <2>1, DepthType
  <2> QED
    BY <1>1, <2>2, <2>3 DEF Nesting, l
<1>11. m \in T /\ T \subseteq Nat
  <2>1. Depth(info.entries, p, m) = 0
    BY <1>1, <1>5, <1>9, <1>10
  <2> QED
    BY <1>3, <1>5, <2>1
<1>12. Min(T) \in T /\ Min(T) <= m
  <2> HIDE DEF T
  <2> QED
    BY <1>11, LeastPlace
<1>13. Sibling(p) = Min(T)
  BY DEF Sibling
<1>14. Sibling(p) \in p + 1 .. Unit.next /\ Depth(info.entries, p, Sibling(p)) = 0 /\ Sibling(p) <= m
  BY <1>12, <1>13
<1> HIDE DEF T
<1>15. Nesting(Sibling(p)) = l
  BY <1>1, <1>10, <1>14
<1> DEFINE s == Sibling(p)
<1> HIDE DEF s
<1>16. s = m
  <2>1. s \in p + 1 .. Unit.next /\ s <= m /\ Nesting(s) = l
    BY <1>14, <1>15 DEF s
  <2>2. ~(s \in p + 1 .. m - 1)
    BY <1>1, <1>6, <2>1
  <2> QED
    BY <1>1, <1>5, <2>1, <2>2
<1>17. s \in p + 2 .. Unit.next
  BY <1>1, <1>5, <1>16
<1> QED
  BY <1>6, <1>9, <1>16, <1>17 DEF s, l

\* At the top level that is the next entry there.
LEMMA SiblingBehind ==
  ASSUME WalkInv, unit # 0, NEW p, TopLevel(p), Entry(p).kids
  PROVE  Sibling(p) \in Unit.first .. Unit.next /\ Nesting(Sibling(p)) = 1
<1>1. /\ p \in Unit.first .. Unit.next - 1 /\ Entry(p).tag # "null" /\ Nesting(p) = 1
      /\ Unit.first \in Nat /\ Unit.next \in Nat
  BY UnitAtWork DEF TopLevel
<1>2. Nesting(p) >= 1
  BY <1>1
<1>3. Sibling(p) \in p + 2 .. Unit.next /\ Nesting(Sibling(p)) = Nesting(p)
  BY <1>1, <1>2, SiblingPast
<1> QED
  BY <1>1, <1>3

---------------------------------------------------------------------------
\* The steps keep the invariant.

\* In the same unit a search is where it should be as before.
LEMMA SearchKept ==
  ASSUME info' = info, unit' = unit, NEW s, SearchFor(s), search' = s
  PROVE  SearchFor(search)'
<1>1. Unit' = Unit
  BY DEF Unit
<1>2. \A p : Nesting(p)' = Nesting(p)
  BY <1>1 DEF Nesting
<1>4. TopLevel(s.off) <=> TopLevel(search.off)'
  BY <1>1, <1>2 DEF TopLevel, Entry, Nesting
<1>5. Nesting(s.off) = Nesting(search.off)'
  BY <1>1 DEF Nesting
<1> QED
  BY <1>1, <1>4, <1>5 DEF SearchFor

\* A search that goes on in its unit.
LEMMA GoesOn ==
  ASSUME NEW r, NEW o, NEW l,
         r = [off |-> r.off, level |-> r.level, sibling |-> r.sibling,
              into |-> r.into, then |-> r.then]
  PROVE  [r EXCEPT !.off = o, !.level = l]
           = [off |-> o, level |-> l, sibling |-> r.sibling, into |-> r.into, then |-> r.then]
<1> DEFINE a == r.off
           b == r.level
           c == r.sibling
           d == r.into
           e == r.then
           q == [off |-> a, level |-> b, sibling |-> c, into |-> d, then |-> e]
<1>1. [q EXCEPT !.off = o, !.level = l]
        = [off |-> o, level |-> l, sibling |-> c, into |-> d, then |-> e]
  <2> HIDE DEF a, b, c, d, e
  <2>1. [q EXCEPT !.off = o]
          = [off |-> o, level |-> b, sibling |-> c, into |-> d, then |-> e]
    OBVIOUS
  <2>2. [[off |-> o, level |-> b, sibling |-> c, into |-> d, then |-> e] EXCEPT !.level = l]
          = [off |-> o, level |-> l, sibling |-> c, into |-> d, then |-> e]
    OBVIOUS
  <2>3. [q EXCEPT !.off = o, !.level = l] = [[q EXCEPT !.off = o] EXCEPT !.level = l]
    <3> HIDE DEF q
    <3> QED
      OBVIOUS
  <2> HIDE DEF q
  <2> QED
    BY <2>1, <2>2, <2>3, Zenon
<1>2. r = q
  OBVIOUS
<1> HIDE DEF q
<1>3. [r EXCEPT !.off = o, !.level = l] = [q EXCEPT !.off = o, !.level = l]
  BY <1>2, Zenon
<1> QED
  BY <1>1, <1>3

\* A search ends without an entry.
LEMMA NotFound ==
  ASSUME WalkInv, pc = "search", Return(FALSE), search.then # "child",
         info' = info, unit' = unit, die' = die
  PROVE  WalkInv'
<1>1. pc' = search.then /\ found' = FALSE /\ search.then \in Purposes
  BY DEF Return, WalkInv, SearchFor
<1>2. pc' \notin {"search", "list", "child", "cu", "done"} /\ pc' \in Purposes
  BY <1>1 DEF Purposes
<1>3. unit # 0
  BY DEF WalkInv
<1> QED
  BY <1>1, <1>2, <1>3 DEF WalkInv

\* The unit ends: not while its first child is looked for.
LEMMA EndOfUnitKeeps ==
  ASSUME WalkInv, EndOfUnit
  PROVE  WalkInv'
<1>1. pc = "search" /\ search.off >= Unit.next /\ Return(FALSE) /\ unit # 0 /\ SearchFor(search)
  BY DEF EndOfUnit, WalkInv
<1>2. search.then # "child"
  <2>1. Unit.first \in Nat /\ Unit.next \in Nat
    BY <1>1, UnitAtWork
  <2>2. ~TopLevel(search.off)
    BY <1>1, <2>1 DEF TopLevel
  <2> QED
    BY <1>1, <2>2 DEF SearchFor
<1> QED
  BY <1>1, <1>2, NotFound DEF EndOfUnit

\* A null entry ends a search, or leads out of the children of the last one.
LEMMA NullEntryKeeps ==
  ASSUME WalkInv, NullEntry
  PROVE  WalkInv'
<1>1. /\ pc = "search" /\ search.off < Unit.next /\ Entry(search.off).tag = "null"
      /\ unit # 0 /\ SearchFor(search) /\ info' = info /\ unit' = unit /\ die' = die
  BY DEF NullEntry, WalkInv
<1>2. search.then # "child"
  BY <1>1 DEF SearchFor, TopLevel
<1>3. CASE search.level = 0 \/ ~search.sibling
  BY <1>1, <1>2, <1>3, NotFound DEF NullEntry
<1>4. CASE ~(search.level = 0 \/ ~search.sibling)
  <2> DEFINE s == [search EXCEPT !.off = @ + 1, !.level = @ - 1]
  <2>1. search' = s /\ pc' = "search"
    BY <1>4 DEF NullEntry
  <2>2. search.then \notin {"child", "cudie"} /\ search.then \in Purposes
    BY <1>1, <1>2, <1>4 DEF SearchFor
  <2>3. search = [off |-> search.off, level |-> search.level, sibling |-> search.sibling,
                  into |-> search.into, then |-> search.then]
    BY <1>1 DEF SearchFor
  <2>4. s = [off |-> search.off + 1, level |-> search.level - 1, sibling |-> search.sibling,
             into |-> search.into, then |-> search.then]
    BY <2>3, GoesOn
  <2>5. /\ s.off = search.off + 1 /\ s.level = search.level - 1 /\ s.sibling = search.sibling
        /\ s.into = search.into /\ s.then = search.then
    BY <2>4
  <2>6. s = [off |-> s.off, level |-> s.level, sibling |-> s.sibling, into |-> s.into, then |-> s.then]
    BY <2>4
  <2> HIDE DEF s
  <2>7. s.then = "sibling" =>
          /\ s.into = "die2" /\ s.off \in Unit.first .. Unit.next /\ s.level \in Nat
          /\ s.sibling \in BOOLEAN
          /\ Nesting(s.off) = IF s.sibling THEN 1 + s.level ELSE 1
    <3> SUFFICES ASSUME s.then = "sibling"
                 PROVE  /\ s.into = "die2" /\ s.off \in Unit.first .. Unit.next /\ s.level \in Nat
                        /\ s.sibling \in BOOLEAN
                        /\ Nesting(s.off) = IF s.sibling THEN 1 + s.level ELSE 1
      OBVIOUS
    <3>1. /\ search.into = "die2" /\ search.off \in Unit.first .. Unit.next /\ search.level \in Nat
          /\ search.sibling = TRUE /\ search.level # 0
          /\ Nesting(search.off) = 1 + search.level
      BY <1>1, <1>4, <2>5 DEF SearchFor
    <3>2. Unit.first \in Nat /\ Unit.next \in Nat
      BY <1>1, UnitAtWork
    <3>3. search.off \in Unit.first .. Unit.next - 1
      BY <1>1, <3>1, <3>2
    <3>4. /\ search.off + 1 \in Unit.first .. Unit.next
          /\ Nesting(search.off + 1) = Nesting(search.off) - 1
      BY <1>1, <3>3, NestingStep
    <3>5. search.level - 1 \in Nat /\ Nesting(search.off + 1) = 1 + (search.level - 1)
      BY <3>1, <3>4
    <3> QED
      BY <2>5, <3>1, <3>4, <3>5
  <2>8. SearchFor(s)
    BY <2>2, <2>5, <2>6, <2>7 DEF SearchFor
  <2>9. SearchFor(search)'
    BY <1>1, <2>1, <2>8, SearchKept
  <2> QED
    BY <1>1, <2>1, <2>9 DEF WalkInv
<1> QED
  BY <1>3, <1>4

\* An entry is read into one structure.
LEMMA Parsed ==
  ASSUME DOMAIN die = Structures, NEW d, NEW p, ParseDie(d, p)
  PROVE  /\ DOMAIN die' = Structures
         /\ d \in Structures => die'[d].at = p
<1> DEFINE e == [at |-> p, name |-> IF Entry(p).name = NoName THEN die[d].name ELSE Entry(p).name]
<1>1. die' = [die EXCEPT ![d] = e]
  BY DEF ParseDie
<1>2. e.at = p
  OBVIOUS
<1> HIDE DEF e
<1> QED
  BY <1>1, <1>2

\* An entry ends a search, at the top level, or is passed.
LEMMA DieEntryKeeps ==
  ASSUME WalkInv, DieEntry
  PROVE  WalkInv'
<1>1. /\ pc = "search" /\ search.off < Unit.next /\ Entry(search.off).tag # "null"
      /\ unit # 0 /\ SearchFor(search) /\ info' = info /\ unit' = unit
      /\ ParseDie(search.into, search.off) /\ DOMAIN die = Structures
  BY DEF DieEntry, WalkInv
<1>2. DOMAIN die' = Structures /\ (search.into \in Structures => die'[search.into].at = search.off)
  BY <1>1, Parsed
<1>3. Unit.first \in Nat /\ Unit.next \in Nat
  BY <1>1, UnitAtWork
<1>4. CASE ~(search.sibling /\ search.level > 0)
  <2>1. pc' = search.then /\ found' = TRUE /\ search.then \in Purposes
    BY <1>1, <1>4 DEF DieEntry, Return, SearchFor
  <2>2. search.then = "cudie" => die'["cudie"].at = Unit.first /\ Entry(Unit.first).tag # "null"
    BY <1>1, <1>2 DEF SearchFor, Structures
  <2>3. search.then = "child" => TopLevel(die'["die"].at)
    BY <1>1, <1>2 DEF SearchFor, Structures
  <2>4. search.then = "sibling" => TopLevel(die'["die2"].at)
    <3> SUFFICES ASSUME search.then = "sibling"
                 PROVE  TopLevel(die'["die2"].at)
      OBVIOUS
    <3>1. /\ search.into = "die2" /\ search.off \in Unit.first .. Unit.next /\ search.level \in Nat
          /\ search.sibling \in BOOLEAN
          /\ Nesting(search.off) = IF search.sibling THEN 1 + search.level ELSE 1
      BY <1>1 DEF SearchFor
    <3>2. search.sibling => search.level = 0
      BY <1>4, <3>1
    <3>3. Nesting(search.off) = 1
      BY <3>1, <3>2
    <3>4. search.off \in Unit.first .. Unit.next - 1
      BY <1>1, <1>3, <3>1
    <3>5. die'["die2"].at = search.off
      BY <1>2, <3>1 DEF Structures
    <3> QED
      BY <1>1, <3>3, <3>4, <3>5 DEF TopLevel
  <2>5. Unit' = Unit /\ Entry(Unit.first)' = Entry(Unit.first)
    BY <1>1 DEF Unit, Entry
  <2>6. /\ search.then = "child" => TopLevel(die["die"].at)'
        /\ search.then = "sibling" => TopLevel(die["die2"].at)'
    BY <1>1, <2>3, <2>4, <2>5 DEF TopLevel, Nesting, Entry
  <2>7. search.then = "cudie" => (die["cudie"].at)' = Unit'.first /\ Entry(Unit.first)'.tag # "null"
    BY <2>2, <2>5
  <2>8. pc' \in Purposes /\ pc' \notin {"search", "list", "cu", "done"}
    BY <2>1 DEF Purposes
  <2> QED
    BY <1>1, <1>2, <2>1, <2>6, <2>7, <2>8 DEF WalkInv
<1>5. CASE search.sibling /\ search.level > 0
  <2> DEFINE n == IF Entry(search.off).kids THEN search.level + 1 ELSE search.level
             s == [search EXCEPT !.off = @ + 1, !.level = n]
  <2>1. search' = s /\ pc' = "search"
    BY <1>5 DEF DieEntry
  <2>2. search.then \notin {"child", "cudie"} /\ search.then \in Purposes
    BY <1>1, <1>5 DEF SearchFor
  <2>3. search = [off |-> search.off, level |-> search.level, sibling |-> search.sibling,
                  into |-> search.into, then |-> search.then]
    BY <1>1 DEF SearchFor
  <2>4. s = [off |-> search.off + 1, level |-> n, sibling |-> search.sibling,
             into |-> search.into, then |-> search.then]
    <3> HIDE DEF n
    <3> QED
      BY <2>3, GoesOn
  <2> HIDE DEF n
  <2>5. /\ s.off = search.off + 1 /\ s.level = n /\ s.sibling = search.sibling
        /\ s.into = search.into /\ s.then = search.then
    BY <2>4
  <2>6. s = [off |-> s.off, level |-> s.level, sibling |-> s.sibling, into |-> s.into, then |-> s.then]
    BY <2>4
  <2> HIDE DEF s
  <2>7. s.then = "sibling" =>
          /\ s.into = "die2" /\ s.off \in Unit.first .. Unit.next /\ s.level \in Nat
          /\ s.sibling \in BOOLEAN
          /\ Nesting(s.off) = IF s.sibling THEN 1 + s.level ELSE 1
    <3> SUFFICES ASSUME s.then = "sibling"
                 PROVE  /\ s.into = "die2" /\ s.off \in Unit.first .. Unit.next /\ s.level \in Nat
                        /\ s.sibling \in BOOLEAN
                        /\ Nesting(s.off) = IF s.sibling THEN 1 + s.level ELSE 1
      OBVIOUS
    <3>1. /\ search.into = "die2" /\ search.off \in Unit.first .. Unit.next /\ search.level \in Nat
          /\ search.sibling = TRUE
          /\ Nesting(search.off) = 1 + search.level
      BY <1>1, <1>5, <2>5 DEF SearchFor
    <3>2. search.off \in Unit.first .. Unit.next - 1
      BY <1>1, <1>3, <3>1
    <3>3. /\ search.off + 1 \in Unit.first .. Unit.next
          /\ Entry(search.off).kids => Nesting(search.off + 1) = Nesting(search.off) + 1
          /\ ~Entry(search.off).kids => Nesting(search.off + 1) = Nesting(search.off)
      BY <1>1, <3>2, NestingStep
    <3>4. n \in Nat /\ Nesting(search.off + 1) = 1 + n
      BY <3>1, <3>3 DEF n
    <3> QED
      BY <2>5, <3>1, <3>3, <3>4
  <2>8. SearchFor(s)
    BY <2>2, <2>5, <2>6, <2>7 DEF SearchFor
  <2>9. SearchFor(search)'
    BY <1>1, <2>1, <2>8, SearchKept
  <2> QED
    BY <1>1, <1>2, <2>1, <2>9 DEF WalkInv
<1> QED
  BY <1>4, <1>5

\* A search that is begun.
Begun(o, b, i, t) == [off |-> o, level |-> 1, sibling |-> b, into |-> i, then |-> t]

\* One for an argument or its type may be anywhere.
LEMMA OtherSearch ==
  ASSUME NEW o, NEW b, NEW i, NEW t \in {"firstarg", "firsttype", "nextarg", "nexttype"}
  PROVE  SearchFor(Begun(o, b, i, t))
BY DEF SearchFor, Begun, Purposes

\* dwarf_siblingof() begins a search.
LEMMA SiblingSearch ==
  ASSUME NEW d, NEW i, NEW t, SiblingOf(d, i, t)
  PROVE  pc' = "search" /\ \E o, b : search' = Begun(o, b, i, t)
BY DEF SiblingOf, Search, Begun

\* The next unit begins with a search for its entry.
LEMMA GetNextCuKeeps ==
  ASSUME WalkInv, GetNextCu
  PROVE  WalkInv'
<1>1. info' = info /\ die' = die /\ Len(info.units) \in Nat
  <2>1. InfoOK(info)
    BY DebugLookupAssumption DEF WalkInv
  <2> QED
    BY <2>1 DEF GetNextCu, InfoOK
<1>2. CASE unit < Len(info.units) /\ info.units[unit + 1].version \in 2 .. 4
  <2> DEFINE s == Begun(info.units[unit + 1].first, FALSE, "cudie", "cudie")
  <2>1. unit' = unit + 1 /\ pc' = "search" /\ search' = s
    BY <1>2 DEF GetNextCu, Search, Begun
  <2>2. unit' \in 0 .. Len(info.units) /\ unit' # 0
    BY <1>1, <1>2, <2>1 DEF WalkInv
  <2>3. Unit'.first = info.units[unit + 1].first
    BY <1>1, <2>1 DEF Unit
  <2>4. /\ s.off = info.units[unit + 1].first /\ s.sibling = FALSE /\ s.into = "cudie"
        /\ s.then = "cudie"
        /\ s = [off |-> s.off, level |-> s.level, sibling |-> s.sibling,
                into |-> s.into, then |-> s.then]
    BY DEF Begun
  <2> HIDE DEF s
  <2>5. SearchFor(search)'
    BY <2>1, <2>3, <2>4 DEF SearchFor, Purposes
  <2> QED
    BY <1>1, <2>1, <2>2, <2>5 DEF WalkInv
<1>3. CASE ~(unit < Len(info.units) /\ info.units[unit + 1].version \in 2 .. 4)
  <2>1. pc' = "done" /\ unit' = unit
    BY <1>3 DEF GetNextCu, Finish
  <2> QED
    BY <1>1, <2>1 DEF WalkInv
<1> QED
  BY <1>2, <1>3

\* The first child of a unit's entry is next below it.
LEMMA CuDieKeeps ==
  ASSUME WalkInv, CuDie
  PROVE  WalkInv'
<1>1. pc = "cudie" /\ unit # 0 /\ info' = info /\ unit' = unit /\ die' = die
  BY DEF CuDie, WalkInv
<1>2. CASE found /\ At("cudie").kids
  <2> DEFINE f == Unit.first
             s == Begun(f + 1, FALSE, "die", "child")
  <2>1. die["cudie"].at = f /\ Entry(f).tag # "null" /\ Entry(f).kids
    BY <1>1, <1>2 DEF WalkInv, At
  <2>2. pc' = "search" /\ search' = s
    BY <1>2, <2>1 DEF CuDie, Search, Begun
  <2>3. f \in Nat /\ Unit.next \in Nat /\ f \in Unit.first .. Unit.next - 1
    BY <1>1, UnitAtWork
  <2>4. f + 1 < Unit.next /\ Entry(f + 1).tag # "null"
    BY <1>1, <2>1, <2>3, UnitAtWork
  <2>5. Nesting(f + 1) = 1
    <3>1. Nesting(f) = 0
      BY <2>3, DepthStart DEF Nesting
    <3> QED
      BY <1>1, <2>1, <2>3, <3>1, NestingStep
  <2>6. TopLevel(f + 1)
    BY <2>3, <2>4, <2>5 DEF TopLevel
  <2>7. /\ s.off = f + 1 /\ s.sibling = FALSE /\ s.into = "die" /\ s.then = "child"
        /\ s = [off |-> s.off, level |-> s.level, sibling |-> s.sibling,
                into |-> s.into, then |-> s.then]
    BY DEF Begun
  <2> HIDE DEF s
  <2>8. SearchFor(s)
    BY <2>6, <2>7 DEF SearchFor, Purposes
  <2>9. SearchFor(search)'
    BY <1>1, <2>2, <2>8, SearchKept
  <2> QED
    BY <1>1, <2>2, <2>9 DEF WalkInv
<1>3. CASE ~(found /\ At("cudie").kids)
  <2>1. pc' = "cu"
    BY <1>3 DEF CuDie
  <2> QED
    BY <1>1, <2>1 DEF WalkInv
<1> QED
  BY <1>2, <1>3

\* What was found is handed on.
LEMMA HandOnKeeps ==
  ASSUME WalkInv, Child \/ NextSibling
  PROVE  WalkInv'
<1>1. info' = info /\ unit' = unit /\ pc \in {"child", "sibling"} /\ unit # 0
  BY DEF Child, NextSibling, WalkInv
<1>2. CASE Child
  <2>1. pc' = "list" /\ die' = die /\ TopLevel(die["die"].at)
    BY <1>2 DEF Child, WalkInv
  <2>2. TopLevel(die["die"].at)'
    BY <1>1, <2>1 DEF TopLevel, Nesting, Entry, Unit
  <2> QED
    BY <1>1, <2>1, <2>2 DEF WalkInv
<1>3. CASE NextSibling
  <2>1. CASE found
    <3>1. pc' = "list" /\ die' = [die EXCEPT !["die"] = die["die2"]] /\ TopLevel(die["die2"].at)
      BY <1>3, <2>1 DEF NextSibling, WalkInv
    <3>2. DOMAIN die' = Structures /\ die'["die"] = die["die2"]
      BY <3>1 DEF WalkInv, Structures
    <3>3. TopLevel(die["die"].at)'
      BY <1>1, <3>1, <3>2 DEF TopLevel, Nesting, Entry, Unit
    <3> QED
      BY <1>1, <3>1, <3>2, <3>3 DEF WalkInv
  <2>2. CASE ~found
    <3>1. pc' = "cu" /\ die' = die
      BY <1>3, <2>2 DEF NextSibling
    <3> QED
      BY <1>1, <3>1 DEF WalkInv
  <2> QED
    BY <2>1, <2>2
<1> QED
  BY <1>2, <1>3

\* The search for the next entry at the top level begins at it, or a level below.
LEMMA NotHereKeeps ==
  ASSUME WalkInv, NotHere
  PROVE  WalkInv'
<1> DEFINE p == die["die"].at
<1>1. /\ pc = "list" /\ unit # 0 /\ info' = info /\ unit' = unit /\ die' = die
      /\ SiblingOf("die", "die2", "sibling") /\ TopLevel(p)
  BY DEF NotHere, WalkInv
<1>2. /\ p \in Unit.first .. Unit.next - 1 /\ Nesting(p) = 1 /\ Entry(p).tag # "null"
      /\ p + 1 \in Unit.first .. Unit.next
  <2>1. p \in Unit.first .. Unit.next - 1 /\ Nesting(p) = 1 /\ Entry(p).tag # "null"
    BY <1>1 DEF TopLevel
  <2> QED
    BY <1>1, <2>1, NestingStep
<1>3. PICK o \in Unit.first .. Unit.next, b \in BOOLEAN :
        /\ search' = Begun(o, b, "die2", "sibling") /\ pc' = "search"
        /\ Nesting(o) = IF b THEN 2 ELSE 1
  <2>1. CASE Entry(p).kids /\ At("die").sib
    <3>1. search' = Begun(Sibling(p), FALSE, "die2", "sibling") /\ pc' = "search"
      BY <1>1, <2>1 DEF SiblingOf, Search, Begun, At
    <3>2. Sibling(p) \in Unit.first .. Unit.next /\ Nesting(Sibling(p)) = 1
      BY <1>1, <2>1, SiblingBehind
    <3> QED
      BY <3>1, <3>2
  <2>2. CASE Entry(p).kids /\ ~At("die").sib
    <3>1. search' = Begun(p + 1, TRUE, "die2", "sibling") /\ pc' = "search"
      BY <1>1, <2>2 DEF SiblingOf, Search, Begun, At
    <3>2. Nesting(p + 1) = 2
      BY <1>1, <1>2, <2>2, NestingStep
    <3> QED
      BY <1>2, <3>1, <3>2
  <2>3. CASE ~Entry(p).kids
    <3>1. search' = Begun(p + 1, FALSE, "die2", "sibling") /\ pc' = "search"
      BY <1>1, <2>3 DEF SiblingOf, Search, Begun, At
    <3>2. Nesting(p + 1) = 1
      BY <1>1, <1>2, <2>3, NestingStep
    <3> QED
      BY <1>2, <3>1, <3>2
  <2> QED
    BY <2>1, <2>2, <2>3
<1> DEFINE s == Begun(o, b, "die2", "sibling")
<1>4. /\ s.off = o /\ s.level = 1 /\ s.sibling = b /\ s.into = "die2" /\ s.then = "sibling"
      /\ s = [off |-> s.off, level |-> s.level, sibling |-> s.sibling,
              into |-> s.into, then |-> s.then]
  BY DEF Begun
<1> HIDE DEF s, p
<1>5. SearchFor(s)
  <2>1. Nesting(s.off) = IF s.sibling THEN 1 + s.level ELSE 1
    BY <1>3, <1>4
  <2>2. s.level \in Nat /\ s.sibling \in BOOLEAN /\ s.off \in Unit.first .. Unit.next
    BY <1>3, <1>4
  <2> QED
    BY <1>4, <2>1, <2>2 DEF SearchFor, Purposes
<1>6. SearchFor(search)'
  <2>1. search' = s
    BY <1>3 DEF s
  <2> QED
    BY <1>1, <1>5, <2>1, SearchKept
<1> QED
  BY <1>1, <1>3, <1>6 DEF WalkInv

\* Once the function is found no other search is for a sibling of it.
LEMMA ArgumentsKeep ==
  ASSUME WalkInv, Here \/ FirstArg \/ NextArg \/ FirstType \/ NextType
  PROVE  WalkInv'
<1> DEFINE Others == {"firstarg", "firsttype", "nextarg", "nexttype"}
           Begins == pc' = "search" /\ \E o, b, i : \E t \in Others : search' = Begun(o, b, i, t)
<1>1. info' = info /\ unit' = unit /\ unit # 0 /\ DOMAIN die = Structures
  BY DEF Here, FirstArg, NextArg, FirstType, NextType, Argument, WalkInv
<1>2. ASSUME NEW size, Record(size)
      PROVE  Begins /\ DOMAIN die' = Structures
  <2>1. SiblingOf("ret", "ret", "nextarg") /\ die' = [die EXCEPT !["sib"] = die["ret"]]
    BY <1>2 DEF Record
  <2>2. pc' = "search" /\ \E o, b : search' = Begun(o, b, "ret", "nextarg")
    BY <2>1, SiblingSearch
  <2> QED
    BY <1>1, <2>1, <2>2
<1>3. ASSUME NEW o, NEW b, NEW i, NEW t \in Others, Search(o, b, i, t)
      PROVE  Begins
  BY <1>3 DEF Search, Begun
<1>4. (pc' = "done" \/ Begins) /\ DOMAIN die' = Structures
  <2>1. CASE Here
    <3>1. DOMAIN die' = Structures
      BY <1>1, <2>1 DEF Here
    <3>2. pc' = "done" \/ Search(die["die"].at + 1, FALSE, "ret", "firstarg")
      BY <2>1 DEF Here, Finish
    <3> QED
      BY <1>3, <3>1, <3>2
  <2>2. CASE FirstArg
    <3>1. \/ pc' = "done" /\ die' = die
          \/ Search(At("ret").type, FALSE, "sib", "firsttype") /\ die' = die
          \/ Record(8)
      BY <2>2 DEF FirstArg, Argument, Finish
    <3> QED
      BY <1>1, <1>2, <1>3, <3>1
  <2>3. CASE NextArg
    <3>1. \/ pc' = "done" /\ die' = die
          \/ Search(At("ret").type, FALSE, "sib", "nexttype") /\ die' = die
          \/ Record(ret_val)
      BY <2>3 DEF NextArg, Argument, Finish
    <3> QED
      BY <1>1, <1>2, <1>3, <3>1
  <2>4. CASE FirstType
    <3>1. \/ Search(At("sib").type, FALSE, "sib", "firsttype") /\ die' = die
          \/ Record(IF At("sib").size # 0 THEN At("sib").size ELSE ret_val)
      BY <2>4 DEF FirstType
    <3> QED
      BY <1>1, <1>2, <1>3, <3>1
  <2>5. CASE NextType
    <3>1. Record(IF At("sib").size # 0 THEN At("sib").size ELSE ret_val)
      BY <2>5 DEF NextType
    <3> QED
      BY <1>2, <3>1
  <2> QED
    BY <2>1, <2>2, <2>3, <2>4, <2>5
<1>5. CASE pc' = "done"
  BY <1>1, <1>4, <1>5 DEF WalkInv
<1>6. CASE Begins
  <2>1. PICK o, b, i : \E t \in Others : search' = Begun(o, b, i, t)
    BY <1>6
  <2>2. PICK t \in Others : search' = Begun(o, b, i, t)
    BY <2>1
  <2>3. SearchFor(Begun(o, b, i, t))
    BY OtherSearch
  <2>4. SearchFor(search)'
    BY <1>1, <2>2, <2>3, SearchKept
  <2> QED
    BY <1>1, <1>4, <1>6, <2>4 DEF WalkInv
<1> QED
  BY <1>4, <1>5, <1>6

\* The invariant is the property, by the units being apart.
LEMMA WalkedTopLevel ==
  ASSUME WalkInv
  PROVE  WalkTopLevel
<1> SUFFICES ASSUME pc = "list"
             PROVE  LET p == die["die"].at
                    IN  p \in Places /\ UnitOf(p) = unit /\ Level(p) = 1
  BY DEF WalkTopLevel
<1> DEFINE p == die["die"].at
<1>1. unit # 0 /\ TopLevel(p)
  BY DEF WalkInv
<1> HIDE DEF p
<1>2. /\ InfoOK(info) /\ unit \in 1 .. Len(info.units)
      /\ Unit.first \in Nat \ {0} /\ Unit.next \in Nat /\ Unit.next <= Len(info.entries) + 1
  BY <1>1, UnitAtWork
<1>3. p \in Unit.first .. Unit.next - 1 /\ Nesting(p) = 1
  BY <1>1 DEF TopLevel
<1>4. UnitOf(p) = unit
  BY <1>2, <1>3, UnitOfPlace DEF Unit
<1>5. p \in Places
  <2>1. Places = 1 .. Len(info.entries) /\ Len(info.entries) \in Nat
    BY <1>2 DEF Places, InfoOK
  <2> QED
    BY <1>2, <1>3, <2>1
<1>6. Level(p) = 1
  BY <1>3, <1>4 DEF Level, Nesting, Unit
<1> QED
  BY <1>4, <1>5, <1>6 DEF p

\* Every step keeps it.
LEMMA WalkInvKept ==
  ASSUME WalkInv, [Next]_vars
  PROVE  WalkInv'
<1>1. CASE EndOfUnit \/ NullEntry \/ DieEntry
  BY <1>1, EndOfUnitKeeps, NullEntryKeeps, DieEntryKeeps
<1>2. CASE GetNextCu \/ CuDie \/ Child \/ NextSibling
  BY <1>2, GetNextCuKeeps, CuDieKeeps, HandOnKeeps
<1>3. CASE NotHere
  BY <1>3, NotHereKeeps
<1>4. CASE Here \/ FirstArg \/ NextArg \/ FirstType \/ NextType
  BY <1>4, ArgumentsKeep
<1>5. CASE UNCHANGED vars
  <2>1. UNCHANGED <<info, pc, unit, die, found, search>>
    BY <1>5 DEF vars
  <2> QED
    BY <2>1 DEF WalkInv, SearchFor, TopLevel, Nesting, Unit, Entry
<1> QED
  BY <1>1, <1>2, <1>3, <1>4, <1>5 DEF Next

(* list_func_die() is called for the direct children of a unit's entry     *)
(* only, with or without DW_AT_sibling and whatever is nested in them: the *)
(* walk never takes what is inside a function for something next to it,    *)
(* nor leaves its unit.                                                    *)
THEOREM WalkStaysTopLevel == Spec => []WalkTopLevel
<1>1. Init => WalkInv
  <2> SUFFICES ASSUME Init
               PROVE  WalkInv
    OBVIOUS
  <2>1. info \in Infos /\ pc = "cu" /\ unit = 0 /\ DOMAIN die = Structures
    BY DEF Init, Structures
  <2>2. Len(info.units) \in Nat
    BY <2>1, DebugLookupAssumption DEF InfoOK
  <2> QED
    BY <2>1, <2>2 DEF WalkInv
<1>2. WalkInv /\ [Next]_vars => WalkInv'
  BY WalkInvKept
<1>3. WalkInv => WalkTopLevel
  BY WalkedTopLevel
<1> QED
  BY <1>1, <1>2, <1>3, PTL DEF Spec

---------------------------------------------------------------------------
\* The function that is found.

\* None of the functions sought is in front of k.
Ahead(k) == \A m \in Matches : k <= m

\* The name read into d is that of the entry it was last read from.
Named(d) ==
  Entry(die[d].at).name # NoName => die[d].name = Entry(die[d].at).name

Looking == {"cudie", "child", "sibling"}
Counting == {"firstarg", "firsttype", "nextarg", "nexttype"}

Fields == {"answer", "fn", "name", "args"}

Answer ==
  /\ Matches # {}
  /\ result.answer = 0 /\ result.fn = Min(Matches)
  /\ Entry(result.fn).name # NoName => result.name = Entry(result.fn).name

(* The walk passes no function that contains the address: what is between  *)
(* the place of one search and of the next is not next below the unit's    *)
(* entry, and the units behind one that cannot be read are not looked at.  *)
FoundInv ==
  /\ addr \in Addrs /\ DOMAIN result = Fields
  /\ Readable(unit)
  /\ pc = "cu" => Ahead(IF unit = 0 THEN 1 ELSE Unit.next)
  /\ pc = "search" /\ search.then \in Looking => Ahead(search.off)
  /\ pc = "cudie" => found /\ Ahead(Unit.first)
  /\ pc \in {"child", "list"} => Ahead(die["die"].at) /\ Named("die")
  /\ pc = "sibling" => IF found THEN Ahead(die["die2"].at) /\ Named("die2")
                                ELSE Ahead(Unit.next)
  /\ pc = "search" /\ search.then \in Counting => Answer
  /\ pc \in Counting => Answer
  /\ pc = "done" => IF Matches = {} THEN result.answer = -1 ELSE Answer

\* Every entry is in a unit.
LEMMA PlaceInUnit ==
  ASSUME NEW inf, InfoOK(inf), NEW p \in 1 .. Len(inf.entries)
  PROVE  \E u \in 1 .. Len(inf.units) : p \in inf.units[u].first .. inf.units[u].next - 1
<1> DEFINE n == Len(inf.units)
           F(w) == inf.units[w].first
           N(w) == inf.units[w].next
<1>1. /\ inf.units \in Seq(UnitHeaders) /\ n \in Nat /\ DOMAIN inf.units = 1 .. n
      /\ Len(inf.entries) \in Nat /\ p \in Nat
      /\ IF inf.units = << >> THEN inf.entries = << >> ELSE F(1) = 1
  BY DEF InfoOK
<1>2. n >= 1 /\ F(1) = 1
  <2>1. inf.units # << >>
    BY <1>1
  <2>2. n # 0
    BY <1>1, <2>1
  <2> QED
    BY <1>1, <2>1, <2>2
<1>3. \A w \in 1 .. n : /\ F(w) \in Nat /\ N(w) \in Nat
                        /\ N(w) = IF w = n THEN Len(inf.entries) + 1 ELSE F(w + 1)
  <2> SUFFICES ASSUME NEW w \in 1 .. n
               PROVE  /\ F(w) \in Nat /\ N(w) \in Nat
                      /\ N(w) = IF w = n THEN Len(inf.entries) + 1 ELSE F(w + 1)
    OBVIOUS
  <2>1. inf.units[w] \in UnitHeaders
    BY <1>1
  <2>2. F(w) \in Nat /\ N(w) \in Nat
    BY <2>1 DEF UnitHeaders
  <2> QED
    BY <1>1, <2>2 DEF InfoOK
<1> HIDE DEF n, F, N
<1> DEFINE Ends == {w \in 1 .. n : p < N(w)}
           u == Min(Ends)
<1>4. u \in Ends /\ \A w \in Ends : u <= w
  <2>1. n \in Ends
    BY <1>1, <1>2, <1>3
  <2>2. Ends \subseteq Nat
    OBVIOUS
  <2> HIDE DEF Ends
  <2> QED
    BY <2>1, <2>2, LeastPlace
<1>5. u \in 1 .. n /\ p < N(u)
  BY <1>4
<1>6. \A w \in 1 .. n : w < u => ~(p < N(w))
  <2> SUFFICES ASSUME NEW w \in 1 .. n, w < u, p < N(w)
               PROVE  FALSE
    OBVIOUS
  <2>1. w \in Ends
    OBVIOUS
  <2> HIDE DEF Ends, u
  <2>2. u <= w /\ u \in Nat
    BY <1>4, <1>5, <2>1
  <2> QED
    BY <2>2
<1> HIDE DEF u, Ends
<1>7. F(u) <= p
  <2>1. CASE u = 1
    BY <1>1, <1>2, <2>1
  <2>2. CASE u # 1
    <3> DEFINE w == u - 1
    <3>1. w \in 1 .. n /\ w < u /\ w # n /\ w + 1 = u
      BY <1>1, <1>5, <2>2
    <3> HIDE DEF w
    <3>2. N(w) = F(u) /\ ~(p < N(w)) /\ N(w) \in Nat
      BY <1>3, <1>6, <3>1
    <3> QED
      BY <1>1, <3>2
  <2> QED
    BY <2>1, <2>2
<1>8. p \in F(u) .. N(u) - 1
  BY <1>1, <1>3, <1>5, <1>7
<1> QED
  BY <1>5, <1>8 DEF n, F, N

\* An entry of the unit at work, in terms of the tree.
LEMMA EntryOfUnit ==
  ASSUME WalkInv, unit # 0, NEW p \in Unit.first .. Unit.next - 1
  PROVE  p \in Places /\ UnitOf(p) = unit /\ Level(p) = Nesting(p)
<1>1. /\ InfoOK(info) /\ unit \in 1 .. Len(info.units)
      /\ Unit.first \in Nat \ {0} /\ Unit.next \in Nat /\ Unit.next <= Len(info.entries) + 1
  BY UnitAtWork
<1>2. UnitOf(p) = unit
  BY <1>1, UnitOfPlace DEF Unit
<1>3. Places = 1 .. Len(info.entries) /\ Len(info.entries) \in Nat
  BY <1>1 DEF Places, InfoOK
<1>4. Level(p) = Nesting(p)
  BY <1>2 DEF Level, Nesting, Unit
<1> QED
  BY <1>1, <1>2, <1>3, <1>4

\* A function that contains the address is in a unit that can be read.
LEMMA MatchIs ==
  ASSUME InfoOK(info), NEW m \in Matches
  PROVE  /\ m \in Nat /\ m >= 1 /\ m <= Len(info.entries)
         /\ \E u \in 1 .. Len(info.units) :
              /\ m \in info.units[u].first .. info.units[u].next - 1
              /\ UnitOf(m) = u /\ Readable(u)
<1>1. Places = 1 .. Len(info.entries) /\ Len(info.entries) \in Nat
  BY DEF Places, InfoOK
<1>2. m \in 1 .. Len(info.entries) /\ Readable(UnitOf(m))
  BY <1>1 DEF Matches
<1>3. PICK u \in 1 .. Len(info.units) : m \in info.units[u].first .. info.units[u].next - 1
  BY <1>2, PlaceInUnit
<1>4. UnitOf(m) = u
  BY <1>3, UnitOfPlace
<1> QED
  BY <1>1, <1>2, <1>3, <1>4

\* They are numbers.
LEMMA MatchesAreNumbers ==
  ASSUME InfoOK(info)
  PROVE  Matches \subseteq Nat
BY MatchIs

\* An entry that is not one of them is passed.
LEMMA EntryPassed ==
  ASSUME InfoOK(info), NEW k \in Nat, Ahead(k), k \notin Matches
  PROVE  Ahead(k + 1)
<1>1. \A m \in Matches : m \in Nat /\ k <= m /\ m # k
  BY MatchesAreNumbers DEF Ahead
<1>2. \A m \in Matches : k + 1 <= m
  BY <1>1
<1> QED
  BY <1>2 DEF Ahead

\* An entry that is not next below the unit's own is none.
LEMMA OtherLevel ==
  ASSUME WalkInv, unit # 0, NEW p \in Unit.first .. Unit.next - 1,
         Nesting(p) # 1 \/ Entry(p).tag = "null"
  PROVE  p \notin Matches
<1>1. Level(p) = Nesting(p)
  BY EntryOfUnit
<1> QED
  BY <1>1 DEF Matches, IsDie

\* At the top level of a unit that can be read one is it that contains the address.
LEMMA TopLevelMatch ==
  ASSUME WalkInv, unit # 0, NEW p, TopLevel(p), addr \in Addrs, Readable(unit)
  PROVE  p \in Matches <=> ContainsAddr(Entry(p))
<1>1. p \in Unit.first .. Unit.next - 1 /\ Entry(p).tag # "null" /\ Nesting(p) = 1
  BY DEF TopLevel
<1>2. p \in Places /\ UnitOf(p) = unit /\ Level(p) = 1
  BY <1>1, EntryOfUnit
<1>3. InfoOK(info) /\ unit \in 1 .. Len(info.units) /\ addr \in Nat
  BY UnitAtWork, DebugLookupAssumption
<1>4. Entry(p).low \in Nat /\ Entry(p).high \in Nat
  <2>1. Entry(p) \in DieEntries
    BY <1>2, <1>3 DEF Places, Entry, InfoOK
  <2> QED
    BY <2>1 DEF DieEntries
<1>5. Entry(p).tag = "function" => Entry(p).low # addr
  <2>1. unit \in DOMAIN info.units
    BY <1>3 DEF InfoOK
  <2>2. Entry(p).tag = "function" => Entry(p).low \notin Addrs
    BY <1>1, <1>3, <2>1 DEF InfoOK, Entry, Unit
  <2> QED
    BY <2>2
<1>6. Entry(p).tag = "function" =>
        (addr \in Entry(p).low .. Entry(p).high - 1
           <=> Entry(p).low < addr /\ addr < Entry(p).high)
  BY <1>3, <1>4, <1>5
<1> QED
  BY <1>1, <1>2, <1>6 DEF Matches, IsDie, ContainsAddr

\* What has a sibling pointer is passed with its children.
LEMMA ChildrenPassed ==
  ASSUME WalkInv, unit # 0, NEW p, TopLevel(p), Entry(p).kids, Ahead(p + 1)
  PROVE  Ahead(Sibling(p))
<1>1. /\ p \in Unit.first .. Unit.next - 1 /\ Entry(p).tag # "null" /\ Nesting(p) = 1
      /\ Unit.first \in Nat /\ Unit.next \in Nat /\ InfoOK(info)
  BY UnitAtWork DEF TopLevel
<1>2. Nesting(p) >= 1
  BY <1>1
<1>3. Sibling(p) \in p + 2 .. Unit.next /\ \A q \in p + 1 .. Sibling(p) - 1 : Nesting(q) > 1
  BY <1>1, <1>2, SiblingPast
<1> DEFINE s == Sibling(p)
<1> HIDE DEF s
<1>4. s \in p + 2 .. Unit.next /\ \A q \in p + 1 .. s - 1 : Nesting(q) > 1
  BY <1>3 DEF s
<1> SUFFICES ASSUME NEW m \in Matches
             PROVE  s <= m
  BY DEF Ahead, s
<1>5. m \in Nat /\ p + 1 <= m
  BY <1>1, MatchesAreNumbers DEF Ahead
<1>6. ~(m < s)
  <2> SUFFICES ASSUME m < s
               PROVE  FALSE
    OBVIOUS
  <2>1. m \in p + 1 .. s - 1 /\ m \in Unit.first .. Unit.next - 1
    BY <1>1, <1>4, <1>5
  <2>2. Nesting(m) > 1
    BY <1>4, <2>1
  <2>3. Nesting(m) # 1
    BY <2>2
  <2> QED
    BY <2>1, <2>3, OtherLevel
<1> QED
  BY <1>1, <1>4, <1>5, <1>6

\* Where the nesting comes down to that of the unit's entry, or below, it ends.
LEMMA UnitEnds ==
  ASSUME WalkInv, unit # 0, NEW p \in Unit.first .. Unit.next - 1, Nesting(p + 1) <= 0
  PROVE  p + 1 = Unit.next
<1>1. /\ Unit.first \in Nat /\ Unit.next \in Nat /\ InfoOK(info) /\ unit \in 1 .. Len(info.units)
  BY UnitAtWork
<1>2. unit \in DOMAIN info.units
  BY <1>1 DEF InfoOK
<1>3. \A q \in Unit.first .. Unit.next - 1 : q > Unit.first => Nesting(q) > 0
  BY <1>1, <1>2 DEF InfoOK, Nesting, Unit
<1>4. Nesting(p + 1) \in Int
  <2>1. p + 1 \in Nat
    BY <1>1
  <2> QED
    BY <1>1, <2>1, DepthType DEF Nesting
<1>5. ~(p + 1 \in Unit.first .. Unit.next - 1)
  <2> SUFFICES ASSUME p + 1 \in Unit.first .. Unit.next - 1
               PROVE  FALSE
    OBVIOUS
  <2>1. p + 1 > Unit.first
    BY <1>1
  <2>2. Nesting(p + 1) > 0
    BY <1>3, <2>1
  <2> QED
    BY <1>4, <2>2
<1> QED
  BY <1>1, <1>5

\* The unit's own entry is a DIE.
LEMMA UnitHasEntry ==
  ASSUME WalkInv, unit # 0
  PROVE  Entry(Unit.first).tag # "null" /\ Unit.first \in Unit.first .. Unit.next - 1 /\ Nesting(Unit.first) = 0
<1>1. /\ Unit.first \in Nat /\ Unit.next \in Nat /\ Unit.first < Unit.next
      /\ Nesting(Unit.next) \in {0, 1}
  BY UnitAtWork
<1>2. Unit.first \in Unit.first .. Unit.next - 1 /\ Nesting(Unit.first) = 0
  BY <1>1, DepthStart DEF Nesting
<1>3. ASSUME Entry(Unit.first).tag = "null"
      PROVE  FALSE
  <2>1. Nesting(Unit.first + 1) = Nesting(Unit.first) - 1
    BY <1>2, <1>3, NestingStep
  <2>2. Nesting(Unit.first + 1) = -1 /\ Nesting(Unit.first + 1) <= 0
    BY <1>2, <2>1
  <2>3. Unit.first + 1 = Unit.next
    BY <1>2, <2>2, UnitEnds
  <2> QED
    BY <1>1, <2>2, <2>3
<1> QED
  BY <1>2, <1>3

\* The functions sought stay the same.
LEMMA MatchesKept ==
  ASSUME info' = info, addr' = addr
  PROVE  Matches' = Matches
<1>1. \A p : UnitOf(p)' = UnitOf(p)
  BY DEF UnitOf
<1>2. \A p : Level(p)' = Level(p)
  BY <1>1 DEF Level
<1>3. Places' = Places /\ \A p : IsDie(p)' <=> IsDie(p)
  BY DEF Places, IsDie, Entry
<1>4. \A u : Readable(u)' <=> Readable(u)
  BY DEF Readable
<1> QED
  BY <1>1, <1>2, <1>3, <1>4 DEF Matches, Entry

\* So does an answer.
LEMMA AnswerKept ==
  ASSUME info' = info, addr' = addr, result' = result, Answer
  PROVE  Answer'
<1>1. Matches' = Matches
  BY MatchesKept
<1> QED
  BY <1>1 DEF Answer, Entry

\* A search ends without an entry.
LEMMA NotFoundPasses ==
  ASSUME WalkInv, FoundInv, pc = "search", Return(FALSE),
         search.then \notin {"cudie", "child"}, search.then = "sibling" => Ahead(Unit.next),
         UNCHANGED <<info, addr, unit, die, result>>
  PROVE  FoundInv'
<1>1. pc' = search.then /\ found' = FALSE /\ search.then \in {"sibling"} \cup Counting
  BY DEF Return, WalkInv, SearchFor, Purposes, Counting
<1>2. Matches' = Matches /\ Unit' = Unit
  BY MatchesKept DEF Unit
<1>3. addr' \in Addrs /\ DOMAIN result' = Fields /\ Readable(unit)'
  BY DEF FoundInv, Readable
<1>4. pc' = "sibling" => Ahead(Unit.next)'
  BY <1>1, <1>2 DEF Ahead
<1>5. pc' \in Counting => Answer'
  <2>1. pc' \in Counting => Answer
    BY <1>1 DEF FoundInv
  <2> QED
    BY <2>1, AnswerKept
<1>6. pc' \notin {"cu", "search", "cudie", "child", "list", "done"}
  BY <1>1 DEF Counting
<1> QED
  BY <1>1, <1>3, <1>4, <1>5, <1>6 DEF FoundInv

\* The unit ends: no function is left in it.
LEMMA EndOfUnitPasses ==
  ASSUME WalkInv, FoundInv, EndOfUnit
  PROVE  FoundInv'
<1>1. /\ pc = "search" /\ search.off >= Unit.next /\ Return(FALSE) /\ unit # 0 /\ SearchFor(search)
      /\ UNCHANGED <<info, addr, unit, die, result>>
  BY DEF EndOfUnit, WalkInv
<1>2. Unit.first \in Nat /\ Unit.next \in Nat /\ Unit.first < Unit.next
  BY <1>1, UnitAtWork
<1>3. search.then # "child"
  <2>1. ~TopLevel(search.off)
    BY <1>1, <1>2 DEF TopLevel
  <2> QED
    BY <1>1, <2>1 DEF SearchFor
<1>4. search.then # "cudie"
  BY <1>1, <1>2 DEF SearchFor
<1>5. search.then = "sibling" => Ahead(Unit.next)
  <2> SUFFICES ASSUME search.then = "sibling"
               PROVE  Ahead(Unit.next)
    OBVIOUS
  <2>1. search.off \in Unit.first .. Unit.next
    BY <1>1 DEF SearchFor
  <2>2. search.off = Unit.next
    BY <1>1, <1>2, <2>1
  <2>3. Ahead(search.off)
    BY <1>1 DEF FoundInv, Looking
  <2> QED
    BY <2>2, <2>3
<1> QED
  BY <1>1, <1>3, <1>4, <1>5, NotFoundPasses

\* Where a search for a sibling stands.
LEMMA SiblingSearchAt ==
  ASSUME WalkInv, pc = "search", search.then = "sibling", search.off < Unit.next
  PROVE  /\ search.into = "die2" /\ search.off \in Unit.first .. Unit.next - 1
         /\ search.level \in Nat /\ search.sibling \in BOOLEAN
         /\ Nesting(search.off) = IF search.sibling THEN 1 + search.level ELSE 1
<1>1. unit # 0 /\ SearchFor(search)
  BY DEF WalkInv
<1>2. Unit.first \in Nat /\ Unit.next \in Nat
  BY <1>1, UnitAtWork
<1>3. /\ search.into = "die2" /\ search.off \in Unit.first .. Unit.next
      /\ search.level \in Nat /\ search.sibling \in BOOLEAN
      /\ Nesting(search.off) = IF search.sibling THEN 1 + search.level ELSE 1
  BY <1>1 DEF SearchFor
<1> QED
  BY <1>2, <1>3

\* A search goes on behind an entry that is none of the functions.
LEMMA GoesOnPasses ==
  ASSUME WalkInv, FoundInv, pc = "search", search.off < Unit.next,
         search.then = "sibling" => search.off \notin Matches,
         search.then \notin {"cudie", "child"},
         pc' = "search", search'.off = search.off + 1, search'.then = search.then,
         UNCHANGED <<info, addr, unit, result>>
  PROVE  FoundInv'
<1>1. unit # 0 /\ SearchFor(search) /\ search.then \in {"sibling"} \cup Counting /\ InfoOK(info)
  BY UnitAtWork DEF WalkInv, SearchFor, Purposes, Counting
<1>2. Matches' = Matches
  BY MatchesKept
<1>3. addr' \in Addrs /\ DOMAIN result' = Fields /\ Readable(unit)'
  BY DEF FoundInv, Readable
<1>4. search.then \in Looking => search.then = "sibling"
  BY <1>1 DEF Counting, Looking
<1>5. search.then = "sibling" => Ahead(search.off)'
  <2> SUFFICES ASSUME search.then = "sibling"
               PROVE  Ahead(search.off)'
    OBVIOUS
  <2>1. Unit.first \in Nat /\ Unit.next \in Nat /\ search.off \in Unit.first .. Unit.next - 1
    BY <1>1, UnitAtWork, SiblingSearchAt
  <2>2. search.off \in Nat /\ Ahead(search.off)
    BY <2>1 DEF FoundInv, Looking
  <2>3. Ahead(search.off + 1)
    BY <1>1, <2>2, EntryPassed
  <2> QED
    BY <1>2, <2>3 DEF Ahead
<1>6. search.then \in Counting => Answer'
  <2>1. search.then \in Counting => Answer
    BY DEF FoundInv
  <2> QED
    BY <2>1, AnswerKept
<1> QED
  BY <1>3, <1>4, <1>5, <1>6 DEF FoundInv, Counting

\* A null entry is no function; the last one at the top level ends the unit.
LEMMA NullEntryPasses ==
  ASSUME WalkInv, FoundInv, NullEntry
  PROVE  FoundInv'
<1>1. /\ pc = "search" /\ search.off < Unit.next /\ Entry(search.off).tag = "null"
      /\ unit # 0 /\ SearchFor(search) /\ UNCHANGED <<info, addr, unit, die, result>>
      /\ InfoOK(info)
  BY UnitAtWork DEF NullEntry, WalkInv
<1>2. search.then # "child"
  BY <1>1 DEF SearchFor, TopLevel
<1>3. search.then # "cudie"
  BY <1>1, UnitHasEntry DEF SearchFor
<1>4. search.then = "sibling" => search.off \notin Matches /\ search.off \in Unit.first .. Unit.next - 1
  BY <1>1, SiblingSearchAt, OtherLevel
<1>5. CASE search.level = 0 \/ ~search.sibling
  <2>1. search.then = "sibling" => Ahead(Unit.next)
    <3> SUFFICES ASSUME search.then = "sibling"
                 PROVE  Ahead(Unit.next)
      OBVIOUS
    <3>1. /\ search.off \in Unit.first .. Unit.next - 1
          /\ Nesting(search.off) = IF search.sibling THEN 1 + search.level ELSE 1
      BY <1>1, SiblingSearchAt
    <3>2. Nesting(search.off) = 1
      BY <1>5, <3>1
    <3>3. Nesting(search.off + 1) = Nesting(search.off) - 1 /\ search.off \in Nat
      BY <1>1, <3>1, NestingStep
    <3>4. Nesting(search.off + 1) <= 0
      BY <3>2, <3>3
    <3>5. search.off + 1 = Unit.next
      BY <1>1, <3>1, <3>4, UnitEnds
    <3>6. Ahead(search.off)
      BY <1>1 DEF FoundInv, Looking
    <3>7. Ahead(search.off + 1)
      BY <1>1, <1>4, <3>3, <3>6, EntryPassed
    <3> QED
      BY <3>5, <3>7
  <2>2. Return(FALSE)
    BY <1>5 DEF NullEntry
  <2> QED
    BY <1>1, <1>2, <1>3, <2>1, <2>2, NotFoundPasses
<1>6. CASE ~(search.level = 0 \/ ~search.sibling)
  <2> DEFINE s == [search EXCEPT !.off = @ + 1, !.level = @ - 1]
  <2>1. search' = s /\ pc' = "search"
    BY <1>6 DEF NullEntry
  <2>2. search = [off |-> search.off, level |-> search.level, sibling |-> search.sibling,
                  into |-> search.into, then |-> search.then]
    BY <1>1 DEF SearchFor
  <2>3. s = [off |-> search.off + 1, level |-> search.level - 1, sibling |-> search.sibling,
             into |-> search.into, then |-> search.then]
    BY <2>2, GoesOn
  <2>4. s.off = search.off + 1 /\ s.then = search.then
    BY <2>3
  <2> HIDE DEF s
  <2>5. search'.off = search.off + 1 /\ search'.then = search.then
    BY <2>1, <2>4
  <2> QED
    BY <1>1, <1>2, <1>3, <1>4, <2>1, <2>5, GoesOnPasses
<1> QED
  BY <1>5, <1>6

\* An entry is read into one structure, with its name.
LEMMA ParsedName ==
  ASSUME DOMAIN die = Structures, NEW d \in Structures, NEW p, ParseDie(d, p)
  PROVE  /\ die'[d].at = p
         /\ Entry(p).name # NoName => die'[d].name = Entry(p).name
<1> DEFINE e == [at |-> p, name |-> IF Entry(p).name = NoName THEN die[d].name ELSE Entry(p).name]
<1>1. die' = [die EXCEPT ![d] = e]
  BY DEF ParseDie
<1>2. e.at = p /\ (Entry(p).name # NoName => e.name = Entry(p).name)
  OBVIOUS
<1> HIDE DEF e
<1> QED
  BY <1>1, <1>2

\* An entry that ends a search is the next at the top level; others are below it.
LEMMA DieEntryPasses ==
  ASSUME WalkInv, FoundInv, DieEntry
  PROVE  FoundInv'
<1>1. /\ pc = "search" /\ search.off < Unit.next /\ Entry(search.off).tag # "null"
      /\ unit # 0 /\ SearchFor(search) /\ UNCHANGED <<info, addr, unit, result>>
      /\ ParseDie(search.into, search.off) /\ DOMAIN die = Structures
      /\ search.then \in Looking \cup Counting
  BY DEF DieEntry, WalkInv, SearchFor, Purposes, Looking, Counting
<1>2. CASE ~(search.sibling /\ search.level > 0)
  <2>1. pc' = search.then /\ found' = TRUE
    BY <1>1, <1>2 DEF DieEntry, Return
  <2>2. /\ Matches' = Matches /\ Unit' = Unit /\ addr' \in Addrs /\ Readable(unit)'
        /\ DOMAIN result' = Fields
    BY <1>1, MatchesKept DEF Unit, FoundInv, Readable
  <2>3. search.then \in Counting => Answer'
    BY <1>1, AnswerKept DEF FoundInv
  <2>4. search.then \in Looking => Ahead(search.off)
    BY <1>1 DEF FoundInv
  <2>5. search.then = "cudie" => Ahead(Unit.first)'
    <3>1. search.then = "cudie" => Ahead(Unit.first)
      BY <1>1, <2>4 DEF SearchFor, Looking
    <3> QED
      BY <2>2, <3>1 DEF Ahead
  <2>6. ASSUME NEW d \in Structures, search.into = d, search.then \in Looking
        PROVE  Ahead(die[d].at)' /\ Named(d)'
    <3>1. ParseDie(d, search.off)
      BY <1>1, <2>6
    <3>2. die'[d].at = search.off
          /\ (Entry(search.off).name # NoName => die'[d].name = Entry(search.off).name)
      BY <1>1, <3>1, ParsedName
    <3>3. Ahead(die[d].at)'
      BY <2>2, <2>4, <2>6, <3>2 DEF Ahead
    <3>4. Named(d)'
      BY <1>1, <3>2 DEF Named, Entry
    <3> QED
      BY <3>3, <3>4
  <2>7. search.then = "child" => Ahead(die["die"].at)' /\ Named("die")'
    <3>1. search.then = "child" => search.into = "die"
      BY <1>1 DEF SearchFor
    <3> QED
      BY <2>6, <3>1 DEF Structures, Looking
  <2>8. search.then = "sibling" => Ahead(die["die2"].at)' /\ Named("die2")'
    <3>1. search.then = "sibling" => search.into = "die2"
      BY <1>1 DEF SearchFor
    <3> QED
      BY <2>6, <3>1 DEF Structures, Looking
  <2>9. pc' \notin {"search", "list", "cu", "done"}
    BY <1>1, <2>1 DEF Looking, Counting
  <2> QED
    BY <1>1, <2>1, <2>2, <2>3, <2>5, <2>7, <2>8, <2>9 DEF FoundInv
<1>3. CASE search.sibling /\ search.level > 0
  <2> DEFINE n == IF Entry(search.off).kids THEN search.level + 1 ELSE search.level
             s == [search EXCEPT !.off = @ + 1, !.level = n]
  <2>1. search' = s /\ pc' = "search"
    BY <1>3 DEF DieEntry
  <2>2. search.then \notin {"child", "cudie"}
    BY <1>1, <1>3 DEF SearchFor
  <2>3. search = [off |-> search.off, level |-> search.level, sibling |-> search.sibling,
                  into |-> search.into, then |-> search.then]
    BY <1>1 DEF SearchFor
  <2> HIDE DEF n
  <2>4. s = [off |-> search.off + 1, level |-> n, sibling |-> search.sibling,
             into |-> search.into, then |-> search.then]
    BY <2>3, GoesOn
  <2>5. s.off = search.off + 1 /\ s.then = search.then
    BY <2>4
  <2> HIDE DEF s
  <2>6. search'.off = search.off + 1 /\ search'.then = search.then
    BY <2>1, <2>5
  <2>7. search.then = "sibling" => search.off \notin Matches
    <3> SUFFICES ASSUME search.then = "sibling"
                 PROVE  search.off \notin Matches
      OBVIOUS
    <3>1. /\ search.off \in Unit.first .. Unit.next - 1 /\ search.level \in Nat
          /\ Nesting(search.off) = 1 + search.level
      BY <1>1, <1>3, SiblingSearchAt
    <3>2. Nesting(search.off) # 1
      BY <1>3, <3>1
    <3> QED
      BY <1>1, <3>1, <3>2, OtherLevel
  <2> QED
    BY <1>1, <2>1, <2>2, <2>6, <2>7, GoesOnPasses
<1> QED
  BY <1>2, <1>3

\* A unit that can be read is begun, or what is behind cannot hold a function.
LEMMA GetNextCuPasses ==
  ASSUME WalkInv, FoundInv, GetNextCu
  PROVE  FoundInv'
<1> DEFINE start == IF unit = 0 THEN 1 ELSE Unit.next
<1>1. /\ InfoOK(info) /\ Len(info.units) \in Nat /\ info.units \in Seq(UnitHeaders)
      /\ DOMAIN info.units = 1 .. Len(info.units)
      /\ unit \in 0 .. Len(info.units) /\ UNCHANGED <<info, addr, die, found>> /\ pc = "cu"
  <2>1. InfoOK(info)
    BY DebugLookupAssumption DEF WalkInv
  <2> QED
    BY <2>1 DEF GetNextCu, InfoOK, WalkInv
<1>2. Matches' = Matches /\ addr' \in Addrs
  BY <1>1, MatchesKept DEF FoundInv
<1>3. Ahead(start) /\ Readable(unit)
  BY <1>1 DEF FoundInv
<1>4. unit < Len(info.units) => info.units[unit + 1].first = start
  <2> SUFFICES ASSUME unit < Len(info.units)
               PROVE  info.units[unit + 1].first = start
    OBVIOUS
  <2>1. CASE unit = 0
    <3>1. info.units # << >>
      BY <1>1
    <3>2. info.units[1].first = 1
      BY <1>1, <3>1 DEF InfoOK
    <3> QED
      BY <2>1, <3>2
  <2>2. CASE unit # 0
    <3>1. unit \in DOMAIN info.units /\ unit # Len(info.units)
      BY <1>1, <2>2
    <3> QED
      BY <1>1, <2>2, <3>1 DEF InfoOK, Unit
  <2> QED
    BY <2>1, <2>2
<1> DEFINE Goes == unit < Len(info.units) /\ info.units[unit + 1].version \in 2 .. 4
<1>5. CASE Goes
  <2> DEFINE s == Begun(info.units[unit + 1].first, FALSE, "cudie", "cudie")
  <2>1. unit' = unit + 1 /\ pc' = "search" /\ search' = s
    BY <1>5 DEF GetNextCu, Search, Begun
  <2>2. s.off = info.units[unit + 1].first /\ s.then = "cudie"
    BY DEF Begun
  <2> HIDE DEF s
  <2>3. Readable(unit)'
    <3>1. \A v \in 1 .. unit + 1 : v \in 1 .. unit \/ v = unit + 1
      BY <1>1
    <3>2. Readable(unit + 1)
      BY <1>3, <1>5, <3>1 DEF Readable
    <3> QED
      BY <1>1, <2>1, <3>2 DEF Readable
  <2>4. Ahead(search.off)'
    BY <1>2, <1>3, <1>4, <1>5, <2>1, <2>2 DEF Ahead
  <2>5. search'.then \notin Counting /\ DOMAIN result' = Fields
    BY <1>5, <2>1, <2>2 DEF Counting, FoundInv, GetNextCu
  <2> QED
    BY <1>2, <2>1, <2>3, <2>4, <2>5 DEF FoundInv, Counting
<1>6. CASE ~Goes
  <2> DEFINE r == [result EXCEPT !.answer = -1]
  <2>1. pc' = "done" /\ unit' = unit /\ result' = [result EXCEPT !.answer = -1]
    BY <1>6 DEF GetNextCu, Finish
  <2>2. ASSUME NEW m \in Matches
        PROVE  FALSE
    <3>1. PICK u \in 1 .. Len(info.units) :
            /\ m \in info.units[u].first .. info.units[u].next - 1
            /\ UnitOf(m) = u /\ Readable(u)
      BY <1>1, MatchIs
    <3>2. m \in Nat /\ start <= m
      BY <1>1, <1>3, MatchIs DEF Ahead
    <3>3. info.units[u].first \in Nat /\ info.units[u].next \in Nat
      BY <1>1, UnitIs
    <3>4. unit < u
      <4> SUFFICES ASSUME ~(unit < u)
                   PROVE  FALSE
        OBVIOUS
      <4>1. unit # 0 /\ unit \in 1 .. Len(info.units) /\ (u = unit \/ u < unit)
        BY <1>1
      <4>2. Unit.first \in Nat /\ Unit.next \in Nat /\ Unit.first < Unit.next
        BY <1>1, <4>1, UnitIs DEF Unit
      <4>3. u < unit => info.units[u].next <= Unit.first
        BY <1>1, <4>1, UnitsFollow DEF Unit
      <4>4. info.units[u].next <= Unit.next
        BY <3>3, <4>1, <4>2, <4>3 DEF Unit
      <4> QED
        BY <3>1, <3>2, <3>3, <4>1, <4>2, <4>4
    <3>5. unit < Len(info.units) /\ unit + 1 \in 1 .. u
      BY <1>1, <3>4
    <3>6. info.units[unit + 1].version \in 2 .. 4
      BY <3>1, <3>5 DEF Readable
    <3> QED
      BY <1>6, <3>5, <3>6
  <2>3. Matches' = {} /\ Readable(unit)'
    BY <1>1, <1>2, <1>3, <2>1, <2>2 DEF Readable
  <2>4. DOMAIN result = Fields /\ "answer" \in Fields
    BY DEF FoundInv, Fields
  <2>5. result'.answer = -1 /\ DOMAIN result' = Fields
    BY <2>1, <2>4
  <2> QED
    BY <1>2, <2>1, <2>3, <2>5 DEF FoundInv, Counting
<1> QED
  BY <1>5, <1>6

\* A unit's own entry is none of the functions, and without children its last.
LEMMA CuDiePasses ==
  ASSUME WalkInv, FoundInv, CuDie
  PROVE  FoundInv'
<1> DEFINE f == Unit.first
<1>1. /\ pc = "cudie" /\ unit # 0 /\ found /\ Ahead(f) /\ die["cudie"].at = f
      /\ UNCHANGED <<info, addr, unit, die, found, result>>
  BY DEF CuDie, WalkInv, FoundInv
<1>2. Matches' = Matches /\ addr' \in Addrs /\ DOMAIN result' = Fields /\ Readable(unit)'
  BY <1>1, MatchesKept DEF FoundInv, Readable
<1>3. f \in Nat /\ f \in Unit.first .. Unit.next - 1 /\ Nesting(f) = 0 /\ Entry(f).tag # "null" /\ InfoOK(info)
  BY <1>1, UnitAtWork, UnitHasEntry
<1>4. Ahead(f + 1)
  <2>1. f \notin Matches
    <3>1. Nesting(f) # 1
      BY <1>3
    <3> QED
      BY <1>1, <1>3, <3>1, OtherLevel
  <2> QED
    BY <1>1, <1>3, <2>1, EntryPassed
<1> HIDE DEF f
<1>5. CASE At("cudie").kids
  <2> DEFINE s == Begun(f + 1, FALSE, "die", "child")
  <2>1. pc' = "search" /\ search' = s
    BY <1>1, <1>5 DEF CuDie, Search, Begun
  <2>2. s.off = f + 1 /\ s.then = "child"
    BY DEF Begun
  <2> HIDE DEF s
  <2>3. Ahead(search.off)' /\ search'.then \notin Counting
    BY <1>2, <1>4, <2>1, <2>2 DEF Ahead, Counting
  <2> QED
    BY <1>2, <2>1, <2>3 DEF FoundInv, Counting
<1>6. CASE ~At("cudie").kids
  <2>1. pc' = "cu"
    BY <1>6 DEF CuDie
  <2>2. f + 1 = Unit.next
    <3>1. ~Entry(f).kids
      BY <1>1, <1>6 DEF At
    <3>2. Nesting(f + 1) = Nesting(f)
      BY <1>1, <1>3, <3>1, NestingStep
    <3>3. Nesting(f + 1) <= 0
      BY <1>3, <3>2
    <3> QED
      BY <1>1, <1>3, <3>3, UnitEnds
  <2>3. Ahead(Unit.next)' /\ Unit' = Unit
    BY <1>1, <1>2, <1>4, <2>2 DEF Ahead, Unit
  <2> QED
    BY <1>1, <1>2, <2>1, <2>3 DEF FoundInv, Counting
<1> QED
  BY <1>5, <1>6

\* What was found is handed on, or the next unit is due.
LEMMA HandOnPasses ==
  ASSUME WalkInv, FoundInv, Child \/ NextSibling
  PROVE  FoundInv'
<1>1. /\ pc \in {"child", "sibling"} /\ unit # 0 /\ DOMAIN die = Structures
      /\ UNCHANGED <<info, addr, unit, search, found, result>>
  BY DEF Child, NextSibling, WalkInv
<1>2. /\ Matches' = Matches /\ Unit' = Unit /\ addr' \in Addrs /\ DOMAIN result' = Fields
      /\ Readable(unit)'
  BY <1>1, MatchesKept DEF FoundInv, Readable, Unit
<1>3. CASE Child
  <2>1. pc' = "list" /\ die' = die /\ Ahead(die["die"].at) /\ Named("die")
    BY <1>3 DEF Child, FoundInv
  <2>2. Ahead(die["die"].at)' /\ Named("die")'
    BY <1>1, <1>2, <2>1 DEF Ahead, Named, Entry
  <2> QED
    BY <1>2, <2>1, <2>2 DEF FoundInv, Counting
<1>4. CASE NextSibling /\ found
  <2>1. /\ pc' = "list" /\ die' = [die EXCEPT !["die"] = die["die2"]]
        /\ Ahead(die["die2"].at) /\ Named("die2")
    BY <1>4 DEF NextSibling, FoundInv
  <2>2. die'["die"] = die["die2"]
    BY <1>1, <2>1 DEF Structures
  <2>3. Ahead(die["die"].at)' /\ Named("die")'
    BY <1>1, <1>2, <2>1, <2>2 DEF Ahead, Named, Entry
  <2> QED
    BY <1>2, <2>1, <2>3 DEF FoundInv, Counting
<1>5. CASE NextSibling /\ ~found
  <2>1. pc' = "cu" /\ Ahead(Unit.next)
    BY <1>5 DEF NextSibling, FoundInv
  <2>2. Ahead(Unit.next)'
    BY <1>2, <2>1 DEF Ahead
  <2> QED
    BY <1>1, <1>2, <2>1, <2>2 DEF FoundInv, Counting
<1> QED
  BY <1>3, <1>4, <1>5

\* An entry that does not contain the address is passed, with its children or before them.
LEMMA NotHerePasses ==
  ASSUME WalkInv, FoundInv, NotHere
  PROVE  FoundInv'
<1> DEFINE p == die["die"].at
<1>1. /\ pc = "list" /\ unit # 0 /\ SiblingOf("die", "die2", "sibling") /\ TopLevel(p)
      /\ ~ContainsAddr(At("die")) /\ Ahead(p) /\ addr \in Addrs /\ Readable(unit)
      /\ UNCHANGED <<info, addr, unit, die, found, result>>
  BY DEF NotHere, WalkInv, FoundInv
<1>2. /\ Matches' = Matches /\ Unit' = Unit /\ addr' \in Addrs /\ DOMAIN result' = Fields
      /\ Readable(unit)'
  BY <1>1, MatchesKept DEF FoundInv, Readable, Unit
<1>3. Ahead(p + 1)
  <2>1. InfoOK(info) /\ p \in Nat
    BY <1>1, UnitAtWork DEF TopLevel
  <2>2. p \notin Matches
    BY <1>1, TopLevelMatch DEF At
  <2> QED
    BY <1>1, <2>1, <2>2, EntryPassed
<1>4. PICK o, b : /\ search' = Begun(o, b, "die2", "sibling") /\ pc' = "search"
                  /\ Ahead(o)
  <2>1. CASE Entry(p).kids /\ At("die").sib
    <3>1. search' = Begun(Sibling(p), FALSE, "die2", "sibling") /\ pc' = "search"
      BY <1>1, <2>1 DEF SiblingOf, Search, Begun, At
    <3> QED
      BY <1>1, <1>3, <2>1, <3>1, ChildrenPassed
  <2>2. CASE Entry(p).kids /\ ~At("die").sib
    <3>1. search' = Begun(p + 1, TRUE, "die2", "sibling") /\ pc' = "search"
      BY <1>1, <2>2 DEF SiblingOf, Search, Begun, At
    <3> QED
      BY <1>3, <3>1
  <2>3. CASE ~Entry(p).kids
    <3>1. search' = Begun(p + 1, FALSE, "die2", "sibling") /\ pc' = "search"
      BY <1>1, <2>3 DEF SiblingOf, Search, Begun, At
    <3> QED
      BY <1>3, <3>1
  <2> QED
    BY <2>1, <2>2, <2>3
<1> DEFINE s == Begun(o, b, "die2", "sibling")
<1>5. s.off = o /\ s.then = "sibling"
  BY DEF Begun
<1>6. search' = s
  BY <1>4
<1> HIDE DEF s
<1>7. Ahead(search.off)' /\ search'.then \notin Counting
  BY <1>2, <1>4, <1>5, <1>6 DEF Ahead, Counting
<1> QED
  BY <1>2, <1>4, <1>7 DEF FoundInv, Counting

\* The first that contains the address is the answer, and a name it has is the one just read.
LEMMA HereFinds ==
  ASSUME WalkInv, FoundInv, Here
  PROVE  FoundInv'
<1> DEFINE p == die["die"].at
           r == [answer |-> 0, fn |-> p, name |-> die["die"].name, args |-> << >>]
<1>1. /\ pc = "list" /\ unit # 0 /\ TopLevel(p) /\ ContainsAddr(Entry(p))
      /\ Ahead(p) /\ Named("die") /\ addr \in Addrs /\ Readable(unit)
      /\ UNCHANGED <<info, addr, unit, found>> /\ result' = r
  BY DEF Here, WalkInv, FoundInv, At, Finish
<1>2. \/ pc' = "done"
      \/ pc' = "search" /\ search' = Begun(p + 1, FALSE, "ret", "firstarg")
  BY DEF Here, Finish, Search, Begun
<1>3. r.answer = 0 /\ r.fn = p /\ r.name = die["die"].name /\ DOMAIN r = Fields
  BY DEF Fields
<1> HIDE DEF r
<1>4. /\ Matches' = Matches /\ Unit' = Unit /\ addr' \in Addrs /\ DOMAIN result' = Fields
      /\ Readable(unit)'
  BY <1>1, <1>3, MatchesKept DEF FoundInv, Readable, Unit
<1>5. p \in Matches /\ InfoOK(info)
  BY <1>1, TopLevelMatch, UnitAtWork
<1>6. Min(Matches) = p
  <2>1. Matches \subseteq Nat
    BY <1>5, MatchesAreNumbers
  <2>2. Min(Matches) \in Matches /\ Min(Matches) <= p
    BY <1>5, <2>1, LeastPlace
  <2>3. p <= Min(Matches)
    BY <1>1, <2>2 DEF Ahead
  <2> HIDE DEF p
  <2>4. Min(Matches) \in Nat /\ p \in Nat
    BY <1>5, <2>1, <2>2
  <2> QED
    BY <2>2, <2>3, <2>4
<1>7. Entry(p).name # NoName => die["die"].name = Entry(p).name
  BY <1>1 DEF Named
<1>8. Answer'
  BY <1>1, <1>3, <1>4, <1>5, <1>6, <1>7 DEF Answer, Entry
<1>9. CASE pc' = "done"
  BY <1>4, <1>5, <1>8, <1>9 DEF FoundInv, Counting
<1>10. CASE pc' = "search" /\ search' = Begun(p + 1, FALSE, "ret", "firstarg")
  <2>1. search'.then = "firstarg"
    BY <1>10 DEF Begun
  <2> QED
    BY <1>4, <1>8, <1>10, <2>1 DEF FoundInv, Looking, Counting
<1> QED
  BY <1>2, <1>9, <1>10

\* The arguments do not touch the answer.
LEMMA ArgumentsPass ==
  ASSUME WalkInv, FoundInv, FirstArg \/ NextArg \/ FirstType \/ NextType
  PROVE  FoundInv'
<1> DEFINE Same == \A f \in {"answer", "fn", "name"} : result'[f] = result[f]
           Begins == pc' = "search" /\ \E o, b, i : \E t \in Counting : search' = Begun(o, b, i, t)
<1>1. UNCHANGED <<info, addr, unit>> /\ Answer /\ pc \in Counting /\ DOMAIN result = Fields
  BY DEF FirstArg, NextArg, FirstType, NextType, Argument, FoundInv, Counting
<1>2. ASSUME NEW size, Record(size)
      PROVE  Begins /\ Same /\ DOMAIN result' = Fields
  <2>1. /\ SiblingOf("ret", "ret", "nextarg")
        /\ result' = [result EXCEPT !.args = Append(@, size)]
    BY <1>2 DEF Record
  <2>2. pc' = "search" /\ \E o, b : search' = Begun(o, b, "ret", "nextarg")
    BY <2>1, SiblingSearch
  <2>3. Begins
    BY <2>2 DEF Counting
  <2>4. Same /\ DOMAIN result' = Fields
    BY <1>1, <2>1 DEF Fields
  <2> QED
    BY <2>3, <2>4
<1>3. ASSUME NEW o, NEW b, NEW i, NEW t \in Counting, Search(o, b, i, t)
      PROVE  Begins
  BY <1>3 DEF Search, Begun
<1>4. ASSUME result' = result
      PROVE  Same /\ DOMAIN result' = Fields
  BY <1>1, <1>4
<1>5. (pc' = "done" \/ Begins) /\ Same /\ DOMAIN result' = Fields
  <2>1. CASE FirstArg
    <3>1. \/ pc' = "done" /\ result' = result
          \/ Search(At("ret").type, FALSE, "sib", "firsttype") /\ result' = result
          \/ Record(8)
      BY <2>1 DEF FirstArg, Argument, Finish
    <3> QED
      BY <1>2, <1>3, <1>4, <3>1 DEF Counting
  <2>2. CASE NextArg
    <3>1. \/ pc' = "done" /\ result' = result
          \/ Search(At("ret").type, FALSE, "sib", "nexttype") /\ result' = result
          \/ Record(ret_val)
      BY <2>2 DEF NextArg, Argument, Finish
    <3> QED
      BY <1>2, <1>3, <1>4, <3>1 DEF Counting
  <2>3. CASE FirstType
    <3>1. \/ Search(At("sib").type, FALSE, "sib", "firsttype") /\ result' = result
          \/ Record(IF At("sib").size # 0 THEN At("sib").size ELSE ret_val)
      BY <2>3 DEF FirstType
    <3> QED
      BY <1>2, <1>3, <1>4, <3>1 DEF Counting
  <2>4. CASE NextType
    <3>1. Record(IF At("sib").size # 0 THEN At("sib").size ELSE ret_val)
      BY <2>4 DEF NextType
    <3> QED
      BY <1>2, <3>1
  <2> QED
    BY <1>1, <2>1, <2>2, <2>3, <2>4
<1>6. /\ Matches' = Matches /\ addr' \in Addrs /\ Readable(unit)'
  BY <1>1, MatchesKept DEF FoundInv, Readable
<1>7. Answer'
  <2>1. result'.answer = result.answer /\ result'.fn = result.fn /\ result'.name = result.name
    BY <1>5
  <2> QED
    BY <1>1, <1>6, <2>1 DEF Answer, Entry
<1>8. CASE pc' = "done"
  <2>1. Matches' # {}
    BY <1>7 DEF Answer
  <2> QED
    BY <1>5, <1>6, <1>7, <1>8, <2>1 DEF FoundInv, Counting
<1>9. CASE Begins
  <2>1. PICK o, b, i : \E t \in Counting : search' = Begun(o, b, i, t)
    BY <1>9
  <2>2. PICK t \in Counting : search' = Begun(o, b, i, t)
    BY <2>1
  <2>3. search'.then = t
    BY <2>2 DEF Begun
  <2>4. search'.then \notin Looking
    BY <2>3 DEF Looking, Counting
  <2> QED
    BY <1>5, <1>6, <1>7, <1>9, <2>4 DEF FoundInv, Counting
<1> QED
  BY <1>5, <1>8, <1>9

\* What the walk keeps and what it passes, together.
LEMMA WalkInvStarts == Init => WalkInv /\ FoundInv
<1> SUFFICES ASSUME Init
             PROVE  WalkInv /\ FoundInv
  OBVIOUS
<1>1. /\ info \in Infos /\ addr \in Addrs /\ pc = "cu" /\ unit = 0 /\ DOMAIN die = Structures
      /\ result = [answer |-> -1, fn |-> 0, name |-> NoName, args |-> << >>]
  BY DEF Init, Structures
<1>2. InfoOK(info)
  BY <1>1, DebugLookupAssumption
<1>3. WalkInv
  <2>1. Len(info.units) \in Nat
    BY <1>2 DEF InfoOK
  <2> QED
    BY <1>1, <2>1 DEF WalkInv
<1>4. Ahead(1)
  BY <1>2, MatchIs DEF Ahead
<1>5. Readable(unit)
  BY <1>1 DEF Readable
<1>6. DOMAIN result = Fields
  BY <1>1 DEF Fields
<1> QED
  BY <1>1, <1>3, <1>4, <1>5, <1>6 DEF FoundInv, Counting

\* Every step keeps both.
LEMMA FoundInvKept ==
  ASSUME WalkInv, FoundInv, [Next]_vars
  PROVE  FoundInv'
<1>1. CASE EndOfUnit \/ NullEntry \/ DieEntry
  BY <1>1, EndOfUnitPasses, NullEntryPasses, DieEntryPasses
<1>2. CASE GetNextCu \/ CuDie \/ Child \/ NextSibling
  BY <1>2, GetNextCuPasses, CuDiePasses, HandOnPasses
<1>3. CASE NotHere \/ Here
  BY <1>3, NotHerePasses, HereFinds
<1>4. CASE FirstArg \/ NextArg \/ FirstType \/ NextType
  BY <1>4, ArgumentsPass
<1>5. CASE UNCHANGED vars
  <2>1. UNCHANGED <<info, addr, pc, unit, die, found, search, result>>
    BY <1>5 DEF vars
  <2>2. Matches' = Matches /\ Unit' = Unit /\ (Answer <=> Answer')
    BY <2>1, MatchesKept DEF Unit, Answer, Entry
  <2> QED
    BY <2>1, <2>2 DEF FoundInv, Ahead, Named, Readable, Entry
<1> QED
  BY <1>1, <1>2, <1>3, <1>4, <1>5 DEF Next

(* debuginfo_rip() finds a function exactly if one of a unit it can read   *)
(* contains the address, it is the first one, and a name it has is the     *)
(* name shown: kern/kdebug.c: "Returns 0 if information was found, and     *)
(* negative if not".                                                       *)
THEOREM FunctionIsFound == Spec => []FunctionFound
<1>1. WalkInv /\ FoundInv /\ [Next]_vars => (WalkInv /\ FoundInv)'
  BY WalkInvKept, FoundInvKept
<1>2. FoundInv => FunctionFound
  BY DEF FoundInv, FunctionFound, Answer
<1> QED
  BY WalkInvStarts, <1>1, <1>2, PTL DEF Spec

---------------------------------------------------------------------------
\* The arguments that are counted.

\* What is in front of k among the children of f are n parameters.
Lead(f, k, n) ==
  LET before == {q \in Children(f) : q < k}
  IN  n = Cardinality(before) /\ \A q \in before : Entry(q).tag = "param"

Counted(k) == Lead(result.fn, k, Len(result.args))

\* The parameters that lead the children of f.
Leading(f) ==
  {q \in Children(f) : \A r \in Children(f) : r <= q => Entry(r).tag = "param"}

\* The argument at work: its type is looked up elsewhere, its place stays.
AtArgument == die["ret"].at \in Children(result.fn) /\ Counted(die["ret"].at)

ArgumentSearch(s) ==
  /\ s.into = "ret" /\ s.level \in Nat /\ s.sibling \in BOOLEAN
  /\ s.off \in result.fn + 1 .. After(result.fn) - 1
  /\ Nesting(s.off) = IF s.sibling THEN 2 + s.level ELSE 2
  /\ Counted(s.off)

AtWork == pc \in Counting \/ (pc = "search" /\ search.then \in Counting)

(* The search for the next argument stays among the entries of the         *)
(* function, and passes none that is next below it.                        *)
ArgsInv ==
  /\ AtWork =>
       /\ TopLevel(result.fn) /\ Entry(result.fn).kids
       /\ \E S : result.args \in Seq(S)
  /\ pc = "search" /\ search.then \in {"firstarg", "nextarg"} => ArgumentSearch(search)
  /\ pc = "search" /\ search.then \in {"firsttype", "nexttype"} =>
       search.into = "sib" /\ AtArgument /\ At("ret").tag = "param"
  /\ pc \in {"firsttype", "nexttype"} => AtArgument /\ At("ret").tag = "param"
  /\ pc \in {"firstarg", "nextarg"} =>
       IF found THEN AtArgument ELSE Counted(After(result.fn))
  /\ pc = "done" /\ result.answer = 0 => Len(result.args) = Cardinality(Leading(result.fn))

\* The children of a function, in terms of the nesting in its unit.
LEMMA FunctionEntries ==
  ASSUME WalkInv, unit # 0, NEW f, TopLevel(f), Entry(f).kids
  PROVE  /\ f \in Nat /\ After(f) \in Nat /\ After(f) \in f + 2 .. Unit.next /\ Nesting(After(f)) = 1
         /\ \A q \in f + 1 .. After(f) - 1 :
              /\ q \in Unit.first .. Unit.next - 1 /\ Nesting(q) > 1
              /\ q \in Children(f) <=> Entry(q).tag # "null" /\ Nesting(q) = 2
         /\ Children(f) \subseteq f + 1 .. After(f) - 1
<1>1. /\ f \in Unit.first .. Unit.next - 1 /\ Entry(f).tag # "null" /\ Nesting(f) = 1
      /\ Unit.first \in Nat /\ Unit.next \in Nat
  BY UnitAtWork DEF TopLevel
<1>2. Nesting(f) >= 1
  BY <1>1
<1>3. UnitOf(f) = unit /\ Level(f) = 1
  BY <1>1, EntryOfUnit
<1>4. After(f) = Sibling(f)
  BY <1>3 DEF After, Sibling, Unit
<1>5. /\ Sibling(f) \in f + 2 .. Unit.next /\ Nesting(Sibling(f)) = 1
      /\ \A q \in f + 1 .. Sibling(f) - 1 : Nesting(q) > 1
  BY <1>1, <1>2, SiblingPast
<1> DEFINE a == After(f)
<1> HIDE DEF a
<1>6. a \in f + 2 .. Unit.next /\ Nesting(a) = 1 /\ \A q \in f + 1 .. a - 1 : Nesting(q) > 1
  BY <1>4, <1>5 DEF a
<1>7. Children(f) = {q \in f + 1 .. a - 1 : IsDie(q) /\ Level(q) = 1 + 1}
  BY <1>3 DEF Children, a
<1>8. ASSUME NEW q \in f + 1 .. a - 1
      PROVE  /\ q \in Unit.first .. Unit.next - 1 /\ Nesting(q) > 1
             /\ q \in Children(f) <=> Entry(q).tag # "null" /\ Nesting(q) = 2
  <2>1. q \in Unit.first .. Unit.next - 1
    BY <1>1, <1>6
  <2>2. Level(q) = Nesting(q)
    BY <2>1, EntryOfUnit
  <2>3. q \in Children(f) <=> IsDie(q) /\ Level(q) = 2
    BY <1>7
  <2> QED
    BY <1>6, <2>1, <2>2, <2>3 DEF IsDie
<1>9. Children(f) \subseteq f + 1 .. a - 1
  BY <1>7
<1>10. f \in Nat /\ a \in Nat
  BY <1>1, <1>6
<1> QED
  BY <1>6, <1>8, <1>9, <1>10 DEF a

\* Nothing is in front of the first.
LEMMA LeadStarts ==
  ASSUME NEW f \in Nat, Children(f) \subseteq Nat, \A q \in Children(f) : q > f
  PROVE  Lead(f, f + 1, 0)
<1>1. {q \in Children(f) : q < f + 1} = {}
  <2> SUFFICES ASSUME NEW q \in Children(f), q < f + 1
               PROVE  FALSE
    OBVIOUS
  <2> QED
    OBVIOUS
<1>2. Cardinality({}) = 0
  BY FS_EmptySet
<1> QED
  BY <1>1, <1>2 DEF Lead

\* What is no child does not count.
LEMMA LeadPasses ==
  ASSUME NEW f, NEW k \in Nat, NEW j \in Nat, NEW n, Children(f) \subseteq Nat, k <= j,
         \A q \in Children(f) : ~(k <= q /\ q < j), Lead(f, k, n)
  PROVE  Lead(f, j, n)
<1>1. \A q \in Children(f) : q < j <=> q < k
  <2> SUFFICES ASSUME NEW q \in Children(f)
               PROVE  q < j <=> q < k
    OBVIOUS
  <2>1. q \in Nat /\ ~(k <= q /\ q < j)
    OBVIOUS
  <2> QED
    BY <2>1
<1>2. {q \in Children(f) : q < j} = {q \in Children(f) : q < k}
  BY <1>1
<1> QED
  BY <1>2 DEF Lead

\* A parameter does.
LEMMA LeadGrows ==
  ASSUME NEW f, NEW k \in Nat, NEW n, IsFiniteSet(Children(f)), Children(f) \subseteq Nat,
         k \in Children(f), Entry(k).tag = "param", Lead(f, k, n)
  PROVE  Lead(f, k + 1, n + 1)
<1> DEFINE B(j) == {q \in Children(f) : q < j}
<1>1. B(k + 1) = B(k) \cup {k} /\ k \notin B(k)
  <2>1. \A q \in Children(f) : q < k + 1 <=> q < k \/ q = k
    OBVIOUS
  <2> QED
    BY <2>1
<1>2. IsFiniteSet(B(k))
  BY FS_Subset
<1>3. n = Cardinality(B(k)) /\ \A q \in B(k) : Entry(q).tag = "param"
  BY DEF Lead
<1> HIDE DEF B
<1>4. Cardinality(B(k + 1)) = n + 1
  BY <1>1, <1>2, <1>3, FS_AddElement
<1>5. \A q \in B(k + 1) : Entry(q).tag = "param"
  BY <1>1, <1>3
<1> QED
  BY <1>4, <1>5 DEF Lead, B

\* They end with the first child that is none.
LEMMA LeadStops ==
  ASSUME NEW f, NEW k \in Nat, NEW n, Children(f) \subseteq Nat, Lead(f, k, n),
         (k \in Children(f) /\ Entry(k).tag # "param") \/ \A q \in Children(f) : q < k
  PROVE  n = Cardinality(Leading(f))
<1> DEFINE B == {q \in Children(f) : q < k}
<1>1. n = Cardinality(B) /\ \A q \in B : Entry(q).tag = "param"
  BY DEF Lead
<1>2. ASSUME NEW q \in B
      PROVE  q \in Leading(f)
  <2> SUFFICES ASSUME NEW r \in Children(f), r <= q
               PROVE  Entry(r).tag = "param"
    BY DEF Leading
  <2>1. r \in Nat /\ q \in Nat /\ q < k
    OBVIOUS
  <2>2. r < k
    BY <2>1
  <2>3. r \in B
    BY <2>2
  <2> HIDE DEF B
  <2> QED
    BY <1>1, <2>3
<1>3. ASSUME NEW q \in Leading(f)
      PROVE  q \in B
  <2>1. q \in Children(f) /\ q \in Nat /\ \A r \in Children(f) : r <= q => Entry(r).tag = "param"
    BY DEF Leading
  <2>2. q < k
    <3>1. CASE k \in Children(f) /\ Entry(k).tag # "param"
      BY <2>1, <3>1
    <3>2. CASE \A r \in Children(f) : r < k
      BY <2>1, <3>2
    <3> QED
      BY <3>1, <3>2
  <2> QED
    BY <2>1, <2>2
<1> HIDE DEF B
<1>4. B = Leading(f)
  BY <1>2, <1>3
<1> QED
  BY <1>1, <1>4

\* The children of f are finitely many numbers behind it.
LEMMA ChildrenFinite ==
  ASSUME WalkInv, unit # 0, NEW f, TopLevel(f), Entry(f).kids
  PROVE  /\ IsFiniteSet(Children(f)) /\ Children(f) \subseteq Nat
         /\ \A q \in Children(f) : q > f /\ q < After(f)
<1>1. f \in Nat /\ After(f) \in Nat /\ Children(f) \subseteq f + 1 .. After(f) - 1
  BY FunctionEntries
<1> DEFINE a == After(f)
<1> HIDE DEF a
<1>2. a \in Nat /\ Children(f) \subseteq f + 1 .. a - 1
  BY <1>1 DEF a
<1>3. IsFiniteSet(f + 1 .. a - 1)
  <2>1. f + 1 \in Int /\ a - 1 \in Int
    BY <1>1, <1>2
  <2> QED
    BY <2>1, FS_Interval
<1>4. IsFiniteSet(Children(f))
  BY <1>2, <1>3, FS_Subset
<1>5. \A q \in Children(f) : q \in Nat /\ q > f /\ q < a
  BY <1>1, <1>2
<1> QED
  BY <1>4, <1>5 DEF a

\* What a child has below it is passed with it.
LEMMA LeadBehindChild ==
  ASSUME WalkInv, unit # 0, NEW f, TopLevel(f), Entry(f).kids, NEW n,
         NEW p \in Children(f), Entry(p).kids, Lead(f, p + 1, n)
  PROVE  /\ Sibling(p) \in f + 1 .. After(f) - 1 /\ Nesting(Sibling(p)) = 2
         /\ Lead(f, Sibling(p), n)
<1> DEFINE a == After(f)
           s == Sibling(p)
<1>1. /\ f \in Nat /\ a \in Nat /\ a \in f + 2 .. Unit.next /\ Nesting(a) = 1
      /\ p \in f + 1 .. a - 1 /\ p \in Unit.first .. Unit.next - 1
      /\ Entry(p).tag # "null" /\ Nesting(p) = 2
  BY FunctionEntries
<1>2. Nesting(p) >= 1 /\ Unit.next \in Nat
  BY <1>1, UnitAtWork
<1>3. s \in p + 2 .. Unit.next /\ Nesting(s) = 2 /\ \A q \in p + 1 .. s - 1 : Nesting(q) > 2
  BY <1>1, <1>2, SiblingPast
<1>4. \A q \in Children(f) : q \in Nat /\ Nesting(q) = 2
  BY FunctionEntries, ChildrenFinite
<1>5. Children(f) \subseteq Nat
  BY ChildrenFinite
<1> HIDE DEF a, s
<1>6. p \in Nat /\ s \in Nat /\ p + 1 \in Nat /\ p + 1 <= s
  BY <1>1, <1>2, <1>3
<1>7. ~(a <= s)
  <2> SUFFICES ASSUME a <= s
               PROVE  FALSE
    OBVIOUS
  <2>1. a # s
    BY <1>1, <1>3
  <2>2. a \in p + 1 .. s - 1
    BY <1>1, <1>6, <2>1
  <2>3. Nesting(a) > 2
    BY <1>3, <2>2
  <2> QED
    BY <1>1, <2>3
<1>8. \A q \in Children(f) : ~(p + 1 <= q /\ q < s)
  <2> SUFFICES ASSUME NEW q \in Children(f), p + 1 <= q, q < s
               PROVE  FALSE
    OBVIOUS
  <2>1. q \in p + 1 .. s - 1 /\ Nesting(q) = 2
    BY <1>4, <1>6
  <2>2. Nesting(q) > 2
    BY <1>3, <2>1
  <2> QED
    BY <2>1, <2>2
<1>9. Lead(f, s, n)
  BY <1>5, <1>6, <1>8, LeadPasses
<1>10. s \in f + 1 .. a - 1
  BY <1>1, <1>6, <1>7
<1> QED
  BY <1>3, <1>9, <1>10 DEF a, s

\* The children of a function stay the same.
LEMMA ChildrenKept ==
  ASSUME info' = info
  PROVE  /\ \A f : Children(f)' = Children(f) /\ After(f)' = After(f)
         /\ \A f, k, n : Lead(f, k, n)' <=> Lead(f, k, n)
         /\ \A f : Leading(f)' = Leading(f)
<1>1. \A p : UnitOf(p)' = UnitOf(p)
  BY DEF UnitOf
<1>2. \A p : Level(p)' = Level(p)
  BY <1>1 DEF Level
<1>3. \A p : After(p)' = After(p) /\ (IsDie(p)' <=> IsDie(p)) /\ Entry(p)' = Entry(p)
  BY <1>1 DEF After, IsDie, Entry
<1>4. \A f : Children(f)' = Children(f)
  BY <1>2, <1>3 DEF Children
<1> QED
  BY <1>3, <1>4 DEF Lead, Leading

\* While the walk looks for the function no argument is counted.
LEMMA LookingCounts ==
  ASSUME pc' \in Looking \cup {"cu", "list"} \/ (pc' = "search" /\ search'.then \in Looking)
  PROVE  ArgsInv'
<1>1. /\ pc' \notin {"done", "firstarg", "nextarg", "firsttype", "nexttype"}
      /\ pc' = "search" => search'.then \notin {"firstarg", "nextarg", "firsttype", "nexttype"}
  BY DEF Looking
<1>2. ~AtWork'
  BY <1>1 DEF AtWork, Counting
<1> QED
  BY <1>1, <1>2 DEF ArgsInv

\* What a search for an argument begins with, or goes on with.
LEMMA ArgumentSearchKept ==
  ASSUME info' = info, unit' = unit, result'.fn = result.fn, Len(result'.args) = Len(result.args),
         NEW s, search' = s, ArgumentSearch(s)
  PROVE  ArgumentSearch(search)'
<1>1. Unit' = Unit /\ After(result.fn)' = After(result.fn)
  BY ChildrenKept DEF Unit
<1>2. Counted(search.off)' <=> Counted(s.off)
  BY ChildrenKept DEF Counted
<1>3. Nesting(search.off)' = Nesting(s.off)
  BY <1>1 DEF Nesting
<1> QED
  BY <1>1, <1>2, <1>3 DEF ArgumentSearch

\* The function stays where it is.
LEMMA FunctionKept ==
  ASSUME info' = info, unit' = unit, result'.fn = result.fn, TopLevel(result.fn), Entry(result.fn).kids
  PROVE  TopLevel(result.fn)' /\ Entry(result.fn)'.kids
BY DEF TopLevel, Nesting, Unit, Entry

\* An argument search ends at a null entry only behind the last child.
LEMMA LastArgument ==
  ASSUME WalkInv, ArgsInv, pc = "search", search.then \in {"firstarg", "nextarg"},
         Entry(search.off).tag = "null", search.level = 0 \/ ~search.sibling
  PROVE  Counted(After(result.fn))
<1> DEFINE f == result.fn
           a == After(f)
           o == search.off
<1>1. /\ unit # 0 /\ ArgumentSearch(search) /\ TopLevel(f) /\ Entry(f).kids
  BY DEF WalkInv, ArgsInv, AtWork, Counting
<1>2. /\ o \in f + 1 .. a - 1 /\ Counted(o)
      /\ Nesting(o) = IF search.sibling THEN 2 + search.level ELSE 2
  BY <1>1 DEF ArgumentSearch
<1>3. Nesting(o) = 2
  BY <1>2
<1>4. /\ f \in Nat /\ a \in Nat /\ o \in Unit.first .. Unit.next - 1 /\ o \notin Children(f)
      /\ \A q \in f + 1 .. a - 1 : Nesting(q) > 1
  BY <1>1, <1>2, FunctionEntries
<1>5. Nesting(o + 1) = 1
  <2>1. Nesting(o + 1) = Nesting(o) - 1
    BY <1>1, <1>4, NestingStep
  <2> QED
    BY <1>3, <2>1
<1>6. Children(f) \subseteq Nat
  BY <1>1, ChildrenFinite
<1> HIDE DEF f, a, o
<1>7. o + 1 = a /\ o \in Nat /\ o + 1 \in Nat /\ o <= o + 1
  <2>1. ~(o + 1 \in f + 1 .. a - 1)
    BY <1>4, <1>5
  <2> QED
    BY <1>2, <1>4, <2>1
<1>8. \A q \in Children(f) : ~(o <= q /\ q < o + 1)
  BY <1>4, <1>6, <1>7
<1>9. Lead(f, o, Len(result.args))
  BY <1>2 DEF Counted, f
<1>10. Lead(f, o + 1, Len(result.args))
  BY <1>6, <1>7, <1>8, <1>9, LeadPasses
<1> QED
  BY <1>7, <1>10 DEF Counted, f, a, o

\* A search comes to an end without an entry.
LEMMA NotFoundCounts ==
  ASSUME WalkInv, ArgsInv, pc = "search", Return(FALSE),
         search.then \in {"firstarg", "nextarg"} => Counted(After(result.fn)),
         UNCHANGED <<info, addr, unit, die, result>>
  PROVE  ArgsInv'
<1>1. pc' = search.then /\ found' = FALSE /\ search.then \in Looking \cup Counting
  BY DEF Return, WalkInv, SearchFor, Purposes, Looking, Counting
<1>2. CASE search.then \in Looking
  BY <1>1, <1>2, LookingCounts
<1>3. CASE search.then \in Counting
  <2>1. TopLevel(result.fn) /\ Entry(result.fn).kids /\ \E S : result.args \in Seq(S)
    BY <1>3 DEF ArgsInv, AtWork
  <2>2. TopLevel(result.fn)' /\ Entry(result.fn)'.kids /\ (\E S : result.args \in Seq(S))'
    BY <2>1, FunctionKept
  <2>3. search.then \in {"firsttype", "nexttype"} => (AtArgument /\ At("ret").tag = "param")'
    <3>1. search.then \in {"firsttype", "nexttype"} => AtArgument /\ At("ret").tag = "param"
      BY DEF ArgsInv
    <3> QED
      BY <3>1, ChildrenKept DEF AtArgument, Counted, At, Entry
  <2>4. search.then \in {"firstarg", "nextarg"} => Counted(After(result.fn))'
    BY ChildrenKept DEF Counted
  <2>5. pc' \notin {"search", "done"}
    BY <1>1, <1>3 DEF Counting
  <2> QED
    BY <1>1, <2>2, <2>3, <2>4, <2>5 DEF ArgsInv, Counting
<1> QED
  BY <1>1, <1>2, <1>3

\* The entries of a function end before its unit does.
LEMMA EndOfUnitCounts ==
  ASSUME WalkInv, ArgsInv, EndOfUnit
  PROVE  ArgsInv'
<1>1. /\ pc = "search" /\ search.off >= Unit.next /\ Return(FALSE) /\ unit # 0
      /\ UNCHANGED <<info, addr, unit, die, result>>
  BY DEF EndOfUnit, WalkInv
<1>2. search.then \notin {"firstarg", "nextarg"}
  <2> SUFFICES ASSUME search.then \in {"firstarg", "nextarg"}
               PROVE  FALSE
    OBVIOUS
  <2>1. ArgumentSearch(search) /\ TopLevel(result.fn) /\ Entry(result.fn).kids
    BY <1>1 DEF ArgsInv, AtWork, Counting
  <2>2. search.off \in Unit.first .. Unit.next - 1
    BY <1>1, <2>1, FunctionEntries DEF ArgumentSearch
  <2>3. Unit.first \in Nat /\ Unit.next \in Nat
    BY <1>1, UnitAtWork
  <2> QED
    BY <1>1, <2>2, <2>3
<1> QED
  BY <1>1, <1>2, NotFoundCounts

\* Within the children of an argument the search goes on to the next entry.
LEMMA ArgumentGoesOn ==
  ASSUME WalkInv, ArgsInv, pc = "search", search.then \in {"firstarg", "nextarg"},
         search.sibling, search.level > 0,
         NEW n, n = IF Entry(search.off).tag = "null" THEN search.level - 1
                    ELSE IF Entry(search.off).kids THEN search.level + 1 ELSE search.level,
         NEW s, s.off = search.off + 1, s.level = n, s.sibling = search.sibling, s.into = search.into
  PROVE  ArgumentSearch(s)
<1> DEFINE f == result.fn
           a == After(f)
           o == search.off
<1>1. /\ unit # 0 /\ ArgumentSearch(search) /\ TopLevel(f) /\ Entry(f).kids
  BY DEF WalkInv, ArgsInv, AtWork, Counting
<1>2. /\ search.into = "ret" /\ search.level \in Nat /\ search.sibling = TRUE
      /\ o \in f + 1 .. a - 1 /\ Counted(o) /\ Nesting(o) = 2 + search.level
  BY <1>1 DEF ArgumentSearch
<1>3. /\ f \in Nat /\ a \in Nat /\ o \in Unit.first .. Unit.next - 1 /\ Nesting(a) = 1
      /\ o \in Children(f) => Nesting(o) = 2
  BY <1>1, <1>2, FunctionEntries
<1>4. Children(f) \subseteq Nat /\ o \notin Children(f)
  BY <1>1, <1>2, <1>3, ChildrenFinite
<1>5. n \in Nat /\ Nesting(o + 1) = 2 + n
  <2>1. /\ Entry(o).tag = "null" => Nesting(o + 1) = Nesting(o) - 1
        /\ Entry(o).tag # "null" /\ Entry(o).kids => Nesting(o + 1) = Nesting(o) + 1
        /\ Entry(o).tag # "null" /\ ~Entry(o).kids => Nesting(o + 1) = Nesting(o)
    BY <1>1, <1>3, NestingStep
  <2> QED
    BY <1>2, <2>1
<1> HIDE DEF f, a, o
<1>6. o + 1 \in f + 1 .. a - 1 /\ o \in Nat /\ o + 1 \in Nat /\ o <= o + 1
  <2>1. o + 1 # a
    BY <1>3, <1>5
  <2> QED
    BY <1>2, <1>3, <2>1
<1>7. \A q \in Children(f) : ~(o <= q /\ q < o + 1)
  BY <1>4, <1>6
<1>8. Lead(f, o, Len(result.args))
  BY <1>2 DEF Counted, f
<1>9. Lead(f, o + 1, Len(result.args))
  BY <1>4, <1>6, <1>7, <1>8, LeadPasses
<1>10. Counted(s.off)
  BY <1>9 DEF Counted, f, o
<1>11. /\ s.off = o + 1 /\ s.into = "ret" /\ s.level \in Nat /\ s.sibling = TRUE
       /\ Nesting(s.off) = 2 + s.level
  BY <1>2, <1>5 DEF o
<1>12. s.off \in result.fn + 1 .. After(result.fn) - 1
  BY <1>6, <1>11 DEF f, a
<1> QED
  BY <1>10, <1>11, <1>12 DEF ArgumentSearch

\* A search is carried on from one entry to the next.
LEMMA GoesOnCounts ==
  ASSUME WalkInv, ArgsInv, pc = "search", pc' = "search",
         NEW s, search' = s, s.then = search.then, s.into = search.into,
         search.then \in {"firstarg", "nextarg"} => ArgumentSearch(s),
         UNCHANGED <<info, addr, unit, result>>,
         search.then \in {"firsttype", "nexttype"} => die'["ret"] = die["ret"]
  PROVE  ArgsInv'
<1>1. search.then \in Looking \cup Counting
  BY DEF WalkInv, SearchFor, Purposes, Looking, Counting
<1>2. CASE search.then \in Looking
  BY <1>2, LookingCounts
<1>3. CASE search.then \in Counting
  <2>1. TopLevel(result.fn) /\ Entry(result.fn).kids /\ \E S : result.args \in Seq(S)
    BY <1>3 DEF ArgsInv, AtWork
  <2>2. TopLevel(result.fn)' /\ Entry(result.fn)'.kids /\ (\E S : result.args \in Seq(S))'
    BY <2>1, FunctionKept
  <2>3. search.then \in {"firsttype", "nexttype"} =>
          (search.into = "sib" /\ AtArgument /\ At("ret").tag = "param")'
    <3>1. search.then \in {"firsttype", "nexttype"} =>
            search.into = "sib" /\ AtArgument /\ At("ret").tag = "param"
      BY DEF ArgsInv
    <3> QED
      BY <3>1, ChildrenKept DEF AtArgument, Counted, At, Entry
  <2>4. search.then \in {"firstarg", "nextarg"} => ArgumentSearch(search)'
    BY ArgumentSearchKept
  <2> QED
    BY <2>2, <2>3, <2>4 DEF ArgsInv, Counting
<1> QED
  BY <1>1, <1>2, <1>3

\* A null entry ends a search, or the children of an entry in it.
LEMMA NullEntryCounts ==
  ASSUME WalkInv, ArgsInv, NullEntry
  PROVE  ArgsInv'
<1>1. /\ pc = "search" /\ Entry(search.off).tag = "null" /\ SearchFor(search)
      /\ UNCHANGED <<info, addr, unit, die, result>>
  BY DEF NullEntry, WalkInv
<1>2. CASE search.level = 0 \/ ~search.sibling
  <2>1. Return(FALSE)
    BY <1>2 DEF NullEntry
  <2>2. search.then \in {"firstarg", "nextarg"} => Counted(After(result.fn))
    BY <1>1, <1>2, LastArgument
  <2> QED
    BY <1>1, <2>1, <2>2, NotFoundCounts
<1>3. CASE ~(search.level = 0 \/ ~search.sibling)
  <2> DEFINE s == [search EXCEPT !.off = @ + 1, !.level = @ - 1]
  <2>1. search' = s /\ pc' = "search"
    BY <1>3 DEF NullEntry
  <2>2. search = [off |-> search.off, level |-> search.level, sibling |-> search.sibling,
                  into |-> search.into, then |-> search.then]
    BY <1>1 DEF SearchFor
  <2>3. s = [off |-> search.off + 1, level |-> search.level - 1, sibling |-> search.sibling,
             into |-> search.into, then |-> search.then]
    BY <2>2, GoesOn
  <2>4. /\ s.off = search.off + 1 /\ s.level = search.level - 1 /\ s.sibling = search.sibling
        /\ s.into = search.into /\ s.then = search.then
    BY <2>3
  <2> HIDE DEF s
  <2>5. search.then \in {"firstarg", "nextarg"} => ArgumentSearch(s)
    <3> SUFFICES ASSUME search.then \in {"firstarg", "nextarg"}
                 PROVE  ArgumentSearch(s)
      OBVIOUS
    <3>1. search.level \in Nat /\ search.sibling \in BOOLEAN
      BY <1>1 DEF ArgsInv, ArgumentSearch
    <3>2. search.sibling /\ search.level > 0
      BY <1>3, <3>1
    <3> QED
      BY <1>1, <2>4, <3>2, ArgumentGoesOn
  <2> QED
    BY <1>1, <2>1, <2>4, <2>5, GoesOnCounts
<1> QED
  BY <1>2, <1>3

\* Reading into one structure leaves the others.
LEMMA OthersStay ==
  ASSUME NEW d, NEW e, e # d, NEW p, ParseDie(d, p), DOMAIN die = Structures, e \in Structures
  PROVE  die'[e] = die[e]
<1> DEFINE v == [at |-> p, name |-> IF Entry(p).name = NoName THEN die[d].name ELSE Entry(p).name]
<1>1. die' = [die EXCEPT ![d] = v]
  BY DEF ParseDie
<1> HIDE DEF v
<1> QED
  BY <1>1

\* An entry that ends a search for an argument is the next child.
LEMMA DieEntryCounts ==
  ASSUME WalkInv, ArgsInv, DieEntry
  PROVE  ArgsInv'
<1>1. /\ pc = "search" /\ Entry(search.off).tag # "null" /\ SearchFor(search) /\ unit # 0
      /\ UNCHANGED <<info, addr, unit, result>> /\ ParseDie(search.into, search.off)
      /\ DOMAIN die = Structures /\ search.then \in Looking \cup Counting
  BY DEF DieEntry, WalkInv, SearchFor, Purposes, Looking, Counting
<1>2. search.then \in {"firsttype", "nexttype"} => die'["ret"] = die["ret"]
  <2>1. search.then \in {"firsttype", "nexttype"} => search.into = "sib"
    BY <1>1 DEF ArgsInv
  <2> QED
    BY <1>1, <2>1, OthersStay DEF Structures
<1>3. CASE ~(search.sibling /\ search.level > 0)
  <2>1. pc' = search.then /\ found' = TRUE
    BY <1>1, <1>3 DEF DieEntry, Return
  <2>2. CASE search.then \in Looking
    BY <2>1, <2>2, LookingCounts
  <2>3. CASE search.then \in Counting
    <3>1. TopLevel(result.fn) /\ Entry(result.fn).kids /\ \E S : result.args \in Seq(S)
      BY <1>1, <2>3 DEF ArgsInv, AtWork
    <3>2. TopLevel(result.fn)' /\ Entry(result.fn)'.kids /\ (\E S : result.args \in Seq(S))'
      BY <1>1, <3>1, FunctionKept
    <3>3. search.then \in {"firsttype", "nexttype"} => (AtArgument /\ At("ret").tag = "param")'
      <4>1. search.then \in {"firsttype", "nexttype"} => AtArgument /\ At("ret").tag = "param"
        BY <1>1 DEF ArgsInv
      <4> QED
        BY <1>1, <1>2, <4>1, ChildrenKept DEF AtArgument, Counted, At, Entry
    <3>4. search.then \in {"firstarg", "nextarg"} => AtArgument'
      <4> SUFFICES ASSUME search.then \in {"firstarg", "nextarg"}
                   PROVE  AtArgument'
        OBVIOUS
      <4>1. ArgumentSearch(search)
        BY <1>1 DEF ArgsInv
      <4>2. Nesting(search.off) = 2
        BY <1>3, <4>1 DEF ArgumentSearch
      <4>3. search.off \in Children(result.fn) /\ Counted(search.off) /\ search.into = "ret"
        BY <1>1, <3>1, <4>1, <4>2, FunctionEntries DEF ArgumentSearch
      <4>4. die'["ret"].at = search.off
        BY <1>1, <4>3, Parsed DEF Structures
      <4> QED
        BY <1>1, <4>3, <4>4, ChildrenKept DEF AtArgument, Counted
    <3>5. pc' \notin {"search", "done"}
      BY <2>1, <2>3 DEF Counting
    <3> QED
      BY <1>1, <2>1, <3>2, <3>3, <3>4, <3>5 DEF ArgsInv, Counting
  <2> QED
    BY <1>1, <2>2, <2>3
<1>4. CASE search.sibling /\ search.level > 0
  <2> DEFINE n == IF Entry(search.off).kids THEN search.level + 1 ELSE search.level
             s == [search EXCEPT !.off = @ + 1, !.level = n]
  <2>1. search' = s /\ pc' = "search"
    BY <1>4 DEF DieEntry
  <2>2. search = [off |-> search.off, level |-> search.level, sibling |-> search.sibling,
                  into |-> search.into, then |-> search.then]
    BY <1>1 DEF SearchFor
  <2>3. n = IF Entry(search.off).tag = "null" THEN search.level - 1
            ELSE IF Entry(search.off).kids THEN search.level + 1 ELSE search.level
    BY <1>1
  <2> HIDE DEF n
  <2>4. s = [off |-> search.off + 1, level |-> n, sibling |-> search.sibling,
             into |-> search.into, then |-> search.then]
    BY <2>2, GoesOn
  <2>5. /\ s.off = search.off + 1 /\ s.level = n /\ s.sibling = search.sibling
        /\ s.into = search.into /\ s.then = search.then
    BY <2>4
  <2> HIDE DEF s
  <2>6. search.then \in {"firstarg", "nextarg"} => ArgumentSearch(s)
    BY <1>1, <1>4, <2>3, <2>5, ArgumentGoesOn
  <2> QED
    BY <1>1, <1>2, <2>1, <2>5, <2>6, GoesOnCounts
<1> QED
  BY <1>3, <1>4

\* The walk up to the function counts nothing.
LEMMA WalkCounts ==
  ASSUME WalkInv, FoundInv, ArgsInv, GetNextCu \/ CuDie \/ Child \/ NextSibling \/ NotHere
  PROVE  ArgsInv'
<1>1. CASE GetNextCu
  <2>1. \/ pc' = "search" /\ \E o, b, i : search' = Begun(o, b, i, "cudie")
        \/ pc' = "done" /\ result' = [result EXCEPT !.answer = -1]
    BY <1>1 DEF GetNextCu, Search, Begun, Finish
  <2>2. CASE pc' = "search" /\ \E o, b, i : search' = Begun(o, b, i, "cudie")
    <3>1. search'.then = "cudie"
      BY <2>2 DEF Begun
    <3> QED
      BY <2>2, <3>1, LookingCounts DEF Looking
  <2>3. CASE pc' = "done" /\ result' = [result EXCEPT !.answer = -1]
    <3>1. "answer" \in DOMAIN result
      BY DEF FoundInv, Fields
    <3>2. result'.answer = -1
      BY <2>3, <3>1
    <3> QED
      BY <2>3, <3>2 DEF ArgsInv, AtWork, Counting
  <2> QED
    BY <2>1, <2>2, <2>3
<1>2. CASE CuDie
  <2>1. pc' = "cu" \/ (pc' = "search" /\ \E o, b, i : search' = Begun(o, b, i, "child"))
    BY <1>2 DEF CuDie, Search, Begun
  <2>2. pc' = "cu" \/ (pc' = "search" /\ search'.then = "child")
    BY <2>1 DEF Begun
  <2> QED
    BY <2>2, LookingCounts DEF Looking
<1>3. CASE Child \/ NextSibling
  <2>1. pc' \in {"cu", "list"}
    BY <1>3 DEF Child, NextSibling
  <2> QED
    BY <2>1, LookingCounts
<1>4. CASE NotHere
  <2>1. SiblingOf("die", "die2", "sibling")
    BY <1>4 DEF NotHere
  <2>2. pc' = "search" /\ \E o, b : search' = Begun(o, b, "die2", "sibling")
    BY <2>1, SiblingSearch
  <2>3. search'.then = "sibling"
    BY <2>2 DEF Begun
  <2> QED
    BY <2>2, <2>3, LookingCounts DEF Looking
<1> QED
  BY <1>1, <1>2, <1>3, <1>4

\* The first argument is looked for right behind the function.
LEMMA HereCounts ==
  ASSUME WalkInv, FoundInv, ArgsInv, Here
  PROVE  ArgsInv'
<1> DEFINE p == die["die"].at
           r == [answer |-> 0, fn |-> p, name |-> die["die"].name, args |-> << >>]
<1>1. /\ pc = "list" /\ unit # 0 /\ TopLevel(p)
      /\ UNCHANGED <<info, addr, unit, found>> /\ result' = r
  BY DEF Here, WalkInv, At, Finish
<1>2. r.answer = 0 /\ r.fn = p /\ r.args = << >>
  OBVIOUS
<1> HIDE DEF r
<1>3. CASE ~Entry(p).kids
  <2>1. pc' = "done"
    BY <1>3 DEF Here, At, Finish
  <2>2. Leading(p) = {}
    <3>1. p \in Nat
      BY <1>1, UnitAtWork DEF TopLevel
    <3>2. Children(p) = {}
      <4>1. p + 1 .. (p + 1) - 1 = {}
        BY <3>1
      <4>2. After(p) = p + 1
        BY <1>3 DEF After
      <4> QED
        BY <4>1, <4>2 DEF Children
    <3> QED
      BY <3>2 DEF Leading
  <2>3. Len(<< >>) = 0 /\ Cardinality({}) = 0
    BY FS_EmptySet
  <2>4. Len(result'.args) = Cardinality(Leading(result.fn)')
    <3>1. Leading(result.fn)' = {}
      BY <1>1, <1>2, <2>2, ChildrenKept
    <3> QED
      BY <1>1, <1>2, <2>3, <3>1
  <2> QED
    BY <2>1, <2>4 DEF ArgsInv, AtWork, Counting
<1>4. CASE Entry(p).kids
  <2> DEFINE s == Begun(p + 1, FALSE, "ret", "firstarg")
  <2>1. pc' = "search" /\ search' = s
    BY <1>4 DEF Here, At, Search, Begun
  <2>2. s.off = p + 1 /\ s.level = 1 /\ s.sibling = FALSE /\ s.into = "ret" /\ s.then = "firstarg"
    BY DEF Begun
  <2> HIDE DEF s
  <2>3. /\ p \in Nat /\ After(p) \in Nat /\ After(p) \in p + 2 .. Unit.next
        /\ Children(p) \subseteq Nat /\ \A q \in Children(p) : q > p
    BY <1>1, <1>4, FunctionEntries, ChildrenFinite
  <2>4. Lead(p, p + 1, 0)
    BY <2>3, LeadStarts
  <2>5. Nesting(p + 1) = 2
    <3>1. p \in Unit.first .. Unit.next - 1 /\ Entry(p).tag # "null" /\ Nesting(p) = 1
      BY <1>1 DEF TopLevel
    <3>2. Nesting(p + 1) = Nesting(p) + 1
      BY <1>1, <1>4, <3>1, NestingStep
    <3> QED
      BY <3>1, <3>2
  <2>6. p + 1 \in p + 1 .. After(p) - 1
    <3> DEFINE a == After(p)
    <3> HIDE DEF a, p
    <3>1. p \in Nat /\ a \in Nat /\ a \in p + 2 .. Unit.next /\ Unit.next \in Nat
      BY <1>1, <2>3, UnitAtWork DEF a
    <3> QED
      BY <3>1 DEF a
  <2>7. Len(<< >>) = 0 /\ << >> \in Seq({})
    OBVIOUS
  <2>8. Unit' = Unit /\ result'.fn = p /\ result'.args = << >> /\ Len(result'.args) = 0
    BY <1>1, <1>2, <2>7 DEF Unit
  <2>9. ArgumentSearch(search)'
    <3>1. Counted(search.off)'
      <4>1. Counted(search.off)' <=> Lead(p, p + 1, 0)
        BY <1>1, <2>1, <2>2, <2>8, ChildrenKept DEF Counted
      <4> QED
        BY <2>4, <4>1
    <3>2. Nesting(search.off)' = 2
      BY <1>1, <2>1, <2>2, <2>5, <2>8 DEF Nesting
    <3>3. After(result.fn)' = After(p)
      BY <1>1, <2>8, ChildrenKept
    <3>4. search'.off \in result'.fn + 1 .. After(result.fn)' - 1
      BY <2>1, <2>2, <2>6, <2>8, <3>3
    <3>5. search'.into = "ret" /\ search'.level \in Nat /\ search'.sibling = FALSE
      BY <2>1, <2>2
    <3> QED
      BY <3>1, <3>2, <3>4, <3>5 DEF ArgumentSearch
  <2>10. TopLevel(result.fn)' /\ Entry(result.fn)'.kids /\ (\E S : result.args \in Seq(S))'
    <3>1. TopLevel(result.fn)' /\ Entry(result.fn)'.kids
      BY <1>1, <1>4, <2>8 DEF TopLevel, Nesting, Entry
    <3> QED
      BY <2>7, <2>8, <3>1
  <2>11. search'.then = "firstarg"
    BY <2>1, <2>2
  <2> QED
    BY <2>1, <2>9, <2>10, <2>11 DEF ArgsInv, AtWork, Counting
<1> QED
  BY <1>3, <1>4

\* An argument is recorded, and the next is looked for behind it.
LEMMA RecordCounts ==
  ASSUME WalkInv, FoundInv, ArgsInv, pc \in Counting, AtArgument, At("ret").tag = "param",
         NEW size, Record(size), UNCHANGED <<info, addr, unit, found>>
  PROVE  ArgsInv'
<1> DEFINE f == result.fn
           p == die["ret"].at
           n == Len(result.args)
<1>1. /\ unit # 0 /\ TopLevel(f) /\ Entry(f).kids /\ DOMAIN result = Fields
      /\ p \in Children(f) /\ Lead(f, p, n) /\ Entry(p).tag = "param"
  BY DEF WalkInv, FoundInv, ArgsInv, AtWork, AtArgument, Counted, At, Counting
<1>2. PICK S : result.args \in Seq(S)
  BY DEF ArgsInv, AtWork
<1>3. /\ SiblingOf("ret", "ret", "nextarg")
      /\ result' = [result EXCEPT !.args = Append(@, size)]
  BY DEF Record
<1>4. /\ n \in Nat /\ Len(Append(result.args, size)) = n + 1
      /\ Append(result.args, size) \in Seq(S \cup {size})
  <2>1. result.args \in Seq(S \cup {size}) /\ n \in Nat
    BY <1>2
  <2>2. size \in S \cup {size}
    OBVIOUS
  <2> HIDE DEF n
  <2> QED
    BY <2>1, <2>2, <1>2 DEF n
<1>5. result'.fn = f /\ result'.args = Append(result.args, size)
  BY <1>1, <1>3 DEF Fields
<1>6. /\ Children(f) \subseteq Nat /\ IsFiniteSet(Children(f)) /\ p \in Nat
      /\ f \in Nat /\ After(f) \in Nat /\ p \in f + 1 .. After(f) - 1
      /\ p \in Unit.first .. Unit.next - 1 /\ Nesting(p) = 2 /\ Nesting(After(f)) = 1
  <2>1. Children(f) \subseteq Nat /\ IsFiniteSet(Children(f))
    BY <1>1, ChildrenFinite
  <2>2. f \in Nat /\ After(f) \in Nat /\ p \in f + 1 .. After(f) - 1 /\ Nesting(After(f)) = 1
    BY <1>1, FunctionEntries
  <2>3. p \in Unit.first .. Unit.next - 1 /\ Nesting(p) = 2
    BY <1>1, <2>2, FunctionEntries
  <2> QED
    BY <1>1, <2>1, <2>2, <2>3
<1>7. Lead(f, p + 1, n + 1)
  <2> HIDE DEF f, p, n
  <2> QED
    BY <1>1, <1>6, LeadGrows
<1>8. p + 1 \in f + 1 .. After(f) - 1 /\ Nesting(p + 1) = IF Entry(p).kids THEN 3 ELSE 2
  <2>1. /\ Entry(p).kids => Nesting(p + 1) = Nesting(p) + 1
        /\ ~Entry(p).kids => Nesting(p + 1) = Nesting(p)
    BY <1>1, <1>6, NestingStep
  <2>2. Nesting(p + 1) = IF Entry(p).kids THEN 3 ELSE 2
    BY <1>6, <2>1
  <2> DEFINE a == After(f)
  <2> HIDE DEF a, p, f
  <2>3. /\ p \in Nat /\ f \in Nat /\ a \in Nat /\ p \in f + 1 .. a - 1 /\ Nesting(a) = 1
    BY <1>6 DEF a
  <2>4. p + 1 # a
    BY <2>2, <2>3
  <2>5. p + 1 \in f + 1 .. a - 1
    BY <2>3, <2>4
  <2> QED
    BY <2>2, <2>5 DEF a
<1>9. PICK o \in f + 1 .. After(f) - 1, b \in BOOLEAN :
        /\ search' = Begun(o, b, "ret", "nextarg") /\ pc' = "search"
        /\ Nesting(o) = IF b THEN 3 ELSE 2
        /\ Lead(f, o, n + 1)
  <2>1. CASE Entry(p).kids /\ At("ret").sib
    <3>1. search' = Begun(Sibling(p), FALSE, "ret", "nextarg") /\ pc' = "search"
      BY <1>3, <2>1 DEF SiblingOf, Search, Begun, At
    <3>2. Sibling(p) \in f + 1 .. After(f) - 1 /\ Nesting(Sibling(p)) = 2 /\ Lead(f, Sibling(p), n + 1)
      BY <1>1, <1>7, <2>1, LeadBehindChild
    <3> QED
      BY <3>1, <3>2
  <2>2. CASE Entry(p).kids /\ ~At("ret").sib
    <3>1. search' = Begun(p + 1, TRUE, "ret", "nextarg") /\ pc' = "search"
      BY <1>3, <2>2 DEF SiblingOf, Search, Begun, At
    <3> QED
      BY <1>7, <1>8, <2>2, <3>1
  <2>3. CASE ~Entry(p).kids
    <3>1. search' = Begun(p + 1, FALSE, "ret", "nextarg") /\ pc' = "search"
      BY <1>3, <2>3 DEF SiblingOf, Search, Begun, At
    <3> QED
      BY <1>7, <1>8, <2>3, <3>1
  <2> QED
    BY <2>1, <2>2, <2>3
<1> DEFINE s == Begun(o, b, "ret", "nextarg")
<1>10. s.off = o /\ s.level = 1 /\ s.sibling = b /\ s.into = "ret" /\ s.then = "nextarg"
  BY DEF Begun
<1>11. search' = s
  BY <1>9
<1> HIDE DEF s
<1>12. Unit' = Unit /\ Len(result'.args) = n + 1
  BY <1>4, <1>5 DEF Unit
<1>13. ArgumentSearch(search)'
  <2>1. Counted(search.off)'
    <3>1. Counted(search.off)' <=> Lead(f, o, n + 1)
      <4> HIDE DEF n
      <4> QED
        BY <1>5, <1>10, <1>11, <1>12, ChildrenKept DEF Counted
    <3> QED
      BY <1>9, <3>1
  <2>2. Nesting(search.off)' = Nesting(o)
    BY <1>10, <1>11, <1>12 DEF Nesting
  <2>3. After(result.fn)' = After(f)
    BY <1>5, ChildrenKept
  <2>4. search'.off \in result'.fn + 1 .. After(result.fn)' - 1
    BY <1>5, <1>9, <1>10, <1>11, <2>3
  <2>5. search'.into = "ret" /\ search'.level = 1 /\ search'.sibling = b
    BY <1>10, <1>11
  <2>6. Nesting(search.off)' = IF search'.sibling THEN 2 + search'.level ELSE 2
    BY <1>9, <2>2, <2>5
  <2> QED
    BY <1>9, <2>1, <2>4, <2>5, <2>6 DEF ArgumentSearch
<1>14. TopLevel(result.fn)' /\ Entry(result.fn)'.kids /\ (\E T : result.args \in Seq(T))'
  <2>1. TopLevel(result.fn)' /\ Entry(result.fn)'.kids
    BY <1>1, <1>5, <1>12 DEF TopLevel, Nesting, Entry
  <2> QED
    BY <1>4, <1>5, <2>1
<1>15. search'.then = "nextarg"
  BY <1>10, <1>11
<1> QED
  BY <1>9, <1>13, <1>14, <1>15 DEF ArgsInv, AtWork, Counting

\* A type is looked up; the argument stays.
LEMMA TypeCounts ==
  ASSUME ArgsInv, pc \in Counting, AtArgument, At("ret").tag = "param",
         NEW o, NEW t \in {"firsttype", "nexttype"}, Search(o, FALSE, "sib", t),
         UNCHANGED <<info, addr, unit, die, found, result>>
  PROVE  ArgsInv'
<1>1. pc' = "search" /\ search' = Begun(o, FALSE, "sib", t)
  BY DEF Search, Begun
<1>2. search'.then = t /\ search'.into = "sib"
  BY <1>1 DEF Begun
<1>3. TopLevel(result.fn) /\ Entry(result.fn).kids /\ \E S : result.args \in Seq(S)
  BY DEF ArgsInv, AtWork
<1>4. TopLevel(result.fn)' /\ Entry(result.fn)'.kids /\ (\E S : result.args \in Seq(S))'
  BY <1>3, FunctionKept
<1>5. (AtArgument /\ At("ret").tag = "param")'
  BY ChildrenKept DEF AtArgument, Counted, At, Entry
<1> QED
  BY <1>1, <1>2, <1>4, <1>5 DEF ArgsInv, AtWork, Counting

\* What is done with what the search for an argument ended with.
ArgumentStep(size, t) ==
  \/ /\ ~found \/ At("ret").tag # "param"
     /\ Finish(result) /\ UNCHANGED <<die, search, ret_val>>
  \/ /\ found /\ At("ret").tag = "param"
     /\ Search(At("ret").type, FALSE, "sib", t) /\ UNCHANGED <<die, ret_val, result>>
  \/ found /\ At("ret").tag = "param" /\ Record(size)

\* The arguments are counted one by one, up to the first that is none.
LEMMA ArgumentsCount ==
  ASSUME WalkInv, FoundInv, ArgsInv, FirstArg \/ NextArg \/ FirstType \/ NextType
  PROVE  ArgsInv'
<1>1. UNCHANGED <<info, addr, unit, found>> /\ pc \in Counting /\ unit # 0
  BY DEF FirstArg, NextArg, FirstType, NextType, Argument, Counting, WalkInv
<1>2. ASSUME NEW size, pc \in {"firstarg", "nextarg"}, NEW t \in {"firsttype", "nexttype"},
             ArgumentStep(size, t)
      PROVE  ArgsInv'
  <2>1. CASE found /\ At("ret").tag = "param"
    <3>1. AtArgument
      BY <1>2, <2>1 DEF ArgsInv
    <3>2. CASE Record(size)
      BY <1>1, <2>1, <3>1, <3>2, RecordCounts
    <3>3. CASE Search(At("ret").type, FALSE, "sib", t) /\ UNCHANGED <<die, ret_val, result>>
      BY <1>1, <2>1, <3>1, <3>3, TypeCounts
    <3> QED
      BY <1>2, <2>1, <3>2, <3>3 DEF ArgumentStep
  <2>2. CASE ~found \/ At("ret").tag # "param"
    <3> DEFINE f == result.fn
               n == Len(result.args)
    <3>1. pc' = "done" /\ result' = result
      BY <1>2, <2>2 DEF ArgumentStep, Finish
    <3>2. TopLevel(f) /\ Entry(f).kids
      BY <1>1 DEF ArgsInv, AtWork
    <3>3. /\ Children(f) \subseteq Nat /\ After(f) \in Nat
          /\ \A q \in Children(f) : q < After(f)
      BY <1>1, <3>2, FunctionEntries, ChildrenFinite
    <3>4. n = Cardinality(Leading(f))
      <4>1. CASE found
        <5> DEFINE p == die["ret"].at
        <5>1. p \in Children(f) /\ Lead(f, p, n) /\ Entry(p).tag # "param" /\ p \in Nat
          BY <1>2, <2>2, <3>3, <4>1 DEF ArgsInv, AtArgument, Counted, At
        <5> HIDE DEF f, n, p
        <5> QED
          BY <3>3, <5>1, LeadStops
      <4>2. CASE ~found
        <5>1. Lead(f, After(f), n)
          BY <1>2, <4>2 DEF ArgsInv, Counted
        <5> HIDE DEF f, n
        <5> QED
          BY <3>3, <5>1, LeadStops
      <4> QED
        BY <4>1, <4>2
    <3>5. (Len(result.args) = Cardinality(Leading(result.fn)))'
      <4>1. Leading(result.fn)' = Leading(f)
        BY <1>1, <3>1, ChildrenKept
      <4> QED
        BY <3>1, <3>4, <4>1
    <3> QED
      BY <3>1, <3>5 DEF ArgsInv, AtWork, Counting
  <2> QED
    BY <2>1, <2>2
<1>3. CASE FirstArg
  <2>1. pc = "firstarg" /\ Argument("firstarg", "firsttype", Record(8))
    BY <1>3 DEF FirstArg, Argument
  <2>2. ArgumentStep(8, "firsttype")
    BY <2>1 DEF Argument, ArgumentStep
  <2>3. pc \in {"firstarg", "nextarg"} /\ "firsttype" \in {"firsttype", "nexttype"}
    BY <2>1
  <2> QED
    BY <1>2, <2>2, <2>3
<1>4. CASE NextArg
  <2>1. pc = "nextarg" /\ Argument("nextarg", "nexttype", Record(ret_val))
    BY <1>4 DEF NextArg, Argument
  <2>2. ArgumentStep(ret_val, "nexttype")
    BY <2>1 DEF Argument, ArgumentStep
  <2>3. pc \in {"firstarg", "nextarg"} /\ "nexttype" \in {"firsttype", "nexttype"}
    BY <2>1
  <2> QED
    BY <1>2, <2>2, <2>3
<1>5. CASE FirstType \/ NextType
  <2>1. AtArgument /\ At("ret").tag = "param"
    BY <1>5 DEF FirstType, NextType, ArgsInv
  <2>2. \/ Search(At("sib").type, FALSE, "sib", "firsttype") /\ UNCHANGED <<die, ret_val, result>>
        \/ Record(IF At("sib").size # 0 THEN At("sib").size ELSE ret_val)
    BY <1>5 DEF FirstType, NextType
  <2> QED
    BY <1>1, <2>1, <2>2, RecordCounts, TypeCounts
<1> QED
  BY <1>3, <1>4, <1>5

(* The arguments that are counted are the parameters that lead the         *)
(* function's entries, whatever was read into the structures on the way    *)
(* and whatever is nested in between.                                      *)
THEOREM ArgumentsAreCounted == Spec => []ArgsCounted
<1>1. Init => ArgsInv
  BY DEF Init, ArgsInv, AtWork, Counting
<1>2. WalkInv /\ FoundInv /\ ArgsInv /\ [Next]_vars => (WalkInv /\ FoundInv /\ ArgsInv)'
  <2> SUFFICES ASSUME WalkInv, FoundInv, ArgsInv, [Next]_vars
               PROVE  (WalkInv /\ FoundInv /\ ArgsInv)'
    OBVIOUS
  <2>1. WalkInv' /\ FoundInv'
    BY WalkInvKept, FoundInvKept
  <2>2. CASE EndOfUnit \/ NullEntry \/ DieEntry
    BY <2>1, <2>2, EndOfUnitCounts, NullEntryCounts, DieEntryCounts
  <2>3. CASE GetNextCu \/ CuDie \/ Child \/ NextSibling \/ NotHere
    BY <2>1, <2>3, WalkCounts
  <2>4. CASE Here
    BY <2>1, <2>4, HereCounts
  <2>5. CASE FirstArg \/ NextArg \/ FirstType \/ NextType
    BY <2>1, <2>5, ArgumentsCount
  <2>6. CASE UNCHANGED vars
    <3>1. UNCHANGED <<info, pc, unit, die, found, search, result>> /\ Unit' = Unit
      BY <2>6 DEF vars, Unit
    <3>2. ArgumentSearch(search) <=> ArgumentSearch(search)'
      BY <3>1, ChildrenKept DEF ArgumentSearch, Counted, Nesting
    <3>3. (AtArgument <=> AtArgument') /\ (Counted(After(result.fn)) <=> Counted(After(result.fn))')
      BY <3>1, ChildrenKept DEF AtArgument, Counted
    <3>4. (TopLevel(result.fn) <=> TopLevel(result.fn)') /\ Leading(result.fn)' = Leading(result.fn)
      BY <3>1, ChildrenKept DEF TopLevel, Nesting, Entry
    <3>5. ArgsInv'
      BY <3>1, <3>2, <3>3, <3>4 DEF ArgsInv, AtWork, At, Entry
    <3> QED
      BY <2>1, <3>5
  <2> QED
    BY <2>2, <2>3, <2>4, <2>5, <2>6 DEF Next
<1>3. ArgsInv => ArgsCounted
  BY DEF ArgsInv, ArgsCounted, Leading
<1> QED
  BY WalkInvStarts, <1>1, <1>2, <1>3, PTL DEF Spec
=============================================================================
