----------------------------- MODULE FrameProofs -----------------------------
(***************************************************************************)
(* The description found in .eh_frame is the right one, and the rules that *)
(* its instructions give are those that they mean, for every section and   *)
(* any number of lookups.                                                  *)
(***************************************************************************)
EXTENDS FrameProgram, WellFoundedInduction, TLAPS

Working == {"table", "cie", "fde"}

(* While the scan goes on, none of the entries passed covers the address   *)
(* or ends the section.                                                    *)
NonePassed ==
  \A k \in 1 .. eh_offset - 1 :
    /\ section[k].kind # "end"
    /\ section[k].kind = "fde" => ~Covers(section[k], asked)

(* The CIE read last is kept; before the first one of a scan it may be any *)
(* that an earlier lookup left.                                            *)
LastCie ==
  (\E k \in 1 .. eh_offset - 1 : section[k].kind = "cie") =>
    /\ cie \in 1 .. eh_offset - 1 /\ section[cie].kind = "cie"
    /\ \A k \in cie + 1 .. eh_offset - 1 : section[k].kind # "cie"

Inv ==
  /\ section \in Sections
  /\ eh_offset \in 1 .. Len(section) + 1
  /\ at = "scan" => NonePassed /\ LastCie /\ answer # "DW_DLV_NO_ENTRY"
  /\ FdeFound

(* What is assumed of a section, as facts about its entries.               *)
LEMMA SectionFacts ==
  ASSUME NEW es \in Sections
  PROVE  /\ Len(es) \in Nat /\ DOMAIN es = 1 .. Len(es)
         /\ \A k \in 1 .. Len(es) : es[k].kind \in {"cie", "fde", "end"}
         /\ \A k \in 1 .. Len(es) : es[k].kind = "fde" =>
              /\ es[k].cie \in 1 .. k - 1 /\ es[es[k].cie].kind = "cie"
              /\ \A j \in es[k].cie + 1 .. k : es[j].kind # "cie"
<1>1. SectionOK(es)
  BY FrameProgramAssumption
<1>2. Len(es) \in Nat /\ DOMAIN es = 1 .. Len(es)
  BY <1>1 DEF SectionOK
<1> QED
  BY <1>1, <1>2 DEF SectionOK, Follows

\* No frame is looked up at first.
LEMMA InvInit == Init => Inv
<1> SUFFICES ASSUME Init PROVE Inv
  OBVIOUS
<1>1. Len(section) \in Nat
  BY SectionFacts DEF Init
<1> QED
  BY <1>1 DEF Init, Inv, FdeFound

(* A description passed over or taken: the step where the scan is right or *)
(* wrong.                                                                  *)
LEMMA SetFdeKeeps == Inv /\ SetFde => Inv'
<1> SUFFICES ASSUME Inv, SetFde PROVE Inv'
  OBVIOUS
<1> DEFINE n == eh_offset
<1>1. /\ n \in 1 .. Len(section) /\ section[n].kind = "fde"
      /\ section' = section /\ asked' = asked /\ cie' = cie /\ answer' = answer
      /\ fde' = n /\ eh_offset' = n + 1 /\ at = "scan"
      /\ at' = IF Covers(section[n], asked) THEN "table" ELSE "scan"
  <2>1. Len(section) \in Nat
    BY SectionFacts DEF Inv
  <2> QED
    BY <2>1 DEF SetFde, EntryKind, Inv, answerVars
<1>2. NonePassed /\ LastCie /\ answer # "DW_DLV_NO_ENTRY"
  BY <1>1 DEF Inv
<1>3. Len(section) \in Nat /\ DOMAIN section = 1 .. Len(section)
  BY SectionFacts DEF Inv
<1>4. /\ section[n].cie \in 1 .. n - 1 /\ section[section[n].cie].kind = "cie"
      /\ \A j \in section[n].cie + 1 .. n : section[j].kind # "cie"
  BY <1>1, SectionFacts DEF Inv
<1>5. CASE Covers(section[n], asked)
  <2>1. n \in Described(asked)
    <3>1. \A j \in 1 .. n : section[j].kind # "end"
      BY <1>1, <1>2 DEF NonePassed
    <3> QED
      BY <3>1, <1>1, <1>3, <1>5 DEF Described, Reachable
  <2>2. cie = section[n].cie
    BY <1>1, <1>2, <1>4 DEF LastCie
  <2>3. fde' \in Described(asked)' /\ cie' = section'[fde'].cie
    BY <1>1, <2>1, <2>2 DEF Described, Reachable
  <2> QED
    BY <1>1, <1>2, <1>3, <1>5, <2>3 DEF Inv, FdeFound
<1>6. CASE ~Covers(section[n], asked)
  <2>1. NonePassed'
    BY <1>1, <1>2, <1>6 DEF NonePassed, Covers
  <2>2. LastCie'
    BY <1>1, <1>2 DEF LastCie
  <2> QED
    BY <1>1, <1>2, <1>3, <1>6, <2>1, <2>2 DEF Inv, FdeFound
<1> QED
  BY <1>5, <1>6

\* The scan passes a CIE: the last one seen is now this one.
LEMMA SetCieKeeps == Inv /\ SetCie => Inv'
<1> SUFFICES ASSUME Inv, SetCie PROVE Inv'
  OBVIOUS
<1> DEFINE n == eh_offset
<1>1. Len(section) \in Nat /\ DOMAIN section = 1 .. Len(section)
  BY SectionFacts DEF Inv
<1>2. /\ n \in 1 .. Len(section) /\ section[n].kind = "cie"
      /\ section' = section /\ asked' = asked /\ answer' = answer
      /\ cie' = n /\ eh_offset' = n + 1 /\ at = "scan" /\ at' = "scan"
  BY <1>1 DEF SetCie, EntryKind, Inv, answerVars
<1>3. NonePassed /\ answer # "DW_DLV_NO_ENTRY"
  BY <1>2 DEF Inv
<1>4. NonePassed'
  BY <1>2, <1>3 DEF NonePassed, Covers
<1>5. LastCie'
  BY <1>2 DEF LastCie
<1> QED
  BY <1>1, <1>2, <1>3, <1>4, <1>5 DEF Inv, FdeFound

\* The scan ends without an entry: it has passed all of them.
LEMMA NoEntryKeeps == Inv /\ NoEntry => Inv'
<1> SUFFICES ASSUME Inv, NoEntry PROVE Inv'
  OBVIOUS
<1> DEFINE n == eh_offset
<1>1. Len(section) \in Nat /\ DOMAIN section = 1 .. Len(section)
  BY SectionFacts DEF Inv
<1>2. /\ n \in 1 .. Len(section) + 1
      /\ section' = section /\ asked' = asked /\ eh_offset' = n
      /\ at' = "idle" /\ NonePassed
      /\ n \in 1 .. Len(section) => section[n].kind = "end"
  BY <1>1 DEF NoEntry, EntryKind, Inv, scanVars
<1>3. ASSUME NEW k \in Described(asked) PROVE FALSE
  <2>1. /\ k \in 1 .. Len(section) /\ \A j \in 1 .. k : section[j].kind # "end"
        /\ section[k].kind = "fde" /\ Covers(section[k], asked)
    BY <1>1, <1>3 DEF Described, Reachable
  <2>2. k < n
    BY <1>2, <2>1, <1>1
  <2> QED
    BY <1>2, <2>1, <2>2 DEF NonePassed
<1>4. Described(asked)' = {}
  BY <1>2, <1>3 DEF Described, Reachable, Covers
<1> QED
  BY <1>1, <1>2, <1>4 DEF Inv, FdeFound

(* No other step touches what the scan keeps.                              *)
LEMMA OthersKeep ==
  ASSUME Inv,
         \/ UNCHANGED vars \/ SetCfaValue \/ InternalTable \/ CieDone \/ FdeDone
         \/ Advance \/ SetLoc \/ Nop \/ SetRule \/ Error
         \/ RememberState \/ RestoreState \/ SetCfa
  PROVE  Inv'
<1>1. /\ section' = section /\ asked' = asked
      /\ eh_offset' = eh_offset /\ cie' = cie /\ fde' = fde
      /\ at' = at \/ (at \in Working /\ at' \in Working \cup {"idle"})
      /\ answer' = answer \/ answer' \in {"DW_DLV_OK", "DW_DLV_ERROR"}
  BY DEF vars, SetCfaValue, InternalTable, CieDone, FdeDone, Advance, SetLoc, Nop,
         SetRule, Error, RememberState, RestoreState, SetCfa, Frame, Run, Running,
         Is, scanVars, answerVars, Working
<1>2. (at' = "scan") => at = "scan"
  BY <1>1 DEF Working
<1>3. at' \in Working => at \in Working
  BY <1>1 DEF Working
<1>4. answer' = "DW_DLV_NO_ENTRY" => answer = "DW_DLV_NO_ENTRY"
  BY <1>1
<1>5. FdeFound'
  BY <1>1, <1>3, <1>4 DEF Inv, FdeFound, Described, Reachable, Covers, Working
<1> QED
  BY <1>1, <1>2, <1>4, <1>5 DEF Inv, NonePassed, LastCie, Covers

\* The beginning of a lookup.
LEMMA LookupKeeps == ASSUME Inv, NEW a \in Addrs, Lookup(a) PROVE Inv'
<1>1. Len(section) \in Nat
  BY SectionFacts DEF Inv
<1>2. /\ section' = section /\ eh_offset' = 1 /\ at' = "scan" /\ answer' = "none"
  BY DEF Lookup
<1> QED
  BY <1>1, <1>2 DEF Inv, FdeFound, NonePassed, LastCie

\* Every step keeps it.
LEMMA InvNext == Inv /\ [Next]_vars => Inv'
<1> SUFFICES ASSUME Inv, [Next]_vars PROVE Inv'
  OBVIOUS
<1>1. CASE \E a \in Addrs : Lookup(a)
  BY <1>1, LookupKeeps
<1>2. CASE NoEntry \/ SetCie \/ SetFde
  BY <1>2, NoEntryKeeps, SetCieKeeps, SetFdeKeeps
<1>3. CASE ~(\E a \in Addrs : Lookup(a)) /\ ~(NoEntry \/ SetCie \/ SetFde)
  BY <1>3, OthersKeep DEF Next
<1> QED
  BY <1>1, <1>2, <1>3

(* The frame description a lookup takes is one that covers the address     *)
(* asked about, with the CIE it names, and a lookup that finds none is     *)
(* right: dwarf_get_fde_at_pc() over every well-formed .eh_frame, however  *)
(* many lookups came before.                                               *)
THEOREM FdeFoundCorrect == Spec => []FdeFound
<1>1. Inv => FdeFound
  BY DEF Inv
<1> QED
  BY InvInit, InvNext, <1>1, PTL DEF Spec

---------------------------------------------------------------------------
(* What instructions mean, one after the other.                            *)

\* Every set of numbers that is not empty has a least one.
LEMMA LeastOfNat ==
  ASSUME NEW S, S \subseteq Nat, S # {}
  PROVE  \E m \in S : \A k \in S : m <= k
<1> DEFINE R == {ss \in Nat \X Nat : ss[1] < ss[2]}
<1>1. IsWellFoundedOn(R, Nat)
  BY NatLessThanWellFounded DEF OpToRel
<1> HIDE DEF R
<1>2. PICK m \in S : \A k \in S : <<k, m>> \notin R
  BY <1>1, WFMin
<1>3. ASSUME NEW k \in S, k < m
      PROVE  FALSE
  <2>1. <<k, m>> \in Nat \X Nat /\ <<k, m>>[1] = k /\ <<k, m>>[2] = m
    OBVIOUS
  <2>2. <<k, m>> \in R
    BY <1>3, <2>1 DEF R
  <2> QED
    BY <1>2, <2>2
<1>4. \A k \in S : m <= k
  BY <1>3
<1> QED
  BY <1>4

\* The depth after instruction k, from that before it in g.
DepthEntry(g, is, k) ==
  IF k = 0 THEN 0
  ELSE CASE is[k].op = "remember_state" -> g[k - 1] + 1
         [] is[k].op = "restore_state" -> g[k - 1] - 1
         [] OTHER -> g[k - 1]

\* m is the depth of the first n instructions of is.
IsDepth(m, is, n) == m = [k \in 0 .. n |-> DepthEntry(m, is, k)]

\* Its values.
LEMMA DepthAt ==
  ASSUME NEW is, NEW n \in Nat, NEW m, IsDepth(m, is, n), NEW k \in 0 .. n
  PROVE  m[k] = DepthEntry(m, is, k)
<1> DEFINE r == [j \in 0 .. n |-> DepthEntry(m, is, j)]
<1>1. m = r
  BY DEF IsDepth
<1>2. r[k] = DepthEntry(m, is, k)
  OBVIOUS
<1> HIDE DEF r
<1> QED
  BY ONLY <1>1, <1>2, Zenon

\* There is one.
LEMMA DepthExists ==
  ASSUME NEW is, NEW n \in Nat
  PROVE  \E m : IsDepth(m, is, n)
<1> DEFINE Bad == {k \in Nat : ~\E m : IsDepth(m, is, k)}
<1> SUFFICES ASSUME Bad # {}
             PROVE  FALSE
  OBVIOUS
<1>1. PICK k \in Bad : \A j \in Bad : k <= j
  <2> HIDE DEF Bad
  <2>1. Bad \subseteq Nat
    BY DEF Bad
  <2> QED
    BY <2>1, LeastOfNat
<1>2. k # 0
  <2> DEFINE base == DepthEntry(<< >>, is, 0)
             m == [j \in 0 .. 0 |-> base]
  <2>1. DepthEntry(m, is, 0) = base
    <3> HIDE DEF m
    <3> QED
      BY DEF DepthEntry
  <2> HIDE DEF base
  <2>2. m = [j \in 0 .. 0 |-> DepthEntry(m, is, j)]
    BY <2>1
  <2>3. IsDepth(m, is, 0)
    <3> HIDE DEF m
    <3> QED
      BY <2>2 DEF IsDepth
  <2> QED
    BY <1>1, <2>3
<1>3. k - 1 \in Nat /\ k - 1 \notin Bad /\ k \in Nat
  BY <1>1, <1>2
<1>4. PICK m : IsDepth(m, is, k - 1)
  BY <1>3
<1> DEFINE g == [j \in 0 .. k |-> DepthEntry(m, is, j)]
<1>5. \A j \in 0 .. k - 1 : g[j] = m[j]
  <2> SUFFICES ASSUME NEW j \in 0 .. k - 1
               PROVE  g[j] = m[j]
    OBVIOUS
  <2>1. m[j] = DepthEntry(m, is, j)
    BY <1>3, <1>4, DepthAt
  <2>2. j \in 0 .. k
    BY <1>3
  <2> QED
    BY <2>1, <2>2
<1>6. \A j \in 0 .. k : DepthEntry(g, is, j) = DepthEntry(m, is, j)
  <2> SUFFICES ASSUME NEW j \in 0 .. k
               PROVE  DepthEntry(g, is, j) = DepthEntry(m, is, j)
    OBVIOUS
  <2>1. j # 0 => j - 1 \in 0 .. k - 1
    BY <1>3
  <2> HIDE DEF g
  <2>2. j # 0 => g[j - 1] = m[j - 1]
    BY <1>5, <2>1
  <2> QED
    BY <2>2, Zenon DEF DepthEntry
<1>7. g = [j \in 0 .. k |-> DepthEntry(g, is, j)]
  <2>1. g = [j \in 0 .. k |-> DepthEntry(m, is, j)]
    OBVIOUS
  <2> HIDE DEF g
  <2> QED
    BY <1>6, <2>1
<1>8. IsDepth(g, is, k)
  <2> HIDE DEF g
  <2> QED
    BY <1>7 DEF IsDepth
<1> QED
  BY <1>1, <1>8

\* It is what the definition stands for.
LEMMA DepthIs ==
  ASSUME NEW is, Len(is) \in Nat, NEW k \in 0 .. Len(is)
  PROVE  Depth(is)[k] = DepthEntry(Depth(is), is, k)
<1> DEFINE m == CHOOSE g : IsDepth(g, is, Len(is))
<1>1. IsDepth(m, is, Len(is))
  <2>1. \E g : IsDepth(g, is, Len(is))
    BY DepthExists
  <2> QED
    BY <2>1
<1>2. Depth(is) = m
  BY DEF Depth, IsDepth, DepthEntry
<1> HIDE DEF m
<1>3. IsDepth(Depth(is), is, Len(is))
  BY <1>1, <1>2, Zenon
<1> QED
  BY <1>3, DepthAt

\* What the first k instructions mean, from what g says of those before.
MeansEntry(g, is, e, known, start, locs, k) ==
  IF k = 0 THEN start
  ELSE IF g[k - 1].error \/ g[k - 1].loc \notin locs THEN g[k - 1]
  ELSE Step(g[k - 1], is[k], e, known)

\* m is what the first n instructions mean.
IsMeans(m, is, e, known, start, locs, n) == m = [k \in 0 .. n |-> MeansEntry(m, is, e, known, start, locs, k)]

\* Its values.
LEMMA MeansAt ==
  ASSUME NEW is, NEW e, NEW known, NEW start, NEW locs, NEW n \in Nat, NEW m, IsMeans(m, is, e, known, start, locs, n), NEW k \in 0 .. n
  PROVE  m[k] = MeansEntry(m, is, e, known, start, locs, k)
<1> DEFINE r == [j \in 0 .. n |-> MeansEntry(m, is, e, known, start, locs, j)]
<1>1. m = r
  BY DEF IsMeans
<1>2. r[k] = MeansEntry(m, is, e, known, start, locs, k)
  OBVIOUS
<1> HIDE DEF r
<1> QED
  BY ONLY <1>1, <1>2, Zenon

\* There is one.
LEMMA MeansExists ==
  ASSUME NEW is, NEW e, NEW known, NEW start, NEW locs, NEW n \in Nat
  PROVE  \E m : IsMeans(m, is, e, known, start, locs, n)
<1> DEFINE Bad == {k \in Nat : ~\E m : IsMeans(m, is, e, known, start, locs, k)}
<1> SUFFICES ASSUME Bad # {}
             PROVE  FALSE
  OBVIOUS
<1>1. PICK k \in Bad : \A j \in Bad : k <= j
  <2> HIDE DEF Bad
  <2>1. Bad \subseteq Nat
    BY DEF Bad
  <2> QED
    BY <2>1, LeastOfNat
<1>2. k # 0
  <2> DEFINE base == MeansEntry(<< >>, is, e, known, start, locs, 0)
             m == [j \in 0 .. 0 |-> base]
  <2>1. MeansEntry(m, is, e, known, start, locs, 0) = base
    <3> HIDE DEF m
    <3> QED
      BY DEF MeansEntry
  <2> HIDE DEF base
  <2>2. m = [j \in 0 .. 0 |-> MeansEntry(m, is, e, known, start, locs, j)]
    BY <2>1
  <2>3. IsMeans(m, is, e, known, start, locs, 0)
    <3> HIDE DEF m
    <3> QED
      BY <2>2 DEF IsMeans
  <2> QED
    BY <1>1, <2>3
<1>3. k - 1 \in Nat /\ k - 1 \notin Bad /\ k \in Nat
  BY <1>1, <1>2
<1>4. PICK m : IsMeans(m, is, e, known, start, locs, k - 1)
  BY <1>3
<1> DEFINE g == [j \in 0 .. k |-> MeansEntry(m, is, e, known, start, locs, j)]
<1>5. \A j \in 0 .. k - 1 : g[j] = m[j]
  <2> SUFFICES ASSUME NEW j \in 0 .. k - 1
               PROVE  g[j] = m[j]
    OBVIOUS
  <2>1. m[j] = MeansEntry(m, is, e, known, start, locs, j)
    BY <1>3, <1>4, MeansAt
  <2>2. j \in 0 .. k
    BY <1>3
  <2> QED
    BY <2>1, <2>2
<1>6. \A j \in 0 .. k : MeansEntry(g, is, e, known, start, locs, j) = MeansEntry(m, is, e, known, start, locs, j)
  <2> SUFFICES ASSUME NEW j \in 0 .. k
               PROVE  MeansEntry(g, is, e, known, start, locs, j) = MeansEntry(m, is, e, known, start, locs, j)
    OBVIOUS
  <2>1. j # 0 => j - 1 \in 0 .. k - 1
    BY <1>3
  <2> HIDE DEF g
  <2>2. j # 0 => g[j - 1] = m[j - 1]
    BY <1>5, <2>1
  <2> QED
    BY <2>2, Zenon DEF MeansEntry
<1>7. g = [j \in 0 .. k |-> MeansEntry(g, is, e, known, start, locs, j)]
  <2>1. g = [j \in 0 .. k |-> MeansEntry(m, is, e, known, start, locs, j)]
    OBVIOUS
  <2> HIDE DEF g
  <2> QED
    BY <1>6, <2>1
<1>8. IsMeans(g, is, e, known, start, locs, k)
  <2> HIDE DEF g
  <2> QED
    BY <1>7 DEF IsMeans
<1> QED
  BY <1>1, <1>8

\* It is what the definition stands for.
LEMMA MeansIs ==
  ASSUME NEW is, NEW e, NEW known, NEW start, NEW locs, Len(is) \in Nat, NEW k \in 0 .. Len(is)
  PROVE  Means(is, e, known, start, locs)[k] = MeansEntry(Means(is, e, known, start, locs), is, e, known, start, locs, k)
<1> DEFINE m == CHOOSE g : IsMeans(g, is, e, known, start, locs, Len(is))
<1>1. IsMeans(m, is, e, known, start, locs, Len(is))
  <2>1. \E g : IsMeans(g, is, e, known, start, locs, Len(is))
    BY MeansExists
  <2> QED
    BY <2>1
<1>2. Means(is, e, known, start, locs) = m
  BY DEF Means, IsMeans, MeansEntry
<1> HIDE DEF m
<1>3. IsMeans(Means(is, e, known, start, locs), is, e, known, start, locs, Len(is))
  BY <1>1, <1>2, Zenon
<1> QED
  BY <1>3, MeansAt

\* M says what instructions mean from start.
Runs(M, is, e, known, start, locs) ==
  /\ M[0] = start
  /\ \A n \in 1 .. Len(is) :
       M[n] = IF M[n - 1].error \/ M[n - 1].loc \notin locs THEN M[n - 1]
              ELSE Step(M[n - 1], is[n], e, known)

\* And this is what Means() says.
LEMMA MeansRuns ==
  ASSUME NEW is, NEW e, NEW known, NEW start, NEW locs, Len(is) \in Nat
  PROVE  Runs(Means(is, e, known, start, locs), is, e, known, start, locs)
<1> DEFINE M == Means(is, e, known, start, locs)
<1>1. \A k \in 0 .. Len(is) : M[k] = MeansEntry(M, is, e, known, start, locs, k)
  BY MeansIs
<1> HIDE DEF M
<1>2. 0 \in 0 .. Len(is) /\ \A n \in 1 .. Len(is) : n \in 0 .. Len(is) /\ n # 0
  OBVIOUS
<1>3. M[0] = start
  BY <1>1, <1>2 DEF MeansEntry
<1>4. ASSUME NEW n \in 1 .. Len(is)
      PROVE  M[n] = IF M[n - 1].error \/ M[n - 1].loc \notin locs THEN M[n - 1]
                    ELSE Step(M[n - 1], is[n], e, known)
  <2>1. M[n] = MeansEntry(M, is, e, known, start, locs, n) /\ n # 0
    BY <1>1, <1>2
  <2> QED
    BY <2>1, Zenon DEF MeansEntry
<1>5. Runs(M, is, e, known, start, locs)
  BY <1>3, <1>4 DEF Runs
<1> QED
  BY <1>5 DEF M

\* What a step makes of each part.
LEMMA StepIs ==
  ASSUME NEW m, NEW i, NEW e, NEW known
  PROVE  /\ Step(m, i, e, known).loc = MeantLoc(m, i, e)
         /\ Step(m, i, e, known).cfa = MeantCfa(m, i, e)
         /\ Step(m, i, e, known).rules = MeantRules(m, i, e, known)
         /\ Step(m, i, e, known).stack = MeantStack(m, i)
         /\ Step(m, i, e, known).error = Wrong(i)
<1> DEFINE l == MeantLoc(m, i, e)
           c == MeantCfa(m, i, e)
           r == MeantRules(m, i, e, known)
           s == MeantStack(m, i)
           w == Wrong(i)
           x == [loc |-> l, cfa |-> c, rules |-> r, stack |-> s, error |-> w]
<1>1. Step(m, i, e, known) = x
  BY DEF Step
<1> HIDE DEF l, c, r, s, w
<1>2. x.loc = l /\ x.cfa = c /\ x.rules = r /\ x.stack = s
  OBVIOUS
<1>3. x.error = w
  BY Zenon
<1> HIDE DEF x
<1> QED
  BY <1>1, <1>2, <1>3, Zenon DEF l, c, r, s, w

\* What comes after an error or outside of locs means nothing more.
LEMMA Stuck ==
  ASSUME NEW M, NEW is, NEW e, NEW known, NEW start, NEW locs, Len(is) \in Nat,
         Runs(M, is, e, known, start, locs),
         NEW n \in 0 .. Len(is), M[n].error \/ M[n].loc \notin locs,
         NEW k \in n .. Len(is)
  PROVE  M[k] = M[n]
<1> DEFINE Bad == {j \in Nat : j \in n .. Len(is) /\ M[j] # M[n]}
<1> SUFFICES ASSUME Bad # {}
             PROVE  FALSE
  OBVIOUS
<1>1. PICK j \in Bad : \A l \in Bad : j <= l
  <2> HIDE DEF Bad
  <2>1. Bad \subseteq Nat
    BY DEF Bad
  <2> QED
    BY <2>1, LeastOfNat
<1>2. j \in 1 .. Len(is) /\ j - 1 \in n .. Len(is) /\ j - 1 \in Nat /\ j - 1 < j
  BY <1>1
<1>3. M[j - 1] = M[n]
  BY <1>1, <1>2
<1>4. M[j] # M[n]
  BY <1>1
<1>5. M[j] = IF M[j - 1].error \/ M[j - 1].loc \notin locs THEN M[j - 1]
             ELSE Step(M[j - 1], is[j], e, known)
  BY <1>2 DEF Runs
<1> QED
  BY <1>3, <1>4, <1>5, Zenon

\* The product of numbers is one.
LEMMA Product ==
  ASSUME NEW a \in Nat, NEW b \in Nat
  PROVE  a * b \in Nat
OBVIOUS

\* A program does not leave its location but forward.
Forward(is) == \A n \in 1 .. Len(is) : is[n].op # "set_loc"

\* No instruction goes back.
LEMMA StepForward ==
  ASSUME NEW m, NEW i \in Instructions, NEW e, NEW known, i.op # "set_loc",
         i.op = "advance" => i.n \in Nat, e.caf \in Nat, m.loc \in Nat
  PROVE  /\ Step(m, i, e, known).loc \in Nat
         /\ m.loc <= Step(m, i, e, known).loc
<1>1. Step(m, i, e, known).loc = MeantLoc(m, i, e)
  BY StepIs
<1>2. CASE i.op = "advance"
  <2>1. i.n * e.caf \in Nat
    BY <1>2, Product
  <2>2. MeantLoc(m, i, e) = m.loc + i.n * e.caf
    BY <1>2 DEF MeantLoc
  <2> QED
    BY <1>1, <2>1, <2>2
<1>3. CASE i.op # "advance"
  <2>1. MeantLoc(m, i, e) = m.loc
    BY <1>3 DEF MeantLoc
  <2> QED
    BY <1>1, <2>1
<1> QED
  BY <1>2, <1>3

\* The fields of an instruction.
LEMMA ProgramFacts ==
  ASSUME NEW is, ProgramOK(is)
  PROVE  /\ Len(is) \in Nat
         /\ \A n \in 1 .. Len(is) : is[n] \in Instructions
         /\ \A n \in 1 .. Len(is) : is[n].op = "advance" => is[n].n \in Nat
         /\ \A n \in 1 .. Len(is) : is[n].op = "set_loc" => is[n].n \in Nat
BY DEF ProgramOK

\* Locations are numbers that go up.
LEMMA LocsUp ==
  ASSUME NEW M, NEW is, NEW e, NEW known, NEW start, NEW locs,
         Runs(M, is, e, known, start, locs), ProgramOK(is), Forward(is),
         e.caf \in Nat, start.loc \in Nat
  PROVE  /\ \A n \in 0 .. Len(is) : M[n].loc \in Nat
         /\ \A n \in 1 .. Len(is) : M[n - 1].loc <= M[n].loc
<1>1. /\ Len(is) \in Nat
      /\ \A n \in 1 .. Len(is) :
           /\ is[n] \in Instructions /\ is[n].op # "set_loc"
           /\ is[n].op = "advance" => is[n].n \in Nat
  BY ProgramFacts DEF Forward
<1>2. ASSUME NEW n \in 1 .. Len(is), M[n - 1].loc \in Nat
      PROVE  M[n].loc \in Nat /\ M[n - 1].loc <= M[n].loc
  <2> DEFINE m == M[n - 1]
             i == is[n]
  <2>1. M[n] = IF m.error \/ m.loc \notin locs THEN m ELSE Step(m, i, e, known)
    BY DEF Runs
  <2>2. /\ i \in Instructions /\ i.op # "set_loc" /\ (i.op = "advance" => i.n \in Nat)
        /\ m.loc \in Nat
    BY <1>1, <1>2
  <2> HIDE DEF m, i
  <2>3. Step(m, i, e, known).loc \in Nat /\ m.loc <= Step(m, i, e, known).loc
    BY <2>2, StepForward
  <2>4. m.loc <= m.loc
    BY <2>2
  <2>5. M[n].loc \in Nat /\ m.loc <= M[n].loc
    BY <2>1, <2>2, <2>3, <2>4, Zenon
  <2> QED
    BY <2>5 DEF m
<1> DEFINE Bad == {n \in Nat : n \in 0 .. Len(is) /\ M[n].loc \notin Nat}
<1>3. ASSUME Bad # {}
      PROVE  FALSE
  <2>1. PICK n \in Bad : \A k \in Bad : n <= k
    <3>1. Bad \subseteq Nat
      OBVIOUS
    <3> HIDE DEF Bad
    <3> QED
      BY <1>3, <3>1, LeastOfNat
  <2>2. n # 0
    BY <2>1 DEF Runs
  <2>3. n \in 1 .. Len(is) /\ n - 1 \in 0 .. Len(is) /\ n - 1 \in Nat /\ n - 1 < n
    BY <1>1, <2>1, <2>2
  <2>4. M[n - 1].loc \in Nat
    BY <2>1, <2>3
  <2>5. M[n].loc \in Nat
    BY <1>2, <2>3, <2>4
  <2> QED
    BY <2>1, <2>5
<1>4. \A n \in 0 .. Len(is) : M[n].loc \in Nat
  BY <1>1, <1>3
<1>5. \A n \in 1 .. Len(is) : n - 1 \in 0 .. Len(is)
  BY <1>1
<1> QED
  BY <1>2, <1>4, <1>5

\* What instructions mean does not depend on how far they are looked at.
LEMMA Longer ==
  ASSUME NEW M, NEW N, NEW is, NEW e, NEW known, NEW start, NEW a \in Nat, NEW b \in Nat,
         Runs(M, is, e, known, start, 0 .. a), Runs(N, is, e, known, start, 0 .. b),
         ProgramOK(is), Forward(is), e.caf \in Nat, start.loc \in Nat,
         NEW n \in 0 .. Len(is), M[n].loc <= a, M[n].loc <= b
  PROVE  N[n] = M[n]
<1>1. /\ Len(is) \in Nat
      /\ \A k \in 0 .. Len(is) : M[k].loc \in Nat
      /\ \A k \in 1 .. Len(is) : M[k - 1].loc <= M[k].loc
  <2>1. Len(is) \in Nat
    BY ProgramFacts
  <2> QED
    BY <2>1, LocsUp
<1> DEFINE Within(k) == M[k].loc <= a /\ M[k].loc <= b
           Bad == {k \in Nat : k \in 0 .. Len(is) /\ Within(k) /\ N[k] # M[k]}
<1>2. ASSUME Bad # {}
      PROVE  FALSE
  <2>1. PICK k \in Bad : \A j \in Bad : k <= j
    <3>1. Bad \subseteq Nat
      OBVIOUS
    <3> HIDE DEF Bad
    <3> QED
      BY <1>2, <3>1, LeastOfNat
  <2>2. k # 0
    BY <2>1 DEF Runs
  <2>3. k \in 1 .. Len(is) /\ k - 1 \in 0 .. Len(is) /\ k - 1 \in Nat /\ k - 1 < k
    BY <1>1, <2>1, <2>2
  <2>4. Within(k)
    BY <2>1
  <2>5. /\ M[k - 1].loc \in Nat /\ M[k].loc \in Nat /\ M[k - 1].loc <= M[k].loc
    BY <1>1, <2>3
  <2>6. Within(k - 1) /\ M[k - 1].loc \in 0 .. a /\ M[k - 1].loc \in 0 .. b
    BY <2>4, <2>5
  <2>7. N[k - 1] = M[k - 1]
    BY <2>1, <2>3, <2>6
  <2>8. /\ M[k] = IF M[k - 1].error \/ M[k - 1].loc \notin 0 .. a THEN M[k - 1]
                  ELSE Step(M[k - 1], is[k], e, known)
        /\ N[k] = IF N[k - 1].error \/ N[k - 1].loc \notin 0 .. b THEN N[k - 1]
                  ELSE Step(N[k - 1], is[k], e, known)
    BY <2>3 DEF Runs
  <2>9. N[k] = M[k]
    BY <2>6, <2>7, <2>8, Zenon
  <2> QED
    BY <2>1, <2>9
<1>3. n \in Nat /\ Within(n)
  BY <1>1
<1> HIDE DEF Within
<1>4. n \in Nat /\ n \in 0 .. Len(is) /\ Within(n) /\ N[n] # M[n] => n \in Bad
  OBVIOUS
<1> QED
  BY <1>2, <1>3, <1>4

---------------------------------------------------------------------------
(* The states that are remembered: in a sound program one at a time.       *)

\* The depth before and after an instruction.
LEMMA DepthSteps ==
  ASSUME NEW is, Len(is) \in Nat
  PROVE  /\ Depth(is)[0] = 0
         /\ \A n \in 1 .. Len(is) :
              Depth(is)[n] = CASE is[n].op = "remember_state" -> Depth(is)[n - 1] + 1
                               [] is[n].op = "restore_state" -> Depth(is)[n - 1] - 1
                               [] OTHER -> Depth(is)[n - 1]
<1> DEFINE D == Depth(is)
<1>1. \A k \in 0 .. Len(is) : D[k] = DepthEntry(D, is, k)
  BY DepthIs
<1> HIDE DEF D
<1>2. 0 \in 0 .. Len(is) /\ \A n \in 1 .. Len(is) : n \in 0 .. Len(is) /\ n # 0
  OBVIOUS
<1>3. D[0] = 0
  BY <1>1, <1>2 DEF DepthEntry
<1>4. ASSUME NEW n \in 1 .. Len(is)
      PROVE  D[n] = CASE is[n].op = "remember_state" -> D[n - 1] + 1
                      [] is[n].op = "restore_state" -> D[n - 1] - 1
                      [] OTHER -> D[n - 1]
  <2>1. D[n] = DepthEntry(D, is, n) /\ n # 0
    BY <1>1, <1>2
  <2> QED
    BY <2>1 DEF DepthEntry
<1> QED
  BY <1>3, <1>4 DEF D

\* In a sound program at most one state is remembered.
LEMMA DepthOne ==
  ASSUME NEW is, ProgramOK(is), Sound(is)
  PROVE  \A n \in 0 .. Len(is) : Depth(is)[n] \in {0, 1}
<1> DEFINE D == Depth(is)
<1>1. Len(is) \in Nat
  BY ProgramFacts
<1>2. /\ D[0] = 0
      /\ \A n \in 1 .. Len(is) :
           D[n] = CASE is[n].op = "remember_state" -> D[n - 1] + 1
                    [] is[n].op = "restore_state" -> D[n - 1] - 1
                    [] OTHER -> D[n - 1]
  BY <1>1, DepthSteps
<1>3. \A n \in 0 .. Len(is) : D[n] >= 0
  BY DEF ProgramOK
<1>4. \A n \in 1 .. Len(is) : is[n].op = "remember_state" => D[n - 1] = 0
  BY DEF Sound
<1> HIDE DEF D
<1> DEFINE Bad == {n \in Nat : n \in 0 .. Len(is) /\ D[n] \notin {0, 1}}
<1>5. ASSUME Bad # {}
      PROVE  FALSE
  <2>1. PICK n \in Bad : \A k \in Bad : n <= k
    <3>1. Bad \subseteq Nat
      OBVIOUS
    <3> HIDE DEF Bad
    <3> QED
      BY <1>5, <3>1, LeastOfNat
  <2>2. n # 0
    BY <1>2, <2>1
  <2>3. n \in 1 .. Len(is) /\ n \in 0 .. Len(is)
        /\ n - 1 \in 0 .. Len(is) /\ n - 1 \in Nat /\ n - 1 < n
    BY <1>1, <2>1, <2>2
  <2>4. D[n - 1] \in {0, 1}
    BY <2>1, <2>3
  <2>5. D[n] = CASE is[n].op = "remember_state" -> D[n - 1] + 1
                 [] is[n].op = "restore_state" -> D[n - 1] - 1
                 [] OTHER -> D[n - 1]
    BY <1>2, <2>3
  <2>6. D[n] >= 0
    BY <1>3, <2>3
  <2>7. is[n].op = "remember_state" => D[n - 1] = 0
    BY <1>4, <2>3
  <2>8. CASE is[n].op = "remember_state"
    <3>1. D[n] = 1
      BY <2>5, <2>7, <2>8
    <3> QED
      BY <2>1, <3>1
  <2>9. CASE is[n].op = "restore_state"
    <3>1. D[n] = D[n - 1] - 1
      BY <2>5, <2>9
    <3>2. D[n] = 0
      BY <2>4, <2>6, <3>1
    <3> QED
      BY <2>1, <3>2
  <2>10. CASE is[n].op \notin {"remember_state", "restore_state"}
    <3>1. D[n] = D[n - 1]
      BY <2>5, <2>10
    <3> QED
      BY <2>1, <2>4, <3>1
  <2> QED
    BY <2>8, <2>9, <2>10
<1>6. ASSUME NEW n \in 0 .. Len(is)
      PROVE  D[n] \in {0, 1}
  <2>1. n \in Nat
    BY <1>1
  <2> QED
    BY <1>5, <2>1
<1> QED
  BY <1>6 DEF D

\* Where one is remembered, there was none, and where one is restored, one.
LEMMA DepthMoves ==
  ASSUME NEW is, ProgramOK(is), Sound(is), NEW n \in 1 .. Len(is)
  PROVE  /\ is[n].op = "remember_state" => Depth(is)[n - 1] = 0 /\ Depth(is)[n] = 1
         /\ is[n].op = "restore_state" => Depth(is)[n - 1] = 1 /\ Depth(is)[n] = 0
         /\ is[n].op \notin {"remember_state", "restore_state"} =>
              Depth(is)[n] = Depth(is)[n - 1]
<1> DEFINE D == Depth(is)
<1>1. Len(is) \in Nat
  BY ProgramFacts
<1>2. /\ n \in 0 .. Len(is) /\ n - 1 \in 0 .. Len(is)
  BY <1>1
<1>3. D[n] \in {0, 1} /\ D[n - 1] \in {0, 1}
  BY <1>2, DepthOne
<1>4. D[n] = CASE is[n].op = "remember_state" -> D[n - 1] + 1
               [] is[n].op = "restore_state" -> D[n - 1] - 1
               [] OTHER -> D[n - 1]
  BY <1>1, DepthSteps
<1>5. is[n].op = "remember_state" => D[n - 1] = 0
  BY DEF Sound
<1> HIDE DEF D
<1>6. CASE is[n].op = "remember_state"
  <2>1. D[n] = D[n - 1] + 1
    BY <1>4, <1>6
  <2> QED
    BY <1>5, <1>6, <2>1 DEF D
<1>7. CASE is[n].op = "restore_state"
  <2>1. D[n] = D[n - 1] - 1
    BY <1>4, <1>7
  <2>2. D[n - 1] = 1 /\ D[n] = 0
    BY <1>3, <2>1
  <2> QED
    BY <1>7, <2>2 DEF D
<1>8. CASE is[n].op \notin {"remember_state", "restore_state"}
  <2>1. D[n] = D[n - 1]
    BY <1>4, <1>8
  <2> QED
    BY <1>8, <2>1 DEF D
<1> QED
  BY <1>6, <1>7, <1>8

---------------------------------------------------------------------------
(* The tables of the code against what the instructions mean, one          *)
(* instruction at a time.                                                  *)

Rules == [rel : {0, 1}, type : {OFFSET, VAL_OFFSET, EXPRESSION, VAL_EXPRESSION},
          reg : Int, off : Int]
Tables == [cfa : Rules, rules : [Regs -> Rules]]

\* Says() for a value c of cfa_value.
SaysFor(c, rule, meant) ==
  CASE meant.kind = "offset"    -> rule.rel = 1 /\ rule.reg = c /\ rule.off = meant.n
    [] meant.kind = "undefined" -> rule.rel = 0 /\ rule.reg = UNDEFINED
    [] meant.kind = "same"      -> rule.rel = 0 /\ rule.reg = SAME
    [] meant.kind = "register"  -> rule.rel = 0 /\ rule.reg = meant.n
    [] OTHER -> TRUE

TableSays(c, t, cfa, rules) ==
  /\ \A r \in Regs : SaysFor(c, t.rules[r], rules[r])
  /\ SaysCfa(t.cfa, cfa)

(* The shadow table sh after n instructions: the state remembered, or the  *)
(* initial rules as long as none was.                                      *)
Remembers(c, sh, is, n, stack, known) ==
  /\ Depth(is)[n] = 0 => stack = << >>
  /\ Depth(is)[n] = 1 =>
       \E s : stack = <<s>> /\ TableSays(c, sh, s.cfa, s.rules)
  /\ (\A j \in 1 .. n : is[j].op # "remember_state") =>
       \A r \in Regs : SaysFor(c, sh.rules[r], known[r])

\* The table t, the shadow table sh and the location l after n instructions.
Agrees(c, t, sh, l, is, n, m, known, locs) ==
  /\ ~m.error
  /\ m.loc = l
  /\ TableSays(c, t, m.cfa, m.rules)
  /\ l \in locs => Remembers(c, sh, is, n, m.stack, known)

\* A rule that is set says what the instruction means.
LEMMA NewRuleSays ==
  ASSUME NEW i \in Instructions, i.op \in RuleOps, i.r \in Regs, NEW old \in Rules,
         NEW e, NEW known, e.daf = Daf, e.daf \in Int, cfa_value \in Int,
         shadow \in Tables,
         i.op = "restore" => SaysFor(cfa_value, shadow.rules[i.r], known[i.r])
  PROVE  /\ NewRule(i, old) \in Rules
         /\ SaysFor(cfa_value, NewRule(i, old), MeantRule(i, e, known))
<1>1. i.n \in Int /\ i.n * e.daf \in Int
  <2>1. i.n \in Int
    BY DEF Instructions
  <2> QED
    BY <2>1
<1>2. CASE i.op \in {"offset", "val_offset"}
  <2> DEFINE d == i.n * e.daf
             t == IF i.op = "offset" THEN OFFSET ELSE VAL_OFFSET
  <2>1. NewRule(i, old) = [rel |-> 1, type |-> t, reg |-> cfa_value, off |-> d]
    BY <1>2 DEF NewRule
  <2>2. i.op = "offset" => MeantRule(i, e, known) = [kind |-> "offset", n |-> d]
    BY DEF MeantRule
  <2>3. i.op = "val_offset" => MeantRule(i, e, known) = Computed
    BY DEF MeantRule
  <2>4. d \in Int /\ t \in {OFFSET, VAL_OFFSET}
    BY <1>1
  <2> HIDE DEF d, t
  <2>5. NewRule(i, old) \in Rules
    BY <2>1, <2>4 DEF Rules
  <2> QED
    BY <1>2, <2>1, <2>2, <2>3, <2>5 DEF SaysFor, Computed
<1>3. CASE i.op = "restore"
  <2>1. NewRule(i, old) = shadow.rules[i.r] /\ MeantRule(i, e, known) = known[i.r]
    BY <1>3 DEF NewRule, MeantRule
  <2>2. shadow.rules[i.r] \in Rules
    BY DEF Tables
  <2> QED
    BY <1>3, <2>1, <2>2
<1>4. CASE i.op \in {"undefined", "same_value", "register"}
  <2> DEFINE d == CASE i.op = "undefined" -> UNDEFINED
                    [] i.op = "same_value" -> SAME
                    [] OTHER -> i.n
  <2>1. NewRule(i, old) = [old EXCEPT !.rel = 0, !.reg = d]
    BY <1>4 DEF NewRule
  <2>2. /\ i.op = "undefined" => d = UNDEFINED
        /\ i.op = "same_value" => d = SAME
        /\ i.op = "register" => d = i.n
    OBVIOUS
  <2>3. d \in Int
    BY <1>1, <1>4, <2>2 DEF UNDEFINED, SAME
  <2> HIDE DEF d
  <2>4. /\ NewRule(i, old) \in Rules
        /\ NewRule(i, old).rel = 0 /\ NewRule(i, old).reg = d
    BY <2>1, <2>3 DEF Rules
  <2>5. /\ i.op = "undefined" => MeantRule(i, e, known) = [kind |-> "undefined", n |-> 0]
        /\ i.op = "same_value" => MeantRule(i, e, known) = Same
        /\ i.op = "register" => MeantRule(i, e, known) = [kind |-> "register", n |-> i.n]
    BY DEF MeantRule
  <2> QED
    BY <1>4, <2>2, <2>4, <2>5 DEF SaysFor, Same
<1>5. CASE i.op \in {"expression", "val_expression"}
  <2>1. NewRule(i, old) \in Rules
    BY <1>1, <1>5 DEF NewRule, Rules, EXPRESSION, VAL_EXPRESSION
  <2>2. MeantRule(i, e, known) = Computed
    BY <1>5 DEF MeantRule
  <2> QED
    BY <2>1, <2>2 DEF SaysFor, Computed
<1> QED
  BY <1>2, <1>3, <1>4, <1>5 DEF RuleOps

\* The rule of the CFA that is set says what the instruction means.
LEMMA NewCfaSays ==
  ASSUME NEW i \in Instructions, i.op \in CfaOps, NEW old \in Rules, NEW m, NEW e,
         e.daf = Daf, e.daf \in Int, SaysCfa(old, m.cfa)
  PROVE  /\ NewCfa(i, old) \in Rules
         /\ SaysCfa(NewCfa(i, old), MeantCfa(m, i, e))
<1>1. i.n \in Int /\ i.r \in Int /\ i.n * e.daf \in Int
  <2>1. i.n \in Int /\ i.r \in Int
    BY DEF Instructions
  <2> QED
    BY <2>1
<1>2. CASE i.op \in {"def_cfa", "def_cfa_sf"}
  <2> DEFINE d == IF i.op = "def_cfa" THEN i.n ELSE i.n * e.daf
  <2>1. NewCfa(i, old) = [rel |-> 1, type |-> OFFSET, reg |-> i.r, off |-> d]
    BY <1>2 DEF NewCfa
  <2>2. MeantCfa(m, i, e) = Cfa("offset", i.r, d)
    BY <1>2 DEF MeantCfa
  <2>3. d \in Int
    BY <1>1
  <2> HIDE DEF d
  <2>4. NewCfa(i, old) \in Rules
    BY <1>1, <2>1, <2>3 DEF Rules
  <2> QED
    BY <2>1, <2>2, <2>4 DEF SaysCfa, Cfa
<1>3. CASE i.op = "def_cfa_register"
  <2>1. NewCfa(i, old) = [old EXCEPT !.reg = i.r]
    BY <1>3 DEF NewCfa
  <2>2. MeantCfa(m, i, e) = Cfa(m.cfa.kind, i.r, m.cfa.n)
    BY <1>3 DEF MeantCfa
  <2>3. /\ NewCfa(i, old) \in Rules /\ NewCfa(i, old).reg = i.r
        /\ NewCfa(i, old).rel = old.rel /\ NewCfa(i, old).off = old.off
    BY <1>1, <2>1 DEF Rules
  <2> QED
    BY <2>2, <2>3 DEF SaysCfa, Cfa
<1>4. CASE i.op = "def_cfa_offset"
  <2>1. NewCfa(i, old) = [old EXCEPT !.rel = 1, !.type = OFFSET, !.off = i.n]
    BY <1>4 DEF NewCfa
  <2>2. MeantCfa(m, i, e) = Cfa(m.cfa.kind, m.cfa.reg, i.n)
    BY <1>4 DEF MeantCfa
  <2>3. /\ NewCfa(i, old) \in Rules /\ NewCfa(i, old).reg = old.reg
        /\ NewCfa(i, old).rel = 1 /\ NewCfa(i, old).off = i.n
    BY <1>1, <2>1 DEF Rules
  <2> QED
    BY <2>2, <2>3 DEF SaysCfa, Cfa
<1>5. CASE i.op = "def_cfa_expression"
  <2>1. NewCfa(i, old) = [old EXCEPT !.rel = 0, !.type = EXPRESSION, !.off = i.n]
    BY <1>5 DEF NewCfa
  <2>2. MeantCfa(m, i, e) = Cfa("computed", m.cfa.reg, m.cfa.n)
    BY <1>5 DEF MeantCfa
  <2>3. NewCfa(i, old) \in Rules
    BY <1>1, <2>1 DEF Rules
  <2> QED
    BY <2>2, <2>3 DEF SaysCfa, Cfa
<1> QED
  BY <1>2, <1>3, <1>4, <1>5 DEF CfaOps

\* What an instruction leaves.
LEMMA StepLeaves ==
  ASSUME NEW m, NEW i, NEW e, NEW known
  PROVE  /\ i.op \notin {"advance", "set_loc"} => Step(m, i, e, known).loc = m.loc
         /\ i.op \notin CfaOps \cup {"restore_state"} => Step(m, i, e, known).cfa = m.cfa
         /\ i.op \notin RuleOps \cup {"restore_state"} =>
              Step(m, i, e, known).rules = m.rules
         /\ i.op \notin {"remember_state", "restore_state"} =>
              Step(m, i, e, known).stack = m.stack
         /\ i.op # "unknown" /\ (i.op \in RuleOps => i.r \in Regs) =>
              ~Step(m, i, e, known).error
<1>1. i.op \notin {"advance", "set_loc"} => MeantLoc(m, i, e) = m.loc
  BY DEF MeantLoc
<1>2. i.op \notin CfaOps \cup {"restore_state"} => MeantCfa(m, i, e) = m.cfa
  BY DEF MeantCfa, CfaOps
<1>3. i.op \notin RuleOps \cup {"restore_state"} => MeantRules(m, i, e, known) = m.rules
  BY DEF MeantRules
<1>4. i.op \notin {"remember_state", "restore_state"} => MeantStack(m, i) = m.stack
  BY DEF MeantStack
<1>5. i.op # "unknown" /\ (i.op \in RuleOps => i.r \in Regs) => ~Wrong(i)
  BY DEF Wrong
<1> QED
  BY <1>1, <1>2, <1>3, <1>4, <1>5, StepIs, ZenonT(60)

\* Other instructions leave what is remembered.
LEMMA RemembersOn ==
  ASSUME NEW c, NEW sh, NEW is, NEW n \in 1 .. Len(is), NEW stack, NEW known,
         ProgramOK(is), Sound(is), is[n].op \notin {"remember_state", "restore_state"},
         Remembers(c, sh, is, n - 1, stack, known)
  PROVE  Remembers(c, sh, is, n, stack, known)
<1>1. Depth(is)[n] = Depth(is)[n - 1]
  BY DepthMoves
<1>2. \A j \in 1 .. n - 1 : j \in 1 .. n
  BY ProgramFacts
<1> QED
  BY <1>1, <1>2 DEF Remembers

(* The code is about to run instruction p of is, and the tables agree with *)
(* what those before it mean.                                              *)
Ready(is, e, m, known, locs) ==
  /\ p \in 1 .. Len(is) /\ Insts = is /\ ProgramOK(is) /\ Sound(is)
  /\ e.caf = Caf /\ e.caf \in Nat /\ e.daf = Daf /\ e.daf \in Int
  /\ cfa_value \in Int /\ rt \in Tables /\ shadow \in Tables
  /\ pc \in locs /\ pc \in Nat
  /\ Agrees(cfa_value, rt, shadow, pc, is, p - 1, m, known, locs)

\* After it they agree with what it means, too.
Goes(is, e, m, known, locs) ==
  /\ rt' \in Tables /\ shadow' \in Tables
  /\ Agrees(cfa_value, rt', shadow', pc', is, p, Step(m, is[p], e, known), known, locs)

\* What being ready gives for the instruction at hand.
LEMMA ReadyFacts ==
  ASSUME NEW is, NEW e, NEW m, NEW known, NEW locs, Ready(is, e, m, known, locs)
  PROVE  /\ Inst = is[p] /\ is[p] \in Instructions /\ is[p].op # "set_loc"
         /\ is[p].op = "advance" => is[p].n \in Nat
         /\ ~m.error /\ m.loc = pc
         /\ TableSays(cfa_value, rt, m.cfa, m.rules)
         /\ Remembers(cfa_value, shadow, is, p - 1, m.stack, known)
<1>1. p \in 1 .. Len(is) /\ Insts = is /\ ProgramOK(is) /\ Sound(is)
  BY DEF Ready
<1>2. Inst = is[p]
  BY <1>1 DEF Inst
<1>3. is[p] \in Instructions /\ (is[p].op = "advance" => is[p].n \in Nat)
  BY <1>1, ProgramFacts
<1>4. is[p].op # "set_loc"
  BY <1>1 DEF Sound
<1>5. Agrees(cfa_value, rt, shadow, pc, is, p - 1, m, known, locs) /\ pc \in locs
  BY DEF Ready
<1>6. /\ ~m.error /\ m.loc = pc /\ TableSays(cfa_value, rt, m.cfa, m.rules)
      /\ Remembers(cfa_value, shadow, is, p - 1, m.stack, known)
  BY <1>5, Zenon DEF Agrees
<1> QED
  BY <1>2, <1>3, <1>4, <1>6

\* Nop, and an advance.
LEMMA AdvanceGoes ==
  ASSUME NEW is, NEW e, NEW m, NEW known, NEW locs, Ready(is, e, m, known, locs),
         Advance \/ Nop
  PROVE  Goes(is, e, m, known, locs)
<1> DEFINE i == is[p]
           s == Step(m, i, e, known)
<1>1. /\ Inst = i /\ m.loc = pc
      /\ TableSays(cfa_value, rt, m.cfa, m.rules)
      /\ Remembers(cfa_value, shadow, is, p - 1, m.stack, known)
  BY ReadyFacts
<1>2. p \in 1 .. Len(is) /\ ProgramOK(is) /\ Sound(is) /\ e.caf = Caf
      /\ rt \in Tables /\ shadow \in Tables
  BY DEF Ready
<1>3. /\ i.op \in {"advance", "nop"} /\ rt' = rt /\ shadow' = shadow
      /\ pc' = IF i.op = "advance" THEN pc + i.n * Caf ELSE pc
  BY <1>1 DEF Advance, Nop, Is
<1>4. i.op \notin RuleOps /\ i.op \notin CfaOps
  BY <1>3 DEF RuleOps, CfaOps
<1>5. s.cfa = m.cfa /\ s.rules = m.rules /\ s.stack = m.stack /\ ~s.error
  <2> HIDE DEF i
  <2> QED
    BY <1>3, <1>4, StepLeaves
<1>6. s.loc = pc'
  <2>1. s.loc = MeantLoc(m, i, e)
    BY StepIs
  <2>2. MeantLoc(m, i, e) = IF i.op = "advance" THEN m.loc + i.n * e.caf ELSE m.loc
    BY <1>3 DEF MeantLoc
  <2> HIDE DEF s, i
  <2> QED
    BY <1>1, <1>2, <1>3, <2>1, <2>2
<1>7. Remembers(cfa_value, shadow, is, p, m.stack, known)
  BY <1>1, <1>2, <1>3, RemembersOn
<1>8. Agrees(cfa_value, rt', shadow', pc', is, p, s, known, locs)
  <2> HIDE DEF s
  <2> QED
    BY <1>1, <1>3, <1>5, <1>6, <1>7, Zenon DEF Agrees
<1> QED
  BY <1>2, <1>3, <1>8 DEF Goes

\* A table with a rule set.
LEMMA TableSet ==
  ASSUME NEW t \in Tables, NEW v \in Rules, NEW r \in Regs
  PROVE  /\ [t EXCEPT !.rules[r] = v] \in Tables
         /\ [t EXCEPT !.rules[r] = v].cfa = t.cfa
         /\ \A q \in Regs : [t EXCEPT !.rules[r] = v].rules[q] =
                              IF q = r THEN v ELSE t.rules[q]
BY DEF Tables

\* An instruction that sets a register's rule.
LEMMA RuleGoes ==
  ASSUME NEW is, NEW e, NEW m, NEW known, NEW locs, Ready(is, e, m, known, locs), SetRule
  PROVE  Goes(is, e, m, known, locs)
<1> DEFINE i == is[p]
           s == Step(m, i, e, known)
           v == NewRule(i, rt.rules[i.r])
<1>1. /\ Inst = i /\ m.loc = pc /\ i \in Instructions
      /\ TableSays(cfa_value, rt, m.cfa, m.rules)
      /\ Remembers(cfa_value, shadow, is, p - 1, m.stack, known)
  BY ReadyFacts
<1>2. p \in 1 .. Len(is) /\ ProgramOK(is) /\ Sound(is) /\ e.daf = Daf /\ e.daf \in Int
      /\ rt \in Tables /\ shadow \in Tables /\ cfa_value \in Int
  BY DEF Ready
<1>3. /\ i.op \in RuleOps /\ i.r \in Regs /\ shadow' = shadow /\ pc' = pc
      /\ rt' = [rt EXCEPT !.rules[i.r] = v]
  BY <1>1 DEF SetRule
<1>4. /\ i.op \notin {"advance", "set_loc", "remember_state", "restore_state", "unknown"}
      /\ i.op \notin CfaOps
  BY <1>3 DEF RuleOps, CfaOps
<1>5. s.cfa = m.cfa /\ s.loc = pc /\ s.stack = m.stack /\ ~s.error
  <2> HIDE DEF i
  <2> QED
    BY <1>1, <1>3, <1>4, StepLeaves
<1>6. ASSUME i.op = "restore"
      PROVE  SaysFor(cfa_value, shadow.rules[i.r], known[i.r])
  <2>1. \A j \in 1 .. p - 1 : is[j].op # "remember_state"
    BY <1>2, <1>6 DEF Sound
  <2> HIDE DEF i
  <2> QED
    BY <1>1, <1>3, <2>1 DEF Remembers
<1>7. v \in Rules /\ SaysFor(cfa_value, v, MeantRule(i, e, known))
  <2>1. rt.rules[i.r] \in Rules
    BY <1>2, <1>3 DEF Tables
  <2> HIDE DEF i
  <2> QED
    BY <1>1, <1>2, <1>3, <1>6, <2>1, NewRuleSays
<1> HIDE DEF v
<1>8. /\ rt' \in Tables /\ rt'.cfa = rt.cfa
      /\ \A q \in Regs : rt'.rules[q] = IF q = i.r THEN v ELSE rt.rules[q]
  <2> DEFINE q == i.r
             t == [rt EXCEPT !.rules[q] = v]
  <2>1. rt' = t /\ q \in Regs
    BY <1>3
  <2> HIDE DEF q
  <2>2. /\ t \in Tables /\ t.cfa = rt.cfa
        /\ \A k \in Regs : t.rules[k] = IF k = q THEN v ELSE rt.rules[k]
    BY <1>2, <1>7, <2>1, TableSet
  <2> HIDE DEF t
  <2> QED
    BY <2>1, <2>2, Zenon DEF q
<1>9. \A q \in Regs : s.rules[q] = IF q = i.r THEN MeantRule(i, e, known) ELSE m.rules[q]
  <2>1. s.rules = MeantRules(m, i, e, known)
    BY StepIs
  <2> HIDE DEF i, s
  <2>2. MeantRules(m, i, e, known) =
          [r \in Regs |-> IF r = i.r THEN MeantRule(i, e, known) ELSE m.rules[r]]
    BY <1>3, <1>4 DEF MeantRules
  <2> QED
    BY <2>1, <2>2
<1>10. TableSays(cfa_value, rt', s.cfa, s.rules)
  <2> HIDE DEF i, s
  <2>1. ASSUME NEW q \in Regs
        PROVE  SaysFor(cfa_value, rt'.rules[q], s.rules[q])
    <3>1. SaysFor(cfa_value, rt.rules[q], m.rules[q])
      BY <1>1 DEF TableSays
    <3> QED
      BY <1>7, <1>8, <1>9, <3>1
  <2>2. SaysCfa(rt'.cfa, s.cfa)
    BY <1>1, <1>5, <1>8 DEF TableSays
  <2> QED
    BY <2>1, <2>2 DEF TableSays
<1>11. Remembers(cfa_value, shadow, is, p, m.stack, known)
  BY <1>1, <1>2, <1>4, RemembersOn
<1>12. Agrees(cfa_value, rt', shadow', pc', is, p, s, known, locs)
  <2> HIDE DEF s
  <2> QED
    BY <1>3, <1>5, <1>10, <1>11, Zenon DEF Agrees
<1> QED
  BY <1>2, <1>3, <1>8, <1>12 DEF Goes

\* An instruction that sets the rule of the CFA.
LEMMA CfaGoes ==
  ASSUME NEW is, NEW e, NEW m, NEW known, NEW locs, Ready(is, e, m, known, locs), SetCfa
  PROVE  Goes(is, e, m, known, locs)
<1> DEFINE i == is[p]
           s == Step(m, i, e, known)
           v == NewCfa(i, rt.cfa)
<1>1. /\ Inst = i /\ m.loc = pc /\ i \in Instructions
      /\ TableSays(cfa_value, rt, m.cfa, m.rules)
      /\ Remembers(cfa_value, shadow, is, p - 1, m.stack, known)
  BY ReadyFacts
<1>2. p \in 1 .. Len(is) /\ ProgramOK(is) /\ Sound(is) /\ e.daf = Daf /\ e.daf \in Int
      /\ rt \in Tables /\ shadow \in Tables
  BY DEF Ready
<1>3. /\ i.op \in CfaOps /\ shadow' = shadow /\ pc' = pc
      /\ rt' = [rt EXCEPT !.cfa = v]
  BY <1>1 DEF SetCfa
<1>4. /\ i.op \notin {"advance", "set_loc", "remember_state", "restore_state", "unknown"}
      /\ i.op \notin RuleOps
  BY <1>3 DEF RuleOps, CfaOps
<1>5. s.rules = m.rules /\ s.loc = pc /\ s.stack = m.stack /\ ~s.error
  <2> HIDE DEF i
  <2> QED
    BY <1>1, <1>4, StepLeaves
<1>6. s.cfa = MeantCfa(m, i, e)
  BY StepIs
<1>7. v \in Rules /\ SaysCfa(v, MeantCfa(m, i, e))
  <2>1. rt.cfa \in Rules /\ SaysCfa(rt.cfa, m.cfa)
    BY <1>1, <1>2 DEF Tables, TableSays
  <2> HIDE DEF i
  <2> QED
    BY <1>1, <1>2, <1>3, <2>1, NewCfaSays
<1> HIDE DEF v, i
<1>8. rt' \in Tables /\ rt'.cfa = v /\ rt'.rules = rt.rules
  <2>1. ASSUME NEW t \in Tables, NEW w \in Rules
        PROVE  /\ [t EXCEPT !.cfa = w] \in Tables
               /\ [t EXCEPT !.cfa = w].cfa = w
               /\ [t EXCEPT !.cfa = w].rules = t.rules
    BY DEF Tables
  <2> QED
    BY <1>2, <1>3, <1>7, <2>1
<1>9. TableSays(cfa_value, rt', s.cfa, s.rules)
  <2> HIDE DEF s
  <2> QED
    BY <1>1, <1>5, <1>6, <1>7, <1>8 DEF TableSays
<1>10. Remembers(cfa_value, shadow, is, p, m.stack, known)
  BY <1>1, <1>2, <1>4, RemembersOn DEF i
<1>11. Agrees(cfa_value, rt', shadow', pc', is, p, s, known, locs)
  <2> HIDE DEF s
  <2> QED
    BY <1>3, <1>5, <1>9, <1>10, Zenon DEF Agrees
<1> QED
  BY <1>2, <1>3, <1>8, <1>11 DEF Goes, i

\* A stack of one.
LEMMA StackOfOne ==
  ASSUME NEW x
  PROVE  <<x>> \o << >> = <<x>> /\ Head(<<x>>) = x /\ Tail(<<x>>) = << >>
<1>1. Head(<<x>>) = x
  OBVIOUS
<1>2. Tail(<<x>>) = << >>
  OBVIOUS
<1>3. <<x>> \o << >> = <<x>>
  OBVIOUS
<1> QED
  BY <1>1, <1>2, <1>3

\* A state is remembered: there was none, so no other is lost.
LEMMA RememberGoes ==
  ASSUME NEW is, NEW e, NEW m, NEW known, NEW locs, Ready(is, e, m, known, locs),
         RememberState
  PROVE  Goes(is, e, m, known, locs)
<1> DEFINE i == is[p]
           s == Step(m, i, e, known)
           x == [cfa |-> m.cfa, rules |-> m.rules]
<1>1. /\ Inst = i /\ m.loc = pc
      /\ TableSays(cfa_value, rt, m.cfa, m.rules)
      /\ Remembers(cfa_value, shadow, is, p - 1, m.stack, known)
  BY ReadyFacts
<1>2. p \in 1 .. Len(is) /\ ProgramOK(is) /\ Sound(is)
      /\ rt \in Tables /\ shadow \in Tables
  BY DEF Ready
<1>3. i.op = "remember_state" /\ rt' = rt /\ shadow' = rt /\ pc' = pc
  BY <1>1 DEF RememberState, Is
<1>4. i.op \notin RuleOps /\ i.op \notin CfaOps
  BY <1>3 DEF RuleOps, CfaOps
<1>5. s.cfa = m.cfa /\ s.rules = m.rules /\ s.loc = pc /\ ~s.error
  <2> HIDE DEF i
  <2> QED
    BY <1>1, <1>3, <1>4, StepLeaves
<1>6. Depth(is)[p - 1] = 0 /\ Depth(is)[p] = 1
  BY <1>2, <1>3, DepthMoves
<1>7. s.stack = <<x>>
  <2>1. s.stack = MeantStack(m, i)
    BY StepIs
  <2>2. MeantStack(m, i) = <<x>> \o m.stack
    BY <1>3 DEF MeantStack
  <2>3. m.stack = << >>
    BY <1>1, <1>6 DEF Remembers
  <2> HIDE DEF x, s
  <2>4. <<x>> \o << >> = <<x>>
    BY StackOfOne
  <2> QED
    BY <2>1, <2>2, <2>3, <2>4, Zenon
<1>8. x.cfa = m.cfa /\ x.rules = m.rules
  OBVIOUS
<1> HIDE DEF x
<1>9. Remembers(cfa_value, rt, is, p, s.stack, known)
  <2>1. TableSays(cfa_value, rt, x.cfa, x.rules)
    BY <1>1, <1>8, Zenon
  <2>2. \E y : s.stack = <<y>> /\ TableSays(cfa_value, rt, y.cfa, y.rules)
    BY <1>7, <2>1, Zenon
  <2>3. ~\A j \in 1 .. p : is[j].op # "remember_state"
    BY <1>2, <1>3
  <2>4. Depth(is)[p] # 0
    BY <1>6
  <2> HIDE DEF s
  <2> QED
    BY <2>2, <2>3, <2>4, Zenon DEF Remembers
<1>10. Agrees(cfa_value, rt', shadow', pc', is, p, s, known, locs)
  <2> HIDE DEF s
  <2> QED
    BY <1>1, <1>3, <1>5, <1>9, Zenon DEF Agrees
<1> QED
  BY <1>2, <1>3, <1>10 DEF Goes

\* A state is restored: the one that was remembered last.
LEMMA RestoreGoes ==
  ASSUME NEW is, NEW e, NEW m, NEW known, NEW locs, Ready(is, e, m, known, locs),
         RestoreState
  PROVE  Goes(is, e, m, known, locs)
<1> DEFINE i == is[p]
           s == Step(m, i, e, known)
<1>1. /\ Inst = i /\ m.loc = pc
      /\ Remembers(cfa_value, shadow, is, p - 1, m.stack, known)
  BY ReadyFacts
<1>2. p \in 1 .. Len(is) /\ ProgramOK(is) /\ Sound(is)
      /\ rt \in Tables /\ shadow \in Tables
  BY DEF Ready
<1>3. i.op = "restore_state" /\ rt' = shadow /\ shadow' = shadow /\ pc' = pc
  BY <1>1 DEF RestoreState, Is
<1>4. i.op \notin RuleOps /\ i.op \notin CfaOps
  BY <1>3 DEF RuleOps, CfaOps
<1>5. s.loc = pc /\ ~s.error
  <2> HIDE DEF i
  <2> QED
    BY <1>1, <1>3, <1>4, StepLeaves
<1>6. Depth(is)[p - 1] = 1 /\ Depth(is)[p] = 0
  BY <1>2, <1>3, DepthMoves
<1>7. PICK x : m.stack = <<x>> /\ TableSays(cfa_value, shadow, x.cfa, x.rules)
  BY <1>1, <1>6 DEF Remembers
<1>8. s.cfa = x.cfa /\ s.rules = x.rules /\ s.stack = << >>
  <2>1. /\ s.cfa = MeantCfa(m, i, e) /\ s.rules = MeantRules(m, i, e, known)
        /\ s.stack = MeantStack(m, i)
    BY StepIs
  <2>2. MeantCfa(m, i, e) = Head(m.stack).cfa
    BY <1>3 DEF MeantCfa
  <2>3. MeantRules(m, i, e, known) = Head(m.stack).rules
    BY <1>3, <1>4 DEF MeantRules
  <2>4. MeantStack(m, i) = Tail(m.stack)
    BY <1>3 DEF MeantStack
  <2>5. Head(<<x>>) = x /\ Tail(<<x>>) = << >>
    BY StackOfOne
  <2> HIDE DEF s, i
  <2> QED
    BY <1>7, <2>1, <2>2, <2>3, <2>4, <2>5, Zenon
<1>9. Remembers(cfa_value, shadow, is, p, s.stack, known)
  <2>1. (\A j \in 1 .. p : is[j].op # "remember_state") =>
          \A j \in 1 .. p - 1 : is[j].op # "remember_state"
    BY <1>2
  <2>2. Depth(is)[p] # 1
    BY <1>6
  <2> HIDE DEF s
  <2> QED
    BY <1>1, <1>8, <2>1, <2>2, Zenon DEF Remembers
<1>10. TableSays(cfa_value, shadow, s.cfa, s.rules)
  <2> HIDE DEF s
  <2> QED
    BY <1>7, <1>8, Zenon
<1>11. Agrees(cfa_value, rt', shadow', pc', is, p, s, known, locs)
  <2> HIDE DEF s
  <2> QED
    BY <1>3, <1>5, <1>9, <1>10, Zenon DEF Agrees
<1> QED
  BY <1>2, <1>3, <1>11 DEF Goes

---------------------------------------------------------------------------
(* The invariant.                                                          *)

Types ==
  /\ cfa_value \in {CFA_COL, CFA_COL3}
  /\ asked \in Nat
  /\ rt \in Tables /\ shadow \in Tables
  /\ at \in {"cie", "fde"} => p \in 1 .. Len(Insts) + 1 /\ pc \in Nat

\* There is no answer before the end of a lookup.
Answered ==
  /\ lookups \in Nat
  /\ at # "idle" => lookups # 0 /\ answer = "none"
  /\ lookups = 0 => answer = "none"

\* The tables agree with what the instructions of the CIE so far mean.
InCie ==
  at = "cie" /\ Sound(section[cie].insts) =>
    Agrees(cfa_value, rt, shadow, pc, section[cie].insts, p - 1,
           CieMeans(section[cie])[p - 1], AllSame, Nat)

Known(e) == CieMeans(e)[Len(e.insts)].rules

NoSame(is) == \A n \in 1 .. Len(is) : is[n].op # "same_value"

\* The rules at address row, w, are those at the address asked about, m.
SameRow(row, m, w) ==
  /\ w.rules = m.rules /\ w.cfa = m.cfa
  /\ w = m \/ w.loc \notin 0 .. row

(* And with those of the description; no instruction has run that is for   *)
(* addresses after the one asked about.                                    *)
FdeAgrees ==
  LET e == section[cie]
      f == section[fde]
      n == p - 1
  IN  /\ Agrees(cfa_value, rt, shadow, pc, f.insts, n, FdeMeans(e, f, asked)[n],
                Known(e), 0 .. asked)
      /\ p <= Len(f.insts) => pc <= asked
      /\ row_pc \in Nat /\ row_pc <= asked /\ row_pc <= pc
      /\ NoSame(f.insts) =>
           SameRow(row_pc, FdeMeans(e, f, asked)[n], FdeMeans(e, f, row_pc)[n])

InFde ==
  at = "fde" /\ Sound(section[cie].insts) /\ Sound(section[fde].insts) => FdeAgrees

TableInv == Types /\ Answered /\ InCie /\ InFde /\ TableRight

\* The entries whose instructions run.
LEMMA EntryFacts ==
  ASSUME Inv, at \in Working
  PROVE  /\ ProgramOK(section[cie].insts) /\ ProgramOK(section[fde].insts)
         /\ section[cie].caf \in Nat /\ section[cie].daf \in Int
         /\ section[fde].loc \in Nat /\ section[fde].loc <= asked
         /\ cie = section[fde].cie
<1>1. fde \in Described(asked) /\ cie = section[fde].cie /\ section \in Sections
  BY DEF Inv, FdeFound, Working
<1>2. SectionOK(section) /\ DOMAIN section = 1 .. Len(section) /\ Len(section) \in Nat
  BY <1>1, FrameProgramAssumption, SectionFacts
<1>3. /\ fde \in 1 .. Len(section) /\ section[fde].kind = "fde"
      /\ Covers(section[fde], asked)
  BY <1>1, <1>2 DEF Described, Reachable
<1>4. cie \in 1 .. fde - 1 /\ section[cie].kind = "cie"
  BY <1>1, <1>3, SectionFacts
<1>5. cie \in DOMAIN section /\ fde \in DOMAIN section
  BY <1>2, <1>3, <1>4
<1>6. ProgramOK(section[cie].insts) /\ section[cie].caf \in Nat /\ section[cie].daf \in Int
  BY <1>2, <1>4, <1>5 DEF SectionOK
<1>7. ProgramOK(section[fde].insts) /\ section[fde].loc \in Nat
  BY <1>2, <1>3, <1>5 DEF SectionOK
<1>8. section[fde].loc <= asked
  BY <1>3, <1>7 DEF Covers
<1> QED
  BY <1>1, <1>6, <1>7, <1>8

\* Where the instructions of a description start.
FdeStart(e, f) ==
  [loc |-> f.loc, cfa |-> CieMeans(e)[Len(e.insts)].cfa, rules |-> Known(e),
   stack |-> << >>, error |-> CieMeans(e)[Len(e.insts)].error]

\* Field by field.
LEMMA FdeStartIs ==
  ASSUME NEW e, NEW f
  PROVE  /\ FdeStart(e, f).loc = f.loc
         /\ FdeStart(e, f).cfa = CieMeans(e)[Len(e.insts)].cfa
         /\ FdeStart(e, f).rules = Known(e)
         /\ FdeStart(e, f).stack = << >>
         /\ FdeStart(e, f).error = CieMeans(e)[Len(e.insts)].error
<1> DEFINE l == f.loc
           c == CieMeans(e)[Len(e.insts)].cfa
           r == Known(e)
           w == CieMeans(e)[Len(e.insts)].error
           x == [loc |-> l, cfa |-> c, rules |-> r, stack |-> << >>, error |-> w]
<1>1. FdeStart(e, f) = x
  BY DEF FdeStart
<1> HIDE DEF l, c, r, w
<1>2. x.loc = l /\ x.cfa = c /\ x.rules = r /\ x.stack = << >>
  OBVIOUS
<1>3. x.error = w
  BY Zenon
<1> HIDE DEF x
<1> QED
  BY <1>1, <1>2, <1>3, Zenon DEF l, c, r, w

\* The instructions of a CIE, and of a description, from their start.
LEMMA EntriesRun ==
  ASSUME NEW e, ProgramOK(e.insts)
  PROVE  /\ Runs(CieMeans(e), e.insts, e, AllSame, Blank, Nat)
         /\ \A f, a : ProgramOK(f.insts) =>
              Runs(FdeMeans(e, f, a), f.insts, e, Known(e), FdeStart(e, f), 0 .. a)
<1>1. Runs(CieMeans(e), e.insts, e, AllSame, Blank, Nat)
  <2>1. Len(e.insts) \in Nat
    BY ProgramFacts
  <2>2. CieMeans(e) = Means(e.insts, e, AllSame, Blank, Nat)
    BY DEF CieMeans
  <2> QED
    BY <2>1, <2>2, MeansRuns
<1>2. ASSUME NEW f, NEW a, ProgramOK(f.insts)
      PROVE  Runs(FdeMeans(e, f, a), f.insts, e, Known(e), FdeStart(e, f), 0 .. a)
  <2>1. Len(f.insts) \in Nat
    BY <1>2, ProgramFacts
  <2>2. FdeMeans(e, f, a) = Means(f.insts, e, Known(e), FdeStart(e, f), 0 .. a)
    BY Zenon DEF FdeMeans, FdeStart, Known
  <2> QED
    BY <2>1, <2>2, MeansRuns
<1> QED
  BY <1>1, <1>2

\* An instruction that changes no rule keeps them those of the row.
LEMMA SameRowOn ==
  ASSUME NEW row, NEW m, NEW w, NEW x, NEW y, NEW i, NEW e, NEW known,
         SameRow(row, m, w), ~m.error,
         i.op \notin RuleOps, i.op \notin CfaOps, i.op # "restore_state",
         x = Step(m, i, e, known),
         y = IF w.error \/ w.loc \notin 0 .. row THEN w ELSE Step(w, i, e, known)
  PROVE  SameRow(row, x, y)
<1>1. x.rules = m.rules /\ x.cfa = m.cfa
  BY StepLeaves
<1>2. CASE w = m /\ w.loc \in 0 .. row
  <2>1. y = x
    BY <1>2, Zenon
  <2> QED
    BY <2>1 DEF SameRow
<1>3. CASE w.loc \notin 0 .. row
  <2>1. y = w
    BY <1>3, Zenon
  <2> QED
    BY <1>1, <1>3, <2>1 DEF SameRow
<1> QED
  BY <1>2, <1>3 DEF SameRow

\* Instructions that go on with the next.
Going == Advance \/ Nop \/ SetRule \/ SetCfa \/ RememberState \/ RestoreState

\* Each of them keeps the tables agreeing with what is meant.
LEMMA StepGoes ==
  ASSUME NEW is, NEW e, NEW m, NEW known, NEW locs, Ready(is, e, m, known, locs), Going
  PROVE  Goes(is, e, m, known, locs)
<1>1. CASE Advance \/ Nop
  BY <1>1, AdvanceGoes
<1>2. CASE SetRule
  BY <1>2, RuleGoes
<1>3. CASE SetCfa
  BY <1>3, CfaGoes
<1>4. CASE RememberState
  BY <1>4, RememberGoes
<1>5. CASE RestoreState
  BY <1>5, RestoreGoes
<1> QED
  BY <1>1, <1>2, <1>3, <1>4, <1>5 DEF Going

\* What such an instruction leaves, and where it goes.
LEMMA GoingFacts ==
  ASSUME Going, at \in {"cie", "fde"}, p \in 1 .. Len(Insts) + 1, Len(Insts) \in Nat
  PROVE  /\ section' = section /\ cfa_value' = cfa_value /\ lookups' = lookups
         /\ at' = at /\ asked' = asked /\ cie' = cie /\ fde' = fde
         /\ answer' = answer /\ reg_table' = reg_table
         /\ Insts' = Insts /\ p \in 1 .. Len(Insts)
         /\ p' = p + 1 \/ (at = "fde" /\ asked < pc' /\ p' = Len(Insts) + 1)
         /\ p' <= Len(Insts) => (pc' = pc \/ (at = "fde" => ~(asked < pc')))
<1>1. /\ section' = section /\ cfa_value' = cfa_value /\ lookups' = lookups
      /\ at' = at /\ asked' = asked /\ cie' = cie /\ fde' = fde
      /\ answer' = answer /\ reg_table' = reg_table
      /\ p <= Len(Insts)
  BY DEF Going, Advance, Nop, SetRule, SetCfa, RememberState, RestoreState, Frame, Is,
         Running, scanVars, answerVars
<1>2. Insts' = Insts
  BY <1>1 DEF Insts
<1>3. p \in 1 .. Len(Insts)
  BY <1>1
<1>4. CASE Advance
  <2>1. IF Behind(pc)' THEN p' = Len(Insts) + 1 ELSE p' = p + 1
    BY <1>1, <1>4 DEF Advance, ProgramDone, Behind
  <2>2. Behind(pc)' <=> at = "fde" /\ asked < pc'
    BY <1>1 DEF Behind
  <2> QED
    BY <1>1, <1>2, <1>3, <2>1, <2>2
<1>5. CASE ~Advance
  <2>1. p' = p + 1 /\ pc' = pc
    BY <1>5 DEF Going, Nop, SetRule, SetCfa, RememberState, RestoreState
  <2> QED
    BY <1>1, <1>2, <1>3, <2>1
<1> QED
  BY <1>4, <1>5

\* The entry whose instructions run.
LEMMA RunningFacts ==
  ASSUME Inv, at \in {"cie", "fde"}
  PROVE  /\ ProgramOK(Insts) /\ Len(Insts) \in Nat
         /\ Caf \in Nat /\ Daf \in Int
         /\ Caf = section[cie].caf /\ Daf = section[cie].daf
         /\ at = "cie" => Insts = section[cie].insts
         /\ at = "fde" => Insts = section[fde].insts
<1>1. /\ ProgramOK(section[cie].insts) /\ ProgramOK(section[fde].insts)
      /\ section[cie].caf \in Nat /\ section[cie].daf \in Int
  BY EntryFacts DEF Working
<1>2. /\ at = "cie" => Insts = section[cie].insts
      /\ at = "fde" => Insts = section[fde].insts
  BY DEF Insts
<1>3. ProgramOK(Insts)
  BY <1>1, <1>2
<1>4. Len(Insts) \in Nat
  BY <1>3, ProgramFacts
<1> QED
  BY <1>1, <1>2, <1>3, <1>4 DEF Caf, Daf

\* The tables are tables after every instruction.
LEMMA TablesGo ==
  ASSUME Inv, Types, at \in {"cie", "fde"}, Going
  PROVE  rt' \in Tables /\ shadow' \in Tables /\ pc' \in Nat
<1>1. /\ rt \in Tables /\ shadow \in Tables /\ pc \in Nat /\ cfa_value \in Int
  BY DEF Types, CFA_COL, CFA_COL3
<1>2. /\ ProgramOK(Insts) /\ Len(Insts) \in Nat /\ Caf \in Nat /\ Daf \in Int
  BY RunningFacts
<1>3. p \in 1 .. Len(Insts) + 1
  BY DEF Types
<1>4. p \in 1 .. Len(Insts)
  BY <1>2, <1>3, GoingFacts
<1>5. Inst \in Instructions /\ (Inst.op = "advance" => Inst.n \in Nat)
  BY <1>2, <1>4, ProgramFacts DEF Inst
<1>6. CASE Advance \/ Nop
  <2>1. rt' = rt /\ shadow' = shadow
        /\ pc' = IF Inst.op = "advance" THEN pc + Inst.n * Caf ELSE pc
    BY <1>6 DEF Advance, Nop, Is
  <2>2. Inst.op = "advance" => Inst.n * Caf \in Nat
    BY <1>2, <1>5, Product
  <2> QED
    BY <1>1, <2>1, <2>2
<1>7. CASE SetRule
  <2> DEFINE i == Inst
             r == i.r
             v == NewRule(i, rt.rules[r])
             known == [q \in Regs |-> Computed]
             e == section[cie]
  <2>1. i.op \in RuleOps /\ r \in Regs /\ shadow' = shadow /\ pc' = pc
        /\ rt' = [rt EXCEPT !.rules[r] = v]
    BY <1>7 DEF SetRule
  <2>2. v \in Rules
    <3>1. rt.rules[r] \in Rules
      BY <1>1, <2>1 DEF Tables
    <3>2. SaysFor(cfa_value, shadow.rules[r], known[r])
      BY <2>1 DEF SaysFor, Computed
    <3>3. e.daf = Daf /\ e.daf \in Int
      BY <1>2 DEF Daf
    <3> HIDE DEF i, known, e
    <3> QED
      BY <1>1, <1>5, <2>1, <3>1, <3>2, <3>3, NewRuleSays DEF i
  <2> HIDE DEF v, r
  <2>3. [rt EXCEPT !.rules[r] = v] \in Tables
    BY <1>1, <2>1, <2>2, TableSet
  <2> QED
    BY <1>1, <2>1, <2>3
<1>8. CASE SetCfa
  <2> DEFINE i == Inst
             v == NewCfa(i, rt.cfa)
             e == section[cie]
  <2>1. i.op \in CfaOps /\ shadow' = shadow /\ pc' = pc /\ rt' = [rt EXCEPT !.cfa = v]
    BY <1>8 DEF SetCfa
  <2>2. v \in Rules
    <3>1. rt.cfa \in Rules
      BY <1>1 DEF Tables
    <3>2. SaysCfa(rt.cfa, Blank.cfa)
      BY DEF SaysCfa, Blank, Cfa
    <3>3. e.daf = Daf /\ e.daf \in Int
      BY <1>2 DEF Daf
    <3> HIDE DEF i, e
    <3> QED
      BY <1>5, <2>1, <3>1, <3>2, <3>3, NewCfaSays DEF i
  <2> HIDE DEF v
  <2>3. [rt EXCEPT !.cfa = v] \in Tables
    BY <1>1, <2>2 DEF Tables
  <2> QED
    BY <1>1, <2>1, <2>3
<1>9. CASE RememberState \/ RestoreState
  BY <1>1, <1>9 DEF RememberState, RestoreState
<1> QED
  BY <1>6, <1>7, <1>8, <1>9 DEF Going

\* The types are kept by an instruction that goes on.
LEMMA TypesGo ==
  ASSUME Inv, Types, at \in {"cie", "fde"}, Going
  PROVE  Types'
<1>1. rt' \in Tables /\ shadow' \in Tables /\ pc' \in Nat
  BY TablesGo
<1>2. Len(Insts) \in Nat
  BY RunningFacts
<1>3. p \in 1 .. Len(Insts) + 1
  BY DEF Types
<1>4. /\ cfa_value' = cfa_value /\ asked' = asked /\ Insts' = Insts
      /\ p \in 1 .. Len(Insts)
      /\ p' = p + 1 \/ p' = Len(Insts) + 1
  BY <1>2, <1>3, GoingFacts
<1>5. p' \in 1 .. Len(Insts') + 1
  BY <1>2, <1>4
<1> QED
  BY <1>1, <1>4, <1>5 DEF Types

\* The next instruction of a CIE.
LEMMA CieGoes ==
  ASSUME Inv, Types, InCie, at = "cie", Going
  PROVE  InCie'
<1> DEFINE e == section[cie]
           is == e.insts
           M == CieMeans(e)
<1>1. /\ ProgramOK(is) /\ Len(is) \in Nat /\ Insts = is
      /\ e.caf = Caf /\ e.caf \in Nat /\ e.daf = Daf /\ e.daf \in Int
  BY RunningFacts
<1>2. p \in 1 .. Len(Insts) + 1 /\ rt \in Tables /\ shadow \in Tables /\ pc \in Nat
      /\ cfa_value \in Int
  BY DEF Types, CFA_COL, CFA_COL3
<1>3. /\ section' = section /\ cfa_value' = cfa_value /\ cie' = cie
      /\ p \in 1 .. Len(is) /\ p' = p + 1
  BY <1>1, <1>2, GoingFacts
<1>4. SUFFICES ASSUME Sound(is)
               PROVE  Agrees(cfa_value, rt', shadow', pc', is, p' - 1, M[p' - 1],
                             AllSame, Nat)
  BY <1>3 DEF InCie
<1>5. Agrees(cfa_value, rt, shadow, pc, is, p - 1, M[p - 1], AllSame, Nat)
  BY <1>4 DEF InCie
<1>6. Ready(is, e, M[p - 1], AllSame, Nat)
  <2> HIDE DEF M, e, is
  <2> QED
    BY <1>1, <1>2, <1>3, <1>4, <1>5 DEF Ready
<1>7. Goes(is, e, M[p - 1], AllSame, Nat)
  BY <1>6, StepGoes
<1>8. M[p] = Step(M[p - 1], is[p], e, AllSame)
  <2>1. M[p] = IF M[p - 1].error \/ M[p - 1].loc \notin Nat THEN M[p - 1]
               ELSE Step(M[p - 1], is[p], e, AllSame)
    BY <1>1, <1>3, EntriesRun DEF Runs
  <2>2. ~M[p - 1].error /\ M[p - 1].loc \in Nat
    BY <1>2, <1>5 DEF Agrees
  <2> QED
    BY <2>1, <2>2, Zenon
<1>9. p' - 1 = p
  BY <1>3
<1> HIDE DEF M, e, is
<1> QED
  BY <1>7, <1>8, <1>9, Zenon DEF Goes

\* The next instruction of a description.
LEMMA FdeGoes ==
  ASSUME Inv, Types, InFde, at = "fde", Going
  PROVE  InFde'
<1> DEFINE e == section[cie]
           f == section[fde]
           is == f.insts
           M == FdeMeans(e, f, asked)
           W == FdeMeans(e, f, row_pc)
           V == FdeMeans(e, f, row_pc')
           known == Known(e)
           start == FdeStart(e, f)
           n == p' - 1
<1>1. /\ ProgramOK(is) /\ ProgramOK(e.insts) /\ Len(is) \in Nat /\ Insts = is
      /\ e.caf = Caf /\ e.caf \in Nat /\ e.daf = Daf /\ e.daf \in Int /\ f.loc \in Nat
  BY RunningFacts, EntryFacts DEF Working
<1>2. p \in 1 .. Len(Insts) + 1 /\ rt \in Tables /\ shadow \in Tables /\ pc \in Nat
      /\ cfa_value \in Int /\ asked \in Nat
  BY DEF Types, CFA_COL, CFA_COL3
<1>3. /\ section' = section /\ cfa_value' = cfa_value /\ cie' = cie /\ fde' = fde
      /\ asked' = asked /\ p \in 1 .. Len(is)
      /\ p' = p + 1 \/ (asked < pc' /\ p' = Len(is) + 1)
      /\ p' <= Len(is) => (pc' = pc \/ ~(asked < pc'))
  BY <1>1, <1>2, GoingFacts
<1>4. SUFFICES ASSUME Sound(e.insts), Sound(is)
               PROVE  FdeAgrees'
  BY <1>3 DEF InFde
<1>5. FdeAgrees
  BY <1>4 DEF InFde
<1>6. /\ Agrees(cfa_value, rt, shadow, pc, is, p - 1, M[p - 1], known, 0 .. asked)
      /\ pc <= asked /\ row_pc \in Nat /\ row_pc <= asked /\ row_pc <= pc
      /\ NoSame(is) => SameRow(row_pc, M[p - 1], W[p - 1])
  BY <1>1, <1>3, <1>5 DEF FdeAgrees
<1>7. pc \in 0 .. asked
  BY <1>2, <1>6
<1>8. /\ Runs(M, is, e, known, start, 0 .. asked)
      /\ Runs(W, is, e, known, start, 0 .. row_pc)
      /\ Runs(V, is, e, known, start, 0 .. row_pc')
  BY <1>1, EntriesRun
<1>9. Goes(is, e, M[p - 1], known, 0 .. asked)
  <2>1. Ready(is, e, M[p - 1], known, 0 .. asked)
    <3> HIDE DEF M, e, is, known
    <3> QED
      BY <1>1, <1>2, <1>3, <1>4, <1>6, <1>7 DEF Ready
  <2> QED
    BY <2>1, StepGoes
<1>10. M[p] = Step(M[p - 1], is[p], e, known) /\ ~M[p - 1].error /\ M[p - 1].loc = pc
  <2>1. M[p] = IF M[p - 1].error \/ M[p - 1].loc \notin 0 .. asked THEN M[p - 1]
               ELSE Step(M[p - 1], is[p], e, known)
    BY <1>3, <1>8 DEF Runs
  <2>2. ~M[p - 1].error /\ M[p - 1].loc = pc
    BY <1>6, Zenon DEF Agrees
  <2> QED
    BY <1>7, <2>1, <2>2, Zenon
<1>11. Agrees(cfa_value, rt', shadow', pc', is, p, M[p], known, 0 .. asked)
  <2> HIDE DEF M, e, is, known
  <2> QED
    BY <1>9, <1>10, Zenon DEF Goes
<1>12. pc' \in Nat
  BY <1>2, TablesGo
<1>13. M[p].loc = pc' /\ ~M[p].error
  <2> HIDE DEF M, is, known
  <2> QED
    BY <1>11, Zenon DEF Agrees
\* The row, after instruction p.
<1>14. /\ row_pc' \in Nat /\ row_pc' <= asked /\ row_pc' <= pc'
       /\ NoSame(is) => SameRow(row_pc', M[p], V[p])
  <2> DEFINE i == is[p]
  <2>1. Inst = i /\ Forward(is)
    BY <1>1, <1>4 DEF Inst, Sound, Forward
  <2>2. CASE (SetRule /\ i.op # "same_value") \/ SetCfa \/ RestoreState
    <3>1. row_pc' = pc /\ pc' = pc
      BY <2>1, <2>2 DEF SetRule, SetCfa, RestoreState
    <3>2. start.loc \in Nat /\ p \in 0 .. Len(is) /\ M[p].loc <= asked /\ M[p].loc <= row_pc'
      BY <1>1, <1>2, <1>3, <1>6, <1>13, <3>1, FdeStartIs
    <3>3. V[p] = M[p]
      <4> HIDE DEF M, V, e, is, known, start
      <4> QED
        BY <1>1, <1>2, <1>8, <2>1, <3>1, <3>2, Longer
    <3> HIDE DEF M, V, is
    <3> QED
      BY <1>2, <1>6, <3>1, <3>3 DEF SameRow
  <2>3. CASE (SetRule /\ i.op = "same_value") \/ Advance \/ Nop \/ RememberState
    <3>1. row_pc' = row_pc
      BY <2>1, <2>3 DEF SetRule, Advance, Nop, RememberState
    <3>2. pc <= pc'
      <4>1. start.loc \in Nat /\ p - 1 \in 0 .. Len(is)
        BY <1>1, <1>3, FdeStartIs
      <4>2. M[p - 1].loc <= M[p].loc
        <5> HIDE DEF M, e, is, known, start
        <5> QED
          BY <1>1, <1>3, <1>8, <2>1, <4>1, LocsUp
      <4> HIDE DEF M
      <4> QED
        BY <1>10, <1>13, <4>2
    <3>3. row_pc' \in Nat /\ row_pc' <= asked /\ row_pc' <= pc'
      BY <1>2, <1>6, <1>12, <3>1, <3>2
    <3>4. ASSUME NoSame(is)
          PROVE  SameRow(row_pc', M[p], V[p])
      <4>1. i.op \in {"advance", "nop", "remember_state"}
        BY <1>3, <2>1, <2>3, <3>4 DEF NoSame, Advance, Nop, RememberState, Is
      <4>2. i.op \notin RuleOps /\ i.op \notin CfaOps /\ i.op # "restore_state"
        BY <4>1 DEF RuleOps, CfaOps
      <4>3. W[p] = IF W[p - 1].error \/ W[p - 1].loc \notin 0 .. row_pc THEN W[p - 1]
                   ELSE Step(W[p - 1], i, e, known)
        BY <1>3, <1>8 DEF Runs
      <4>4. SameRow(row_pc, M[p - 1], W[p - 1])
        BY <1>6, <3>4
      <4>5. SameRow(row_pc, M[p], W[p])
        <5> HIDE DEF M, W, i, e, known
        <5> QED
          BY <1>10, <4>2, <4>3, <4>4, SameRowOn DEF i
      <4> QED
        BY <3>1, <4>5, Zenon
    <3> QED
      BY <3>3, <3>4
  <2> QED
    BY <2>2, <2>3 DEF Going
\* The instructions that are left out mean nothing.
<1>15. /\ n \in p .. Len(is) /\ p \in 0 .. Len(is)
       /\ n = p \/ (n = Len(is) /\ asked < pc')
  BY <1>1, <1>3
<1>16. n = p \/ (M[n] = M[p] /\ pc' \notin 0 .. asked)
  <2> SUFFICES ASSUME n # p
               PROVE  M[n] = M[p] /\ pc' \notin 0 .. asked
    OBVIOUS
  <2>1. asked < pc'
    BY <1>15
  <2>2. pc' \notin 0 .. asked
    BY <1>2, <1>12, <2>1
  <2>3. M[p].loc \notin 0 .. asked
    BY <1>13, <2>2, Zenon
  <2> DEFINE locs == 0 .. asked
  <2>4. Len(is) \in Nat /\ p \in 0 .. Len(is) /\ n \in p .. Len(is)
    BY <1>1, <1>15
  <2>5. Runs(M, is, e, known, start, locs)
    BY <1>8
  <2>6. M[p].error \/ M[p].loc \notin locs
    BY <2>3
  <2> HIDE DEF M, e, is, known, start, n, locs
  <2>7. M[n] = M[p]
    BY <2>4, <2>5, <2>6, Stuck
  <2> QED
    BY <2>2, <2>7
<1>17. Agrees(cfa_value, rt', shadow', pc', is, n, M[n], known, 0 .. asked)
  <2> HIDE DEF M, is, known, n
  <2> QED
    BY <1>11, <1>16, Zenon DEF Agrees
<1>18. NoSame(is) => SameRow(row_pc', M[n], V[n])
  <2> SUFFICES ASSUME NoSame(is), n # p
               PROVE  SameRow(row_pc', M[n], V[n])
    BY <1>14
  <2>1. SameRow(row_pc', M[p], V[p])
    BY <1>14
  <2>2. M[n] = M[p] /\ pc' \notin 0 .. asked
    BY <1>16
  <2>3. pc' \notin 0 .. row_pc'
    BY <1>2, <1>12, <1>14, <2>2
  <2>4. V[p].loc \notin 0 .. row_pc'
    BY <1>13, <2>1, <2>3, Zenon DEF SameRow
  <2>5. V[n] = V[p]
    <3> DEFINE locs == 0 .. row_pc'
    <3>1. Len(is) \in Nat /\ p \in 0 .. Len(is) /\ n \in p .. Len(is)
      BY <1>1, <1>15
    <3>2. Runs(V, is, e, known, start, locs)
      BY <1>8
    <3>3. V[p].error \/ V[p].loc \notin locs
      BY <2>4
    <3> HIDE DEF V, e, is, known, start, n, locs
    <3> QED
      BY <3>1, <3>2, <3>3, Stuck
  <2> QED
    BY <2>1, <2>2, <2>5, Zenon
<1>19. p' <= Len(is) => pc' <= asked
  BY <1>2, <1>3, <1>6, <1>12
<1> QED
  BY <1>3, <1>14, <1>17, <1>18, <1>19, Zenon DEF FdeAgrees

\* A table of rules that are all the caller's registers'.
LEMMA FreshTable ==
  ASSUME NEW c, NEW t,
         t = [cfa |-> ZeroRule, rules |-> [r \in Regs |-> [ZeroRule EXCEPT !.reg = SAME]]]
  PROVE  t \in Tables /\ TableSays(c, t, Blank.cfa, AllSame)
<1> DEFINE same == [ZeroRule EXCEPT !.reg = SAME]
           rules == [r \in Regs |-> same]
<1>1. same.rel = 0 /\ same.reg = SAME /\ same \in Rules /\ ZeroRule \in Rules
  BY DEF ZeroRule, Rules, SAME, OFFSET
<1>2. \A r \in Regs : AllSame[r] = Same
  BY DEF AllSame
<1>3. t = [cfa |-> ZeroRule, rules |-> rules]
  OBVIOUS
<1> HIDE DEF same
<1>4. t.cfa = ZeroRule /\ t.rules = rules /\ t \in Tables
  BY <1>1, <1>3 DEF Tables
<1>5. \A r \in Regs : SaysFor(c, same, AllSame[r])
  BY <1>1, <1>2 DEF SaysFor, Same
<1>6. \A r \in Regs : t.rules[r] = same
  BY <1>4
<1>7. SaysCfa(t.cfa, Blank.cfa)
  BY DEF SaysCfa, Blank, Cfa
<1> QED
  BY <1>4, <1>5, <1>6, <1>7 DEF TableSays

\* Nothing is remembered before the first instruction.
LEMMA RemembersFirst ==
  ASSUME NEW c, NEW sh, NEW is, Len(is) \in Nat, NEW known,
         \A r \in Regs : SaysFor(c, sh.rules[r], known[r])
  PROVE  Remembers(c, sh, is, 0, << >>, known)
<1>1. Depth(is)[0] = 0
  BY DepthSteps
<1> QED
  BY <1>1 DEF Remembers

\* The start of the instructions of the CIE, with a fresh table.
LEMMA InternalTableKeeps ==
  ASSUME Inv, TableInv, InternalTable
  PROVE  TableInv'
<1> DEFINE t == [cfa |-> ZeroRule,
                 rules |-> [r \in Regs |-> [ZeroRule EXCEPT !.reg = SAME]]]
           e == section[cie]
           is == e.insts
<1>1. /\ at = "table" /\ at' = "cie" /\ p' = 1 /\ pc' = 0 /\ rt' = t /\ shadow' = t
      /\ section' = section /\ cfa_value' = cfa_value /\ lookups' = lookups
      /\ asked' = asked /\ cie' = cie /\ answer' = answer
  BY DEF InternalTable, Run, scanVars, answerVars
<1> HIDE DEF t
<1>2. ProgramOK(is) /\ Len(is) \in Nat
  BY <1>1, EntryFacts, ProgramFacts DEF Working
<1>3. t \in Tables /\ TableSays(cfa_value, t, Blank.cfa, AllSame)
  BY FreshTable DEF t
<1>4. Types'
  <2>1. Insts' = is
    BY <1>1 DEF Insts
  <2>2. p' \in 1 .. Len(Insts') + 1 /\ pc' \in Nat
    BY <1>1, <1>2, <2>1
  <2> QED
    BY <1>1, <1>3, <2>2 DEF TableInv, Types
<1>5. Answered' /\ answer' = "none"
  BY <1>1 DEF TableInv, Answered
<1>6. Agrees(cfa_value, t, t, 0, is, 0, CieMeans(e)[0], AllSame, Nat)
  <2>1. CieMeans(e)[0] = Blank
    BY <1>2, EntriesRun DEF Runs
  <2>2. Blank.rules = AllSame /\ Blank.stack = << >> /\ Blank.loc = 0 /\ ~Blank.error
    BY DEF Blank
  <2>3. Remembers(cfa_value, t, is, 0, << >>, AllSame)
    BY <1>2, <1>3, RemembersFirst DEF TableSays
  <2> QED
    BY <1>3, <2>1, <2>2, <2>3, Zenon DEF Agrees
<1>7. InCie'
  <2>1. p' - 1 = 0
    BY <1>1
  <2> QED
    BY <1>1, <1>6, <2>1, Zenon DEF InCie
<1>8. InFde' /\ TableRight'
  <2>1. InFde'
    BY <1>1 DEF InFde
  <2>2. answer' \notin {"DW_DLV_OK", "DW_DLV_ERROR"}
    BY <1>5
  <2>3. TableRight'
    BY <2>2, Zenon DEF TableRight
  <2> QED
    BY <2>1, <2>3
<1> QED
  BY <1>4, <1>5, <1>7, <1>8 DEF TableInv

\* From the CIE to the description.
LEMMA CieDoneKeeps ==
  ASSUME Inv, TableInv, CieDone
  PROVE  TableInv'
<1> DEFINE e == section[cie]
           f == section[fde]
           first == CieMeans(e)[Len(e.insts)]
           start == FdeStart(e, f)
<1>1. /\ at = "cie" /\ at' = "fde" /\ ~(p <= Len(Insts))
      /\ p' = 1 /\ pc' = f.loc /\ row_pc' = f.loc /\ rt' = rt /\ shadow' = rt
      /\ section' = section /\ cfa_value' = cfa_value /\ lookups' = lookups
      /\ asked' = asked /\ cie' = cie /\ fde' = fde /\ answer' = answer
  BY DEF CieDone, Run, Running, scanVars, answerVars
<1>2. /\ ProgramOK(e.insts) /\ ProgramOK(f.insts) /\ Len(e.insts) \in Nat
      /\ Len(f.insts) \in Nat /\ f.loc \in Nat /\ f.loc <= asked
  BY <1>1, EntryFacts, ProgramFacts DEF Working
<1>3. rt \in Tables /\ asked \in Nat
  BY DEF TableInv, Types
<1>4. p - 1 = Len(e.insts)
  <2>1. Insts = e.insts
    BY <1>1 DEF Insts
  <2>2. p \in 1 .. Len(Insts) + 1
    BY <1>1 DEF TableInv, Types
  <2> QED
    BY <1>1, <1>2, <2>1, <2>2
<1>5. Types'
  <2>1. Insts' = f.insts
    BY <1>1 DEF Insts
  <2>2. p' \in 1 .. Len(Insts') + 1 /\ pc' \in Nat
    BY <1>1, <1>2, <2>1
  <2> QED
    BY <1>1, <1>3, <2>2 DEF TableInv, Types
<1>6. Answered' /\ answer' = "none"
  BY <1>1 DEF TableInv, Answered
<1>7. ASSUME Sound(e.insts), Sound(f.insts)
      PROVE  FdeAgrees'
  <2> DEFINE M == FdeMeans(e, f, asked)
             W == FdeMeans(e, f, f.loc)
             locs == 0 .. asked
  <2>1. Agrees(cfa_value, rt, shadow, pc, e.insts, Len(e.insts), first, AllSame, Nat)
    BY <1>1, <1>4, <1>7 DEF TableInv, InCie
  <2>2. ~first.error /\ TableSays(cfa_value, rt, first.cfa, first.rules)
    <3> HIDE DEF first
    <3> QED
      BY <2>1, Zenon DEF Agrees
  <2>3. M[0] = start /\ W[0] = start
    BY <1>2, EntriesRun DEF Runs
  <2>4. /\ start.loc = f.loc /\ start.cfa = first.cfa /\ start.rules = first.rules
        /\ start.stack = << >> /\ start.error = first.error /\ Known(e) = first.rules
    BY FdeStartIs DEF Known
  <2> HIDE DEF start, first, M, W
  <2>5. Remembers(cfa_value, rt, f.insts, 0, << >>, Known(e))
    BY <1>2, <2>2, <2>4, RemembersFirst DEF TableSays
  <2>6. Agrees(cfa_value, rt, rt, f.loc, f.insts, 0, M[0], Known(e), locs)
    <3> HIDE DEF locs
    <3> QED
      BY <2>2, <2>3, <2>4, <2>5, Zenon DEF Agrees
  <2>7. SameRow(f.loc, M[0], W[0])
    BY <2>3 DEF SameRow
  <2>8. p' - 1 = 0 /\ f.loc <= f.loc
    BY <1>1, <1>2
  <2> QED
    BY <1>1, <1>2, <2>6, <2>7, <2>8, Zenon DEF FdeAgrees, M, W, locs
<1>8. InFde'
  BY <1>1, <1>7, Zenon DEF InFde
<1>9. InCie' /\ TableRight'
  <2>1. InCie'
    BY <1>1 DEF InCie
  <2>2. answer' \notin {"DW_DLV_OK", "DW_DLV_ERROR"}
    BY <1>6
  <2>3. TableRight'
    BY <2>2, Zenon DEF TableRight
  <2> QED
    BY <2>1, <2>3
<1> QED
  BY <1>5, <1>6, <1>8, <1>9 DEF TableInv

\* TableRight, of values.
Right(c, es, k, a, row, ans, regs) ==
  LET f == es[k]
      e == es[f.cie]
      m == Meaning(e, f, a)
      w == Meaning(e, f, row)
  IN  ans \in {"DW_DLV_OK", "DW_DLV_ERROR"} /\ Sound(e.insts) /\ Sound(f.insts) =>
        IF m.error THEN ans = "DW_DLV_ERROR"
        ELSE /\ ans = "DW_DLV_OK"
             /\ \A r \in Regs : r # c => SaysFor(c, regs[r], m.rules[r])
             /\ c \in Regs => SaysCfa(regs[c], m.cfa)
             /\ row <= a
             /\ (\A n \in 1 .. Len(f.insts) : f.insts[n].op # "same_value") =>
                  w.rules = m.rules /\ w.cfa = m.cfa

\* It is what the property says of the answer.
LEMMA RightIs ==
  TableRight' <=>
    Right(cfa_value', section', fde', asked', row_pc', answer', reg_table')
BY Zenon DEF TableRight, Right, Says, SaysFor

\* The end of the instructions: the caller gets the rules.
LEMMA FdeDoneKeeps ==
  ASSUME Inv, TableInv, FdeDone
  PROVE  TableInv'
<1> DEFINE e == section[cie]
           f == section[fde]
           M == FdeMeans(e, f, asked)
           W == FdeMeans(e, f, row_pc)
           n == Len(f.insts)
<1>1. /\ at = "fde" /\ at' = "idle" /\ ~(p <= Len(Insts))
      /\ p' = p /\ pc' = pc /\ row_pc' = row_pc /\ rt' = rt /\ shadow' = shadow
      /\ section' = section /\ cfa_value' = cfa_value /\ lookups' = lookups
      /\ asked' = asked /\ cie' = cie /\ fde' = fde /\ answer' = "DW_DLV_OK"
      /\ reg_table' = [r \in Regs |-> IF r = cfa_value THEN rt.cfa ELSE rt.rules[r]]
  BY DEF FdeDone, Running, scanVars, runVars
<1>2. ProgramOK(f.insts) /\ n \in Nat /\ cie = f.cie
  BY <1>1, EntryFacts, ProgramFacts DEF Working
<1>3. p - 1 = n /\ Insts = f.insts
  <2>1. Insts = f.insts
    BY <1>1 DEF Insts
  <2>2. p \in 1 .. Len(Insts) + 1
    BY <1>1 DEF TableInv, Types
  <2> QED
    BY <1>1, <1>2, <2>1, <2>2
<1>4. Types' /\ Answered' /\ InCie' /\ InFde'
  BY <1>1 DEF TableInv, Types, Answered, InCie, InFde
<1>5. ASSUME Sound(e.insts), Sound(f.insts)
      PROVE  /\ ~M[n].error
             /\ \A r \in Regs : r # cfa_value => SaysFor(cfa_value, reg_table'[r], M[n].rules[r])
             /\ cfa_value \in Regs => SaysCfa(reg_table'[cfa_value], M[n].cfa)
             /\ row_pc <= asked
             /\ NoSame(f.insts) => W[n].rules = M[n].rules /\ W[n].cfa = M[n].cfa
  <2>1. FdeAgrees
    BY <1>1, <1>5 DEF TableInv, InFde
  <2>2. /\ Agrees(cfa_value, rt, shadow, pc, f.insts, n, M[n], Known(e), 0 .. asked)
        /\ row_pc <= asked
        /\ NoSame(f.insts) => SameRow(row_pc, M[n], W[n])
    BY <1>3, <2>1, Zenon DEF FdeAgrees
  <2> HIDE DEF M, W, n
  <2>3. ~M[n].error /\ TableSays(cfa_value, rt, M[n].cfa, M[n].rules)
    BY <2>2, Zenon DEF Agrees
  <2>4. ASSUME NEW r \in Regs, r # cfa_value
        PROVE  SaysFor(cfa_value, reg_table'[r], M[n].rules[r])
    <3>1. reg_table'[r] = rt.rules[r]
      BY <1>1, <2>4
    <3> QED
      BY <2>3, <3>1 DEF TableSays
  <2>5. ASSUME cfa_value \in Regs
        PROVE  SaysCfa(reg_table'[cfa_value], M[n].cfa)
    <3>1. reg_table'[cfa_value] = rt.cfa
      BY <1>1, <2>5
    <3> QED
      BY <2>3, <3>1 DEF TableSays
  <2> QED
    BY <2>2, <2>3, <2>4, <2>5, Zenon DEF SameRow
<1>6. TableRight'
  <2>1. /\ Meaning(e, f, asked) = M[n] /\ Meaning(e, f, row_pc) = W[n]
    BY DEF Meaning
  <2>2. section[f.cie] = e
    BY <1>2
  <2>3. Right(cfa_value, section, fde, asked, row_pc, "DW_DLV_OK", reg_table')
    BY <1>5, <2>1, <2>2, Zenon DEF Right, NoSame
  <2>4. Right(cfa_value', section', fde', asked', row_pc', answer', reg_table')
    BY <1>1, <2>3, Zenon
  <2> QED
    BY <2>4, RightIs
<1> QED
  BY <1>4, <1>6 DEF TableInv

\* An instruction that is wrong ends what the instructions mean.
LEMMA WrongEnds ==
  ASSUME NEW M, NEW is, NEW e, NEW known, NEW start, NEW locs, ProgramOK(is),
         Runs(M, is, e, known, start, locs), NEW n \in 1 .. Len(is),
         ~M[n - 1].error, M[n - 1].loc \in locs, Wrong(is[n])
  PROVE  M[Len(is)].error
<1>1. Len(is) \in Nat
  BY ProgramFacts
<1>2. M[n] = IF M[n - 1].error \/ M[n - 1].loc \notin locs THEN M[n - 1]
             ELSE Step(M[n - 1], is[n], e, known)
  BY DEF Runs
<1>3. M[n] = Step(M[n - 1], is[n], e, known)
  BY <1>2, Zenon
<1>4. M[n].error
  <2> DEFINE m == M[n - 1]
             i == is[n]
  <2>1. M[n] = Step(m, i, e, known) /\ Wrong(i)
    BY <1>3
  <2> HIDE DEF m, i
  <2>2. Step(m, i, e, known).error = Wrong(i)
    BY StepIs
  <2> QED
    BY <2>1, <2>2, Zenon
<1>5. n \in 0 .. Len(is) /\ Len(is) \in n .. Len(is)
  BY <1>1
<1>6. M[Len(is)] = M[n]
  <2>1. M[n].error \/ M[n].loc \notin locs
    BY <1>4
  <2> QED
    BY <1>1, <1>5, <2>1, Stuck
<1> QED
  BY <1>4, <1>6, Zenon

\* The code fails where the instructions are in error.
LEMMA ErrorKeeps ==
  ASSUME Inv, TableInv, Error
  PROVE  TableInv'
<1> DEFINE e == section[cie]
           f == section[fde]
           C == CieMeans(e)
           M == FdeMeans(e, f, asked)
<1>1. /\ at \in {"cie", "fde"} /\ at' = "idle" /\ p <= Len(Insts) /\ Wrong(Inst)
      /\ p' = p /\ pc' = pc /\ rt' = rt /\ shadow' = shadow
      /\ section' = section /\ cfa_value' = cfa_value /\ lookups' = lookups
      /\ asked' = asked /\ cie' = cie /\ fde' = fde /\ answer' = "DW_DLV_ERROR"
  BY DEF Error, Running, Wrong, scanVars
<1>2. /\ ProgramOK(e.insts) /\ ProgramOK(f.insts) /\ cie = f.cie /\ Len(e.insts) \in Nat
      /\ Len(f.insts) \in Nat
  BY <1>1, EntryFacts, ProgramFacts DEF Working
<1>3. p \in 1 .. Len(Insts) /\ Wrong(Insts[p]) /\ pc \in Nat /\ asked \in Nat
  <2>1. p \in 1 .. Len(Insts) + 1 /\ pc \in Nat /\ asked \in Nat
    BY <1>1 DEF TableInv, Types
  <2>2. Len(Insts) \in Nat
    BY <1>1, RunningFacts
  <2> QED
    BY <1>1, <2>1, <2>2 DEF Inst
<1>4. Types' /\ Answered' /\ InCie' /\ InFde'
  BY <1>1 DEF TableInv, Types, Answered, InCie, InFde
<1>5. /\ Runs(C, e.insts, e, AllSame, Blank, Nat)
      /\ Runs(M, f.insts, e, Known(e), FdeStart(e, f), 0 .. asked)
  BY <1>2, EntriesRun
<1>6. ASSUME Sound(e.insts), Sound(f.insts), at = "cie"
      PROVE  M[Len(f.insts)].error
  <2>1. Insts = e.insts
    BY <1>6 DEF Insts
  <2>2. Agrees(cfa_value, rt, shadow, pc, e.insts, p - 1, C[p - 1], AllSame, Nat)
    BY <1>6 DEF TableInv, InCie
  <2>3. ~C[p - 1].error /\ C[p - 1].loc \in Nat
    <3>1. ~C[p - 1].error /\ C[p - 1].loc = pc
      <4> HIDE DEF C
      <4> QED
        BY <2>2, Zenon DEF Agrees
    <3> QED
      BY <1>3, <3>1, Zenon
  <2>4. C[Len(e.insts)].error
    <3>1. p \in 1 .. Len(e.insts) /\ Wrong(e.insts[p])
      BY <1>3, <2>1
    <3> HIDE DEF C
    <3> QED
      BY <1>2, <1>5, <2>3, <3>1, WrongEnds
  <2>5. M[0] = FdeStart(e, f)
    BY <1>5 DEF Runs
  <2>6. M[0].error
    <3>1. FdeStart(e, f).error = C[Len(e.insts)].error
      BY FdeStartIs
    <3> QED
      BY <2>4, <2>5, <3>1, Zenon
  <2>7. M[Len(f.insts)] = M[0]
    <3> DEFINE is == f.insts
               known == Known(e)
               start == FdeStart(e, f)
               locs == 0 .. asked
    <3>1. Len(is) \in Nat /\ 0 \in 0 .. Len(is) /\ Len(is) \in 0 .. Len(is)
      BY <1>2
    <3>2. M[0].error \/ M[0].loc \notin locs
      BY <2>6
    <3>3. Runs(M, is, e, known, start, locs)
      BY <1>5
    <3> HIDE DEF M, is, known, start, locs, e
    <3>4. M[Len(is)] = M[0]
      BY <3>1, <3>2, <3>3, Stuck
    <3> QED
      BY <3>4 DEF is
  <2> QED
    BY <2>6, <2>7, Zenon
<1>7. ASSUME Sound(e.insts), Sound(f.insts), at = "fde"
      PROVE  M[Len(f.insts)].error
  <2> DEFINE is == f.insts
             known == Known(e)
             start == FdeStart(e, f)
             locs == 0 .. asked
  <2>1. Insts = is
    BY <1>7 DEF Insts
  <2>2. FdeAgrees
    BY <1>7 DEF TableInv, InFde
  <2>3. /\ Agrees(cfa_value, rt, shadow, pc, is, p - 1, M[p - 1], known, locs)
        /\ p <= Len(is) => pc <= asked
    BY <2>2 DEF FdeAgrees
  <2>4. pc \in locs
    BY <1>3, <2>1, <2>3
  <2>5. ~M[p - 1].error /\ M[p - 1].loc \in locs
    <3>1. ~M[p - 1].error /\ M[p - 1].loc = pc
      <4> HIDE DEF M, is, known, locs
      <4> QED
        BY <2>3, Zenon DEF Agrees
    <3> QED
      BY <2>4, <3>1, Zenon
  <2>6. p \in 1 .. Len(is) /\ Wrong(is[p]) /\ ProgramOK(is)
    BY <1>2, <1>3, <2>1
  <2>7. Runs(M, is, e, known, start, locs)
    BY <1>5
  <2> HIDE DEF M, is, known, start, locs, e
  <2>8. M[Len(is)].error
    BY <2>5, <2>6, <2>7, WrongEnds
  <2> QED
    BY <2>8 DEF is
<1>8. TableRight'
  <2>1. Meaning(e, f, asked) = M[Len(f.insts)]
    BY DEF Meaning
  <2>2. section[f.cie] = e
    BY <1>2
  <2> HIDE DEF M
  <2>3. Sound(e.insts) /\ Sound(f.insts) => M[Len(f.insts)].error
    BY <1>1, <1>6, <1>7
  <2>4. Right(cfa_value, section, fde, asked, row_pc', "DW_DLV_ERROR", reg_table')
    BY <2>1, <2>2, <2>3, Zenon DEF Right
  <2>5. Right(cfa_value', section', fde', asked', row_pc', answer', reg_table')
    BY <1>1, <2>4, Zenon
  <2> QED
    BY <2>5, RightIs
<1> QED
  BY <1>4, <1>8 DEF TableInv

\* DW_CFA_set_loc is not in a sound program.
LEMMA SetLocKeeps ==
  ASSUME Inv, TableInv, SetLoc
  PROVE  TableInv'
<1>1. /\ at \in {"cie", "fde"} /\ at' = at /\ p <= Len(Insts) /\ Inst.op = "set_loc"
      /\ p' = Len(Insts) + 1 /\ pc' = Inst.n /\ rt' = rt /\ shadow' = shadow
      /\ section' = section /\ cfa_value' = cfa_value /\ lookups' = lookups
      /\ asked' = asked /\ cie' = cie /\ fde' = fde /\ answer' = answer
  BY DEF SetLoc, Is, Running, ProgramDone, Frame, scanVars, answerVars
<1>2. ProgramOK(Insts) /\ Len(Insts) \in Nat
  BY <1>1, RunningFacts
<1>3. p \in 1 .. Len(Insts)
  BY <1>1, <1>2 DEF TableInv, Types
<1>4. Inst.n \in Nat
  BY <1>1, <1>2, <1>3, ProgramFacts DEF Inst
<1>5. Insts' = Insts
  BY <1>1 DEF Insts
<1>6. ~Sound(Insts)
  BY <1>1, <1>3 DEF Sound, Inst
<1>7. Types'
  <2>1. p' \in 1 .. Len(Insts') + 1 /\ pc' \in Nat
    BY <1>1, <1>2, <1>4, <1>5
  <2> QED
    BY <1>1, <2>1 DEF TableInv, Types
<1>8. Answered' /\ answer' = "none"
  BY <1>1 DEF TableInv, Answered
<1>9. InCie' /\ InFde'
  BY <1>1, <1>6 DEF InCie, InFde, Insts
<1>10. TableRight'
  <2>1. answer' \notin {"DW_DLV_OK", "DW_DLV_ERROR"}
    BY <1>8
  <2> QED
    BY <2>1, Zenon DEF TableRight
<1> QED
  BY <1>7, <1>8, <1>9, <1>10 DEF TableInv

\* An instruction that goes on.
LEMMA GoingKeeps ==
  ASSUME Inv, TableInv, Going
  PROVE  TableInv'
<1>1. at \in {"cie", "fde"}
  BY DEF Going, Advance, Nop, SetRule, SetCfa, RememberState, RestoreState, Is, Running
<1>2. Types /\ Answered /\ InCie /\ InFde
  BY DEF TableInv
<1>3. Types'
  BY <1>1, <1>2, TypesGo
<1>4. Len(Insts) \in Nat /\ p \in 1 .. Len(Insts) + 1
  BY <1>1, <1>2, RunningFacts DEF Types
<1>5. at' = at /\ lookups' = lookups /\ answer' = answer
  BY <1>1, <1>4, GoingFacts
<1>6. Answered' /\ answer' = "none"
  BY <1>1, <1>2, <1>5 DEF Answered
<1>7. InCie' /\ InFde'
  <2>1. CASE at = "cie"
    <3>1. InFde'
      BY <1>5, <2>1 DEF InFde
    <3> QED
      BY <1>2, <2>1, <3>1, CieGoes
  <2>2. CASE at = "fde"
    <3>1. InCie'
      BY <1>5, <2>2 DEF InCie
    <3> QED
      BY <1>2, <2>2, <3>1, FdeGoes
  <2> QED
    BY <1>1, <2>1, <2>2
<1>8. TableRight'
  <2>1. answer' \notin {"DW_DLV_OK", "DW_DLV_ERROR"}
    BY <1>6
  <2> QED
    BY <2>1, Zenon DEF TableRight
<1> QED
  BY <1>3, <1>6, <1>7, <1>8 DEF TableInv

\* Before the instructions run there is nothing to be right.
LEMMA ScanKeeps ==
  ASSUME Inv, TableInv,
         SetCfaValue \/ (\E a \in Addrs : Lookup(a)) \/ NoEntry \/ SetCie \/ SetFde
  PROVE  TableInv'
<1>1. /\ at' \notin {"cie", "fde"} /\ rt' = rt /\ shadow' = shadow
      /\ cfa_value' \in {CFA_COL, CFA_COL3}
  BY DEF SetCfaValue, Lookup, NoEntry, SetCie, SetFde, runVars, TableInv, Types
<1>2. asked' \in Nat
  BY FrameProgramAssumption DEF SetCfaValue, Lookup, NoEntry, SetCie, SetFde, TableInv, Types
<1>3. Types'
  BY <1>1, <1>2 DEF TableInv, Types
<1>4. lookups \in Nat /\ (at # "idle" => lookups # 0 /\ answer = "none")
      /\ (lookups = 0 => answer = "none")
  BY DEF TableInv, Answered
<1>5. Answered' /\ answer' \in {"none", "DW_DLV_NO_ENTRY"}
  <2>1. CASE SetCfaValue
    BY <1>4, <2>1 DEF SetCfaValue, answerVars, Answered
  <2>2. CASE \E a \in Addrs : Lookup(a)
    BY <1>4, <2>2 DEF Lookup, Answered
  <2>3. CASE NoEntry
    BY <1>4, <2>3 DEF NoEntry, Answered
  <2>4. CASE SetCie \/ SetFde
    BY <1>4, <2>4 DEF SetCie, SetFde, answerVars, Answered
  <2> QED
    BY <2>1, <2>2, <2>3, <2>4
<1>6. InCie' /\ InFde'
  BY <1>1 DEF InCie, InFde
<1>7. TableRight'
  <2>1. answer' \notin {"DW_DLV_OK", "DW_DLV_ERROR"}
    BY <1>5
  <2> QED
    BY <2>1, Zenon DEF TableRight
<1> QED
  BY <1>3, <1>5, <1>6, <1>7 DEF TableInv

\* Every step keeps the invariant.
LEMMA TableInvNext == Inv /\ TableInv /\ [Next]_vars => TableInv'
<1> SUFFICES ASSUME Inv, TableInv, [Next]_vars PROVE TableInv'
  OBVIOUS
<1>1. CASE SetCfaValue \/ (\E a \in Addrs : Lookup(a)) \/ NoEntry \/ SetCie \/ SetFde
  BY <1>1, ScanKeeps
<1>2. CASE InternalTable
  BY <1>2, InternalTableKeeps
<1>3. CASE CieDone
  BY <1>3, CieDoneKeeps
<1>4. CASE FdeDone
  BY <1>4, FdeDoneKeeps
<1>5. CASE Going
  BY <1>5, GoingKeeps
<1>6. CASE SetLoc
  BY <1>6, SetLocKeeps
<1>7. CASE Error
  BY <1>7, ErrorKeeps
<1>8. CASE UNCHANGED vars
  <2>1. /\ section' = section /\ cfa_value' = cfa_value /\ lookups' = lookups /\ at' = at
        /\ asked' = asked /\ cie' = cie /\ fde' = fde /\ p' = p /\ pc' = pc
        /\ rt' = rt /\ shadow' = shadow /\ row_pc' = row_pc
        /\ answer' = answer /\ reg_table' = reg_table
    BY <1>8 DEF vars, scanVars, runVars, answerVars
  <2>2. Types' /\ Answered' /\ InCie'
    BY <2>1 DEF TableInv, Types, Answered, InCie, Insts
  <2>3. InFde'
    BY <2>1, Zenon DEF TableInv, InFde, FdeAgrees
  <2>4. TableRight'
    BY <2>1, Zenon DEF TableInv, TableRight, Says
  <2> QED
    BY <2>2, <2>3, <2>4 DEF TableInv
<1> QED
  BY <1>1, <1>2, <1>3, <1>4, <1>5, <1>6, <1>7, <1>8 DEF Next, Going

\* No instruction has run at first.
LEMMA TableInvInit == Init => TableInv
<1> SUFFICES ASSUME Init PROVE TableInv
  OBVIOUS
<1>1. Zero \in Tables
  <2>1. ZeroRule \in Rules
    BY DEF ZeroRule, Rules, OFFSET
  <2> HIDE DEF ZeroRule
  <2> QED
    BY <2>1 DEF Zero, Tables
<1>2. at = "idle" /\ answer = "none" /\ lookups = 0 /\ asked = 0 /\ rt = Zero
      /\ shadow = Zero /\ cfa_value = CFA_COL3
  BY DEF Init
<1>3. Types /\ Answered /\ InCie /\ InFde
  BY <1>1, <1>2 DEF Types, Answered, InCie, InFde
<1>4. TableRight
  <2>1. answer \notin {"DW_DLV_OK", "DW_DLV_ERROR"}
    BY <1>2
  <2> QED
    BY <2>1, Zenon DEF TableRight
<1> QED
  BY <1>3, <1>4 DEF TableInv

(* The rules dwarf_get_fde_info_for_all_regs() answers are those that the  *)
(* instructions of the CIE and the description mean at the address asked   *)
(* about, and it fails where they are in error: for every .eh_frame, every *)
(* sound program in it, either register of the CFA and any number of       *)
(* lookups through the same static tables.  They hold from *row_pc on.     *)
THEOREM TableIsRight == Spec => []TableRight
<1>1. TableInv => TableRight
  BY DEF TableInv
<1> QED
  BY InvInit, InvNext, TableInvInit, TableInvNext, <1>1, PTL DEF Spec
=============================================================================
