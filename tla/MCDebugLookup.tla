--------------------------- MODULE MCDebugLookup ---------------------------
(* One or two units: of an unknown version, without entries, not closed,   *)
(* or with three types and up to two variables and functions.  Functions   *)
(* have parameters of any of the types and of none, and a block with a     *)
(* function inside that claims the addresses asked about, before the next. *)
(* One function has no name.                                               *)
EXTENDS DebugLookup, SequencesExt

E(tag, name, kids, low, high, sib, type, size) ==
  [tag |-> tag, name |-> name, kids |-> kids, low |-> low, high |-> high,
   sib |-> sib, type |-> type, size |-> size]

Leaf(tag, name, type, size) == E(tag, name, FALSE, 0, 0, FALSE, type, size)
Null == Leaf("null", NoName, 0, 0)

\* Types are numbered 1 .. 3 here, as in their unit.
Types == << Leaf("base", "char", 0, 1), Leaf("base", "long", 0, 8),
            Leaf("typedef", "size_t", 2, 0) >>

Param(type) == Leaf("param", "p", type, 0)

Block == << E("block", NoName, TRUE, 0, 0, FALSE, 0, 0),
            E("function", "inner", FALSE, 2, 9, FALSE, 0, 0), Null >>

Bodies ==
  { << >>, <<Param(3)>>, <<Param(1), Param(3)>>, <<Param(0), Param(2)>>,
    <<Param(3), Leaf("other", "x", 0, 0), Param(1)>>, Block, <<Param(1)>> \o Block }

Function(name, low, high, body, sib) ==
  IF body = << >> THEN <<E("function", name, FALSE, low, high, FALSE, 0, 0)>>
  ELSE <<E("function", name, TRUE, low, high, sib, 0, 0)>> \o body \o <<Null>>

Items ==
  {<<Leaf("other", "v", 1, 0)>>}
  \cup {Function("f", 2, 6, b, s) : b \in Bodies, s \in BOOLEAN}
  \cup {Function("g", 6, 9, b, FALSE) : b \in {<< >>, <<Param(1), Param(3)>>, Block}}
  \cup {Function(NoName, 6, 9, << >>, FALSE)}

Contents(items) ==
  <<E("unit", "file", TRUE, 0, 0, FALSE, 0, 0)>> \o Types \o items \o <<Null>>

Units ==
  {[version |-> 2, entries |-> Contents(i)] : i \in Items}
  \cup {[version |-> 2, entries |-> Contents(i \o j)] : i \in Items, j \in Items}

OddUnits ==
  { [version |-> 5, entries |-> Contents(Function("f", 2, 6, << >>, FALSE))],
    [version |-> 2, entries |-> <<E("unit", "asm", FALSE, 0, 0, FALSE, 0, 0)>>],
    [version |-> 2, entries |-> Front(Contents(Function("f", 2, 6, <<Param(3)>>, TRUE)))] }

\* References to types become places.
Placed(es, before) ==
  [k \in DOMAIN es |-> IF es[k].type = 0 THEN es[k]
                       ELSE [es[k] EXCEPT !.type = @ + before + 1]]

Info1(u) ==
  [units |-> <<[first |-> 1, next |-> Len(u.entries) + 1, version |-> u.version]>>,
   entries |-> Placed(u.entries, 0)]

Info2(u, v) ==
  LET m == Len(u.entries)
      n == m + Len(v.entries)
  IN  [units |-> <<[first |-> 1, next |-> m + 1, version |-> u.version],
                   [first |-> m + 1, next |-> n + 1, version |-> v.version]>>,
       entries |-> Placed(u.entries, 0) \o Placed(v.entries, m)]

MCInfos ==
  {Info1(u) : u \in Units \cup OddUnits}
  \cup {Info2(u, v) : u \in OddUnits \cup {[version |-> 2, entries |-> Contents(i)] : i \in Items},
                      v \in {[version |-> 2, entries |-> Contents(i)] : i \in Items}}

MCAddrs == {1, 4, 7}
============================================================================
