---------------------------- MODULE DwarfWriter ----------------------------
(***************************************************************************)
(* The compiler's and the assembler's side of .debug_info and              *)
(* .debug_abbrev: how units, abbreviations and entries are put into bytes, *)
(* as the DWARF standard says.  None of it is in the repository.           *)
(*                                                                         *)
(* A file is the byte order (msb), the tables of abbreviations, the units, *)
(* and the bytes of .debug_str.  An abbreviation has a code, a tag,        *)
(* children (0 or 1), and attributes with the names of their forms.  A     *)
(* unit has its table and its entries, one after the other; an entry has   *)
(* the code of its abbreviation and the values, and the code 0 is the end  *)
(* of the children of an entry.  The value of a DW_AT_sibling is the       *)
(* number of an entry of the unit, or of the place behind the last.        *)
(***************************************************************************)
EXTENDS Integers, Sequences, SequencesExt, Functions

CONSTANTS
  GROUP,    (* bits of a number in a byte of LEB128, 7                     *)
  INT       (* bits of an int, 32                                          *)

ASSUME DwarfAssumption == GROUP \in Nat \ {0} /\ INT \in Nat /\ INT > GROUP

BYTE == 2^(GROUP + 1)

FORM == [addr |-> 1, block2 |-> 3, block4 |-> 4, data2 |-> 5, data4 |-> 6,
         data8 |-> 7, string |-> 8, block |-> 9, block1 |-> 10, data1 |-> 11,
         flag |-> 12, sdata |-> 13, strp |-> 14, udata |-> 15, ref_addr |-> 16,
         ref1 |-> 17, ref2 |-> 18, ref4 |-> 19, ref8 |-> 20, ref_udata |-> 21,
         indirect |-> 22, sec_offset |-> 23, exprloc |-> 24, flag_present |-> 25,
         ref_sig8 |-> 32]
DW_AT_sibling == 1
DW_AT_name == 3
DW_CHILDREN_yes == 1

UnknownForm == 33
FormCode(f) == IF f \in DOMAIN FORM THEN FORM[f] ELSE UnknownForm

---------------------------------------------------------------------------
WriteNum(msb, n, size) ==
  LET lsb == [i \in 1 .. size |-> (n \div BYTE^(i - 1)) % BYTE]
  IN  IF msb THEN Reverse(lsb) ELSE lsb

Groups(n, count) ==
  [i \in 1 .. count |-> ((n \div 2^(GROUP * (i - 1))) % 2^GROUP)
                        + (IF i < count THEN 2^GROUP ELSE 0)]
WriteUleb(n) == Groups(n, Min({k \in 1 .. INT : n < 2^(GROUP * k)}))
WriteSleb(n) ==
  LET k == Min({j \in 1 .. INT : n \in -(2^(GROUP * j - 1)) .. 2^(GROUP * j - 1) - 1})
  IN  Groups(n % 2^(GROUP * k), k)

Fixed(u) ==
  [data1 |-> 1, flag |-> 1, ref1 |-> 1, data2 |-> 2, ref2 |-> 2, data4 |-> 4, ref4 |-> 4,
   data8 |-> 8, ref8 |-> 8, addr |-> u.addr_size, strp |-> u.dwarf_size,
   sec_offset |-> u.dwarf_size,
   ref_addr |-> IF u.version = 2 THEN u.addr_size ELSE u.dwarf_size]
LengthSize == [block1 |-> 1, block2 |-> 2, block4 |-> 4]

WriteValue(msb, u, f, v) ==
  CASE f \in DOMAIN Fixed(u)   -> WriteNum(msb, v, Fixed(u)[f])
    [] f \in DOMAIN LengthSize -> WriteNum(msb, Len(v), LengthSize[f]) \o v
    [] f \in {"block", "exprloc"}   -> WriteUleb(Len(v)) \o v
    [] f \in {"udata", "ref_udata"} -> WriteUleb(v)
    [] f = "sdata"    -> WriteSleb(v)
    [] f = "string"   -> Append(v, 0)
    [] f = "ref_sig8" -> v
    [] f = "indirect" -> WriteUleb(FormCode(v.form)) \o
                         (IF v.form = "data1" THEN <<v.val>> ELSE Append(v.val, 0))
    [] OTHER          -> << >>

WriteTable(t) ==
  LET attr(a) == WriteUleb(a.at) \o WriteUleb(FormCode(a.form))
      abbr(a) == WriteUleb(a.code) \o WriteUleb(a.tag) \o <<a.children>>
                 \o FlattenSeq([i \in DOMAIN a.attrs |-> attr(a.attrs[i])]) \o <<0, 0>>
  IN  FlattenSeq([i \in DOMAIN t |-> abbr(t[i])]) \o <<0>>

TablesSize(f, n) == Len(FlattenSeq([i \in 1 .. n |-> WriteTable(f.tables[i])]))

Known(f, u, e) == \E a \in Range(f.tables[u.table]) : a.code = e.code
AbbrevOf(f, u, e) == CHOOSE a \in Range(f.tables[u.table]) : a.code = e.code

\* An entry whose DW_AT_sibling, which has a fixed size, is sib.
WriteEntry(f, u, e, sib) ==
  LET attrs == IF Known(f, u, e) THEN AbbrevOf(f, u, e).attrs ELSE << >>
      value(i) == IF attrs[i].at = DW_AT_sibling THEN sib ELSE e.vals[i]
  IN  WriteUleb(e.code)
      \o FlattenSeq([i \in DOMAIN attrs |-> WriteValue(f.msb, u, attrs[i].form, value(i))])

LengthField(u) == IF u.dwarf_size = 8 THEN 12 ELSE 4

\* From the start of the unit to its k-th entry, and from that of the section.
InUnitAt(f, u, k) ==
  LengthField(u) + 2 + u.dwarf_size + 1
  + Len(FlattenSeq([j \in 1 .. k - 1 |-> WriteEntry(f, u, u.entries[j], 0)]))
EntryAt(f, n, k) ==
  FoldLeft(LAMBDA a, m : a + InUnitAt(f, f.units[m], Len(f.units[m].entries) + 1), 0,
           [m \in 1 .. n - 1 |-> m])
  + InUnitAt(f, f.units[n], k)

SiblingValue(f, n, e) ==
  LET u == f.units[n]
      attrs == IF Known(f, u, e) THEN AbbrevOf(f, u, e).attrs ELSE << >>
      sibs == {i \in DOMAIN attrs : attrs[i].at = DW_AT_sibling}
      k == e.vals[CHOOSE i \in sibs : TRUE]
  IN  IF sibs = {} THEN 0
      ELSE IF attrs[CHOOSE i \in sibs : TRUE].form = "ref_addr" THEN EntryAt(f, n, k)
      ELSE InUnitAt(f, u, k)

WriteUnit(f, n) ==
  LET u == f.units[n]
      rest == InUnitAt(f, u, Len(u.entries) + 1) - LengthField(u)
  IN  (IF u.dwarf_size = 8 THEN [i \in 1 .. 4 |-> BYTE - 1] \o WriteNum(f.msb, rest, 8)
                           ELSE WriteNum(f.msb, rest, 4))
      \o WriteNum(f.msb, u.version, 2)
      \o WriteNum(f.msb, TablesSize(f, u.table - 1), u.dwarf_size) \o <<u.addr_size>>
      \o FlattenSeq([k \in DOMAIN u.entries |->
                       WriteEntry(f, u, u.entries[k], SiblingValue(f, n, u.entries[k]))])

(* The files that are asked about: a unit has an entry, a number in LEB128 *)
(* fits an int, and version 4 has no DW_FORM_ref_addr.                     *)
FileOK(f) ==
  \A n \in DOMAIN f.units :
    LET u == f.units[n]
        valueOK(form, v) ==
          /\ form = "sdata" => v \in -(2^(INT - 1)) .. 2^(INT - 1) - 1
          /\ form \in {"udata", "ref_udata"} => v \in 0 .. 2^(INT - 1) - 1
          /\ form = "ref_addr" => u.version # 4
    IN  /\ u.entries # << >>
        /\ \A k \in DOMAIN u.entries :
             LET e == u.entries[k]
             IN  Known(f, u, e) => \A i \in DOMAIN e.vals :
                                     valueOK(AbbrevOf(f, u, e).attrs[i].form, e.vals[i])
============================================================================
