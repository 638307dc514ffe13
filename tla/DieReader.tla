----------------------------- MODULE DieReader -----------------------------
(***************************************************************************)
(* kern/libdwarf_rw.c on the bytes of .debug_info and .debug_abbrev: the   *)
(* header of a unit, the abbreviation of an entry, its attributes by their *)
(* forms, and the way from an entry to its child or its sibling.           *)
(* DebugLookup takes entries as given; this module is about how they are   *)
(* got from bytes, DwarfWriter about how they came there.                  *)
(***************************************************************************)
EXTENDS DwarfWriter

CONSTANT Files  (* what the sections may hold, a sequence                  *)

ASSUME FilesAssumption == \A i \in DOMAIN Files : FileOK(Files[i])

VARIABLES
  file,               (* what the compiler wrote                           *)
  info, abbrev, str,  (* the bytes of the sections                         *)
  pc,                 (* "cu"; in dwarf_search_die_within_cu() "search",   *)
                      (* "abbrev", "attrdef" and "attr"; then "held",      *)
                      (* "none" or "error"; "done"                         *)
  curr_off,           (* curr_off_dbginfo                                  *)
  cu,
  offset, level, search_sibling,
  entry,              (* the place and the code of the entry being read    *)
  ab, aboff,          (* the abbreviation being read, and where            *)
  form,               (* the form behind a DW_FORM_indirect, or 0          *)
  ret_die, die,
  unit, ask           (* ghosts: units begun; which entry the search is    *)
                      (* for                                               *)

sectionVars == <<file, info, abbrev, str>>
searchVars == <<offset, level, search_sibling, entry, ab, aboff, form>>
vars == <<sectionVars, pc, curr_off, cu, searchVars, ret_die, die, unit, ask>>

NoDie == [off |-> -1, ab |-> [code |-> 0, tag |-> 0, children |-> 0, attrs |-> << >>],
          attrs |-> << >>, name |-> << >>, next_off |-> 0]

Init ==
  /\ \E i \in DOMAIN Files : file = Files[i]
  /\ info = FlattenSeq([n \in DOMAIN file.units |-> WriteUnit(file, n)])
  /\ abbrev = FlattenSeq([i \in DOMAIN file.tables |-> WriteTable(file.tables[i])])
  /\ str = file.str
  /\ pc = "cu" /\ curr_off = 0 /\ unit = 0
  /\ cu = [offset |-> 0, next |-> 0, die |-> 0, dwarf_size |-> 4, version |-> 0,
           abbrev |-> 0, addr_size |-> 0]
  /\ offset = 0 /\ level = 0 /\ search_sibling = FALSE
  /\ entry = [off |-> 0, code |-> 0] /\ ab = NoDie.ab /\ aboff = 0 /\ form = 0
  /\ ret_die = NoDie /\ die = NoDie /\ ask = [what |-> "first", of |-> 0]

---------------------------------------------------------------------------
(* The readers.  Each answers a value and the offset behind it.            *)

\* dbg->read and dbg->decode, chosen by the byte order of the ELF header.
Read(data, off, size) ==
  LET src == SubSeq(data, off + 1, off + size)
      num(bytes) == FoldLeft(LAMBDA n, b : n * BYTE + b, 0, bytes)
  IN  IF size \in {1, 2, 4, 8}
      THEN [val |-> num(IF file.msb THEN src ELSE Reverse(src)), off |-> off + size]
      ELSE [val |-> 0, off |-> off]

(* An int, as it is added to a number of 64 bits: with its sign.           *)
Signed(n) == IF n % 2^INT >= 2^(INT - 1) THEN (n % 2^INT) - 2^INT ELSE n % 2^INT

\* The groups are shifted as ints.
LebGroups(data, off) ==
  LET len == Min({k \in 1 .. Len(data) - off : data[off + k] < 2^GROUP})
      add(n, k) == n + Signed((data[off + k] % 2^GROUP) * 2^(GROUP * (k - 1)))
  IN  [val |-> FoldLeft(add, 0, [k \in 1 .. len |-> k]), off |-> off + len,
       shift |-> GROUP * len]

Uleb(data, off) == LebGroups(data, off)

\* Faulty variant: the sign is tested in the bit by which the number goes on.
SlebWrongBit(data, off) ==
  LET n == LebGroups(data, off)
  IN  IF n.shift < INT /\ data[n.off] >= 2^GROUP
      THEN [n EXCEPT !.val = @ - 2^n.shift] ELSE n

\* The last group's highest bit is the sign, if an int still has room for it.
Sleb(data, off) ==
  LET n == LebGroups(data, off)
  IN  IF n.shift < INT /\ data[n.off] >= 2^(GROUP - 1)
      THEN [n EXCEPT !.val = @ - 2^n.shift] ELSE n

CharsAt(data, off) ==
  LET len == Min({k \in 0 .. Len(data) - off : off + k = Len(data) \/ data[off + k + 1] = 0})
  IN  SubSeq(data, off + 1, off + len)

\* _dwarf_read_string() stops at the end of the section, too.
ReadString(data, off) ==
  LET end == off + Len(CharsAt(data, off))
  IN  [val |-> off, off |-> IF end < Len(data) THEN end + 1 ELSE end]

---------------------------------------------------------------------------
(* _get_next_cu(), and the search for the unit's first entry.  At the end  *)
(* of the section the code reads on; what is there is no header of a       *)
(* version that is known.                                                  *)
Search(off, sibling, what) ==
  /\ offset' = off /\ level' = 1 /\ search_sibling' = sibling
  /\ ask' = what
  /\ pc' = "search"

CuHeader(length, start) ==
  LET version == Read(info, length.off, 2)
      table == Read(info, version.off, length.size)
      addr == Read(info, table.off, 1)
  IN  [offset |-> start, next |-> length.off + length.val, die |-> addr.off,
       dwarf_size |-> length.size, version |-> version.val,
       abbrev |-> table.val, addr_size |-> addr.val]

UnitLength(off) ==
  LET short == Read(info, off, 4)
      long == Read(info, short.off, 8)
  IN  IF short.val = BYTE^4 - 1 THEN [val |-> long.val % BYTE^4, off |-> long.off, size |-> 8]
                                ELSE [val |-> short.val, off |-> short.off, size |-> 4]

\* dwarf_offdie(): nothing is looked for behind the end of the unit.
FirstDie ==
  IF cu'.die < cu'.next THEN Search(cu'.die, FALSE, [what |-> "first", of |-> 0])
  ELSE pc' = "held" /\ UNCHANGED <<offset, level, search_sibling, ask>>

GetNextCu ==
  /\ pc = "cu" /\ curr_off < Len(info)
  /\ cu' = CuHeader(UnitLength(curr_off), curr_off)
  /\ curr_off' = cu'.next /\ unit' = unit + 1
  /\ IF cu'.version \notin 2 .. 4
     THEN pc' = "done" /\ UNCHANGED <<searchVars, ask>>
     ELSE FirstDie /\ UNCHANGED <<entry, ab, aboff, form>>
  /\ UNCHANGED <<sectionVars, ret_die, die>>

NoMoreCu ==
  /\ pc = "cu" /\ curr_off >= Len(info)
  /\ pc' = "done"
  /\ UNCHANGED <<sectionVars, curr_off, cu, searchVars, ret_die, die, unit, ask>>

---------------------------------------------------------------------------
(* dwarf_search_die_within_cu().                                           *)

InUnit == offset < cu.next /\ offset < Len(info)

Answer(a) == pc' = a /\ UNCHANGED <<searchVars, ret_die, die>>

SearchEnds ==
  /\ pc = "search" /\ ~InUnit
  /\ Answer("none")
  /\ UNCHANGED <<sectionVars, curr_off, cu, unit, ask>>

NullEntry ==
  /\ pc = "search" /\ InUnit /\ Uleb(info, offset).val = 0
  /\ IF level = 0 \/ ~search_sibling THEN Answer("none")
     ELSE /\ level' = level - 1 /\ offset' = Uleb(info, offset).off
          /\ UNCHANGED <<pc, search_sibling, entry, ab, aboff, form, ret_die, die>>
  /\ UNCHANGED <<sectionVars, curr_off, cu, unit, ask>>

\* The code of an entry; its abbreviation is looked for from the unit's first.
EntryCode ==
  /\ pc = "search" /\ InUnit /\ Uleb(info, offset).val # 0
  /\ entry' = [off |-> offset, code |-> Uleb(info, offset).val]
  /\ offset' = Uleb(info, offset).off
  /\ aboff' = cu.abbrev /\ pc' = "abbrev"
  /\ UNCHANGED <<sectionVars, curr_off, cu, level, search_sibling, ab, form, ret_die, die,
                 unit, ask>>

\* The start of _dwarf_abbrev_parse(): none is left, or the next one's head.
AbbrevEnds ==
  /\ pc = "abbrev" /\ (aboff >= Len(abbrev) \/ Uleb(abbrev, aboff).val = 0)
  /\ Answer("none")
  /\ UNCHANGED <<sectionVars, curr_off, cu, unit, ask>>

AbbrevHead ==
  /\ pc = "abbrev" /\ aboff < Len(abbrev) /\ Uleb(abbrev, aboff).val # 0
  /\ LET code == Uleb(abbrev, aboff)
         tag == Uleb(abbrev, code.off)
         children == Read(abbrev, tag.off, 1)
     IN  /\ ab' = [code |-> code.val, tag |-> tag.val, children |-> children.val, attrs |-> << >>]
         /\ aboff' = children.off
  /\ pc' = "attrdef"
  /\ UNCHANGED <<sectionVars, curr_off, cu, offset, level, search_sibling, entry, form,
                 ret_die, die, unit, ask>>

\* A pair of attribute and form.  After the last it is known which one it was.
AttrDef ==
  /\ pc = "attrdef"
  /\ LET at == Uleb(abbrev, aboff)
         f == Uleb(abbrev, at.off)
     IN  /\ aboff' = f.off
         /\ IF at.val # 0
            THEN /\ ab' = [ab EXCEPT !.attrs = Append(@, [at |-> at.val, form |-> f.val])]
                 /\ UNCHANGED <<pc, ret_die>>
            ELSE /\ IF ab.code = entry.code
                    THEN /\ ret_die' = [ret_die EXCEPT !.off = entry.off, !.ab = ab, !.attrs = << >>]
                         /\ pc' = "attr"
                    ELSE pc' = "abbrev" /\ UNCHANGED ret_die
                 /\ UNCHANGED ab
  /\ UNCHANGED <<sectionVars, curr_off, cu, offset, level, search_sibling, entry, form, die,
                 unit, ask>>

---------------------------------------------------------------------------
(* _dwarf_attr_init(): u is the value, and for blocks and strings from     *)
(* .debug_str p is where they are.                                         *)

\* Bytes of a fixed-size form; -1 for the others.
Size(f) ==
  CASE f = FORM.addr -> cu.addr_size
    [] f \in {FORM.data1, FORM.flag, FORM.ref1} -> 1
    [] f \in {FORM.data2, FORM.ref2} -> 2
    [] f \in {FORM.data4, FORM.ref4} -> 4
    [] f \in {FORM.data8, FORM.ref8} -> 8
    [] f \in {FORM.sec_offset, FORM.strp} -> cu.dwarf_size
    [] f = FORM.ref_addr -> CASE cu.version = 2 -> cu.addr_size
                              [] cu.version = 3 -> cu.dwarf_size
                              [] OTHER          -> 0
    [] OTHER -> -1

\* Bytes of the length before a block; 0 for a length in LEB128.
BlockSize(f) ==
  CASE f \in {FORM.block, FORM.exprloc} -> 0
    [] f = FORM.block1 -> 1
    [] f = FORM.block2 -> 2
    [] f = FORM.block4 -> 4
    [] OTHER -> -1

AttrValue(f) ==
  LET fixed == Read(info, offset, Size(f))
      length == IF BlockSize(f) = 0 THEN Uleb(info, offset) ELSE Read(info, offset, BlockSize(f))
      value(n, p, off) == [u |-> n, p |-> p, off |-> off]
      plain(r) == value(r.val, 0, r.off)
  IN  CASE f = FORM.strp -> value(fixed.val, fixed.val, fixed.off)
        [] f # FORM.strp /\ Size(f) >= 0 -> plain(fixed)
        [] BlockSize(f) >= 0 -> value(length.val, length.off, length.off + length.val)
        [] f \in {FORM.udata, FORM.ref_udata} -> plain(Uleb(info, offset))
        [] f = FORM.sdata -> plain(Sleb(info, offset))
        [] f = FORM.string -> plain(ReadString(info, offset))
        [] f = FORM.ref_sig8 -> value(8, offset, offset + 8)
        [] f = FORM.flag_present -> value(1, 0, offset)

AttrDefNow == ab.attrs[Len(ret_die.attrs) + 1]
FormNow == IF form = 0 THEN AttrDefNow.form ELSE form
Attr == pc = "attr" /\ Len(ret_die.attrs) < Len(ab.attrs)

AttrIndirect ==
  /\ Attr /\ FormNow = FORM.indirect
  /\ form' = Uleb(info, offset).val /\ offset' = Uleb(info, offset).off
  /\ UNCHANGED <<sectionVars, pc, curr_off, cu, level, search_sibling, entry, ab, aboff,
                 ret_die, die, unit, ask>>

AttrInit ==
  /\ Attr /\ FormNow \in Range(FORM) \ {FORM.indirect}
  /\ LET v == AttrValue(FormNow)
         named == AttrDefNow.at = DW_AT_name
     IN  /\ ret_die' =
              [ret_die EXCEPT
                 !.attrs = Append(@, [at |-> AttrDefNow.at, form |-> AttrDefNow.form,
                                      u |-> v.u, p |-> v.p]),
                 !.name = CASE named /\ AttrDefNow.form = FORM.strp   -> CharsAt(str, v.p)
                            [] named /\ AttrDefNow.form = FORM.string -> CharsAt(info, v.u)
                            [] OTHER -> @]
         /\ offset' = v.off
  /\ form' = 0
  /\ UNCHANGED <<sectionVars, pc, curr_off, cu, level, search_sibling, entry, ab, aboff,
                 die, unit, ask>>

AttrFormBad ==
  /\ Attr /\ FormNow \notin Range(FORM)
  /\ pc' = "error" /\ form' = 0
  /\ UNCHANGED <<sectionVars, curr_off, cu, offset, level, search_sibling, entry, ab, aboff,
                 ret_die, die, unit, ask>>

\* Faulty variant: children of an entry that is passed over not counted.
LevelFlat == level

LevelNow == IF ab.children = DW_CHILDREN_yes THEN level + 1 ELSE level

DieRead ==
  /\ pc = "attr" /\ Len(ret_die.attrs) = Len(ab.attrs)
  /\ ret_die' = [ret_die EXCEPT !.next_off = offset]
  /\ IF search_sibling /\ level > 0
     THEN level' = LevelNow /\ pc' = "search" /\ UNCHANGED die
     ELSE pc' = "held" /\ die' = ret_die' /\ UNCHANGED level
  /\ UNCHANGED <<sectionVars, curr_off, cu, offset, search_sibling, entry, ab, aboff, form,
                 unit, ask>>

---------------------------------------------------------------------------
(* The calls of a client that holds an entry, and its next unit.           *)

CallVars == UNCHANGED <<sectionVars, curr_off, cu, entry, ab, aboff, form, ret_die, die, unit>>

dwarf_child ==
  /\ pc = "held" /\ CallVars
  /\ IF die.ab.children = DW_CHILDREN_yes
     THEN Search(die.next_off, FALSE, [what |-> "child", of |-> die.off])
     ELSE /\ pc' = "none" /\ ask' = [what |-> "child", of |-> die.off]
          /\ UNCHANGED <<offset, level, search_sibling>>

SiblingAttrs == SelectSeq(die.attrs, LAMBDA a : a.at = DW_AT_sibling)

dwarf_siblingof ==
  /\ pc = "held" /\ CallVars
  /\ LET what == [what |-> "sibling", of |-> die.off]
     IN  IF die.ab.children # DW_CHILDREN_yes THEN Search(die.next_off, FALSE, what)
         ELSE IF SiblingAttrs = << >> THEN Search(die.next_off, TRUE, what)
         ELSE LET at == Head(SiblingAttrs)
              IN  Search(IF at.form = FORM.ref_addr THEN at.u ELSE at.u + cu.offset, FALSE, what)

NextUnit ==
  /\ pc \in {"held", "none", "error"}
  /\ pc' = "cu"
  /\ UNCHANGED <<sectionVars, curr_off, cu, searchVars, ret_die, die, unit, ask>>

Done == pc = "done" /\ UNCHANGED vars

Next ==
  \/ GetNextCu \/ NoMoreCu \/ SearchEnds \/ NullEntry \/ EntryCode
  \/ AbbrevEnds \/ AbbrevHead \/ AttrDef
  \/ AttrIndirect \/ AttrInit \/ AttrFormBad \/ DieRead
  \/ dwarf_child \/ dwarf_siblingof \/ NextUnit \/ Done

Spec == Init /\ [][Next]_vars

---------------------------------------------------------------------------
UnitNow == file.units[unit]
Entries == UnitNow.entries
Places == [k \in DOMAIN Entries |-> EntryAt(file, unit, k)]
EntryOf(off) == CHOOSE k \in DOMAIN Entries : Places[k] = off

\* What a client sees in an attribute, and what the compiler put there.
Seen(f, at) ==
  CASE f \in {"block", "block1", "block2", "block4", "exprloc", "ref_sig8"} ->
         SubSeq(info, at.p + 1, at.p + at.u)
    [] f = "string" -> CharsAt(info, at.u)
    [] f = "strp"   -> CharsAt(str, at.p)
    [] OTHER        -> at.u

Written(f, v) ==
  CASE f = "flag_present" -> 1
    [] f = "strp"         -> CharsAt(str, v)
    [] OTHER              -> v

AttrRight(e, def, at, v) ==
  /\ at.at = def.at /\ at.form = FormCode(def.form)
  /\ IF def.at = DW_AT_sibling THEN at.u = SiblingValue(file, unit, e)
     ELSE IF def.form = "indirect" THEN Seen(v.form, at) = v.val
     ELSE Seen(def.form, at) = Written(def.form, v)

(* An entry got from the bytes is the one the compiler wrote: it has the   *)
(* tag, the attributes and the values of its own unit's abbreviation of    *)
(* that code, in either byte order and either size of DWARF, its name if   *)
(* it has one, and the entry behind it begins where die_next_off says.     *)
DieRight ==
  pc = "held" =>
    \E k \in DOMAIN Entries :
      LET e == Entries[k]
          abbr == AbbrevOf(file, UnitNow, e)
      IN  /\ die.off = Places[k] /\ Known(file, UnitNow, e)
          /\ die.ab.tag = abbr.tag /\ die.ab.children = abbr.children
          /\ Len(die.attrs) = Len(e.vals)
          /\ \A i \in DOMAIN e.vals :
               LET def == abbr.attrs[i]
               IN  /\ AttrRight(e, def, die.attrs[i], e.vals[i])
                   /\ def.at = DW_AT_name /\ def.form \in {"string", "strp"}
                        => die.name = Written(def.form, e.vals[i])
          /\ die.next_off = EntryAt(file, unit, k + 1)

HasKids(k) == /\ Known(file, UnitNow, Entries[k])
              /\ AbbrevOf(file, UnitNow, Entries[k]).children = DW_CHILDREN_yes

Count(S) == Len(SetToSeq(S))
Depth(k, j) == Count({x \in k .. j - 1 : HasKids(x)}) - Count({x \in k .. j - 1 : Entries[x].code = 0})

\* The entry asked for, or 0.
Wanted ==
  LET k == EntryOf(ask.of)
      real(j) == IF j \in DOMAIN Entries /\ Entries[j].code # 0 THEN j ELSE 0
  IN  CASE ask.what = "first" -> 1
        [] ask.what = "child" -> IF HasKids(k) THEN real(k + 1) ELSE 0
        [] ask.what = "sibling" ->
             real(Min({j \in k + 1 .. Len(Entries) + 1 : j = Len(Entries) + 1 \/ Depth(k, j) = 0}))

Readable ==
  \A k \in DOMAIN Entries :
    Entries[k].code # 0 =>
      /\ Known(file, UnitNow, Entries[k])
      /\ \A a \in Range(AbbrevOf(file, UnitNow, Entries[k]).attrs) : a.form \in DOMAIN FORM

(* The child and the sibling of an entry are those of the tree of entries, *)
(* whether found by a DW_AT_sibling or by going through everything below   *)
(* the entry; none is found only if there is none, or if the unit has an   *)
(* entry that cannot be read.                                              *)
Navigates ==
  /\ pc = "held" => Wanted # 0 /\ die.off = Places[Wanted]
  /\ pc = "none" /\ Readable => Wanted = 0
  /\ pc = "error" => ~Readable
============================================================================
