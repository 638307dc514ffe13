---------------------------- MODULE MCDieReader ----------------------------
(* Bytes of four bits and ints of eight, so that one, two and three groups *)
(* of LEB128 are needed, the third cut off by the int.  Every form with    *)
(* its smallest, its largest and other values, in both byte orders and     *)
(* both sizes of DWARF; trees with and without DW_AT_sibling; two units    *)
(* whose tables give the same codes another meaning; entries that cannot   *)
(* be read and a unit of an unknown version.                               *)
EXTENDS DieReader

A(at, f) == [at |-> at, form |-> f]
Ab(code, tag, children, attrs) ==
  [code |-> code, tag |-> tag, children |-> children, attrs |-> attrs]
E(code, vals) == [code |-> code, vals |-> vals]
Null == E(0, << >>)
Unit(version, dwarf_size, addr_size, table, entries) ==
  [version |-> version, dwarf_size |-> dwarf_size, addr_size |-> addr_size,
   table |-> table, entries |-> entries]
File(msb, tables, units) ==
  [msb |-> msb, tables |-> tables, units |-> units, str |-> <<5, 6, 0, 7, 0>>]

DW_TAG_compile_unit == 17
DW_TAG_subprogram == 46
DW_TAG_formal_parameter == 5
DW_TAG_lexical_block == 11

---------------------------------------------------------------------------
\* One value of one form, with an attribute before it and one behind it.
FormCases ==
  LET of(f, vals) == [i \in DOMAIN vals |-> <<f, vals[i]>>]
      bytes == << << >>, <<1>>, <<0, 15, 8, 7, 2, 3, 4, 9, 0>> >>
  IN  of("addr", <<0, 4660>>) \o of("data1", <<0, 15>>) \o of("flag", <<1>>)
      \o of("ref1", <<12>>) \o of("data2", <<255, 18>>) \o of("ref2", <<33>>)
      \o of("data4", <<4660, 65535>>) \o of("ref4", <<258>>) \o of("data8", <<4660>>)
      \o of("ref8", <<77>>) \o of("sec_offset", <<291>>) \o of("strp", <<0, 1, 3>>)
      \o of("block", bytes) \o of("exprloc", bytes) \o of("block1", bytes)
      \o of("block2", bytes) \o of("block4", bytes)
      \o of("udata", <<0, 7, 8, 63, 64, 127>>) \o of("ref_udata", <<9>>)
      \o of("sdata", <<0, 3, 4, -1, -4, -5, 31, 32, -32, -33, 127, -128>>)
      \o of("string", << << >>, <<9>>, <<9, 2>> >>) \o of("ref_sig8", <<<<1, 2, 3, 4, 5, 6, 7, 0>>>>)
      \o of("flag_present", <<1>>)
      \o of("indirect", <<[form |-> "data1", val |-> 9], [form |-> "string", val |-> <<3, 4>>]>>)

FormFile(msb, size, c) ==
  File(msb,
       << <<Ab(1, DW_TAG_compile_unit, 1, <<A(19, "data1")>>),
            Ab(9, DW_TAG_subprogram, 0, <<A(58, "data1"), A(DW_AT_name, c[1]), A(59, "data1")>>)>> >>,
       <<Unit(4, size, 4, 1, <<E(1, <<12>>), E(9, <<3, c[2], 14>>), Null>>)>>)

---------------------------------------------------------------------------
(* A tree: the unit with a function f, which has a parameter, a block with *)
(* one entry, and another parameter; an entry p; and a function g with a   *)
(* parameter.  sib is the form of DW_AT_sibling, or "none".                *)
TreeTable(sib) ==
  LET s == IF sib = "none" THEN << >> ELSE <<A(DW_AT_sibling, sib)>>
  IN  <<Ab(1, DW_TAG_compile_unit, 1, <<A(DW_AT_name, "strp"), A(17, "addr")>>),
        Ab(2, DW_TAG_subprogram, 1, s \o <<A(DW_AT_name, "string")>>),
        Ab(3, DW_TAG_formal_parameter, 0, <<A(73, "ref4")>>),
        Ab(4, DW_TAG_lexical_block, 1, << >>),
        Ab(5, DW_TAG_subprogram, 1, <<A(DW_AT_name, "string")>>)>>

TreeEntries(sib) ==
  LET s == IF sib = "none" THEN << >> ELSE <<9>>
  IN  <<E(1, <<0, 4660>>), E(2, s \o <<<<7, 8>>>>), E(3, <<11>>), E(4, << >>), E(3, <<11>>), Null,
        E(3, <<12>>), Null, E(3, <<1>>), E(5, <<<<8>>>>), E(3, <<2>>), Null, Null>>

\* The same codes with other meanings.
OtherTable ==
  <<Ab(2, DW_TAG_lexical_block, 0, <<A(11, "udata")>>), Ab(1, DW_TAG_compile_unit, 1, << >>)>>
OtherUnit(version, size) ==
  Unit(version, size, 2, 2, <<E(1, << >>), E(2, <<5>>), E(2, <<127>>), Null>>)

TreeFile(msb, size, sib) ==
  File(msb, <<TreeTable(sib), OtherTable>>,
       <<Unit(3, size, 8, 1, TreeEntries(sib)), OtherUnit(2, 4),
         Unit(2, 4, 4, 1, TreeEntries(sib))>>)

BadFile(msb, version, e) ==
  File(msb, << <<Ab(1, DW_TAG_compile_unit, 1, << >>), Ab(2, DW_TAG_subprogram, 1, <<A(2, "unknown")>>),
                 Ab(3, DW_TAG_subprogram, 1, << >>)>>, OtherTable>>,
       <<Unit(4, 4, 4, 1, <<E(1, << >>), E(3, << >>), e, Null, E(3, << >>), Null, Null>>),
         OtherUnit(version, 4)>>)

Orders == <<TRUE, FALSE>>
Sizes == <<4, 8>>
Siblings == <<"ref4", "ref2", "ref_addr", "none">>

\* g(x, y, z) for all x, y and z.
Cases(xs, ys, zs, g(_, _, _)) ==
  FlattenSeq([i \in DOMAIN xs |-> FlattenSeq([j \in DOMAIN ys |->
                [k \in DOMAIN zs |-> g(xs[i], ys[j], zs[k])]])])

MCFiles ==
  Cases(Orders, Sizes, FormCases, FormFile) \o Cases(Orders, Sizes, Siblings, TreeFile)
  \o Cases(Orders, <<4, 5>>, <<E(2, <<0>>), E(7, << >>)>>, BadFile)
============================================================================
