--------------------------- MODULE MCFrameProgram ---------------------------
(* A section with two CIEs and three descriptions, of which one has any of *)
(* the programs; sections with a terminator before the last.  The programs *)
(* have up to two instructions of any kind between two locations, and a    *)
(* remembered state around some.                                           *)
EXTENDS FrameProgram, SequencesExt

I(op, r, n) == [op |-> op, r |-> r, n |-> n]

Kinds ==
  { I("advance", 0, 1), I("advance", 0, 4), I("set_loc", 0, 12), I("nop", 0, 0),
    I("offset", 1, 2), I("offset", 2, 3), I("offset", 3, 1),
    I("val_offset", 1, 1), I("restore", 1, 0), I("undefined", 1, 0), I("same_value", 1, 0),
    I("register", 1, 2), I("expression", 1, 5), I("val_expression", 2, 5),
    I("def_cfa", 2, 8), I("def_cfa_sf", 2, -1), I("def_cfa_register", 0, 0),
    I("def_cfa_offset", 0, 16), I("def_cfa_expression", 0, 3), I("unknown", 0, 0) }

Remember == I("remember_state", 0, 0)
Restore == I("restore_state", 0, 0)
Adv == I("advance", 0, 2)

Bodies ==
  {b \o <<Adv>> \o c : b, c \in BoundedSeq(Kinds, 1)}
  \cup BoundedSeq(Kinds, 2)
  \cup {<<Remember, k, Adv, Restore, l>> : k, l \in Kinds}
  \cup {<<I("offset", 1, 2), Remember, I("def_cfa_offset", 0, 24), Adv, Restore, k>> :
          k \in Kinds}
  \cup {<<Remember, Remember, I("def_cfa_offset", 0, 24), Restore, Adv, Restore>>}

Cie(daf) ==
  [kind |-> "cie", caf |-> 1, daf |-> daf,
   insts |-> <<I("def_cfa", 2, 8), I("offset", 1, 1)>>]

Fde(c, loc, is) ==
  [kind |-> "fde", cie |-> c, loc |-> loc, range |-> 4, insts |-> is]

Terminator == [kind |-> "end"]

Simple == <<I("undefined", 2, 0), I("def_cfa_offset", 0, 32)>>

Section(b) == <<Cie(-8), Fde(1, 10, b), Fde(1, 20, Simple), Cie(-4), Fde(4, 4, Simple)>>

MCSections ==
  {Section(b) : b \in Bodies}
  \cup {<<Cie(-8), Fde(1, 10, b), Terminator, Fde(1, 20, Simple)>> : b \in {<< >>, Simple}}

MCAddrs == {4, 9, 11, 13, 20}
=============================================================================
