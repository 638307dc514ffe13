--------------------------- MODULE MCLineProgram ---------------------------
(* Headers with all standard opcodes, with those of version 2 only and     *)
(* with four; some that cannot be read.  Programs of one sequence with up  *)
(* to three instructions in it, or of two.                                 *)
EXTENDS LineProgram

H(minlen, lbase, lrange, opbase) ==
  LET h == [minlen |-> minlen, lbase |-> lbase, lrange |-> lrange, opbase |-> opbase,
            dirs |-> 3, files |-> 5, stmt_list |-> TRUE,
            length |-> 40, space |-> 40, hdrlen |-> 0]
  IN  [h EXCEPT !.hdrlen = HeaderSize(h)]

Good == H(1, -5, 14, 13)

MCHeaders ==
  { Good, H(1, -3, 12, 10), H(2, -1, 4, 4),
    [Good EXCEPT !.stmt_list = FALSE],
    [Good EXCEPT !.length = 41], [Good EXCEPT !.hdrlen = 16],
    [Good EXCEPT !.length = 25, !.space = 25],
    [Good EXCEPT !.hdrlen = @ + 1] }

S(n, addr) == [op |-> "special", n |-> n, addr |-> addr]

Insts ==
  { S(0, 0), S(2, 0), S(-1, 2), S(1, 4), I("copy", 0),
    I("advance_pc", 3), I("fixed_advance_pc", 5), I("const_add_pc", 0),
    I("advance_line", 6), I("advance_line", -2),
    I("set_column", 2), I("set_isa", 1), I("set_prologue_end", 0),
    I("define_file", 0), I("vendor", 0) }

Sequence(first, body) ==
  <<I("set_address", first), I("advance_line", 9)>> \o body
  \o <<I("advance_pc", 2), I("end_sequence", 0)>>

Second == { <<S(0, 0)>>, <<S(2, 0), S(1, 4)>>, <<I("copy", 0), S(-1, 2)>> }

MCPrograms ==
  {<< >>} \cup {Sequence(4, b) : b \in BoundedSeq(Insts, 3)}
  \cup {Sequence(4, b) \o Sequence(12, c) : b \in Second, c \in Second}

MCAddrs == {3, 4, 7, 8, 13, 17}
=============================================================================
