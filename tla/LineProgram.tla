----------------------------- MODULE LineProgram -----------------------------
(***************************************************************************)
(* dwarf_srclines() of kern/libdwarf_lineno.c: the line of an address, from *)
(* the line number program of its unit.                                    *)
(*                                                                         *)
(* A program is read as a sequence of cells, each an opcode or an operand  *)
(* (a number, an address, a character); how many bytes an operand has is   *)
(* left out.  Of the registers and of a row, the address and the line are  *)
(* kept: debuginfo_rip() asks for nothing else.                            *)
(***************************************************************************)
EXTENDS Integers, Sequences, SequencesExt

CONSTANTS
  Headers,    (* the headers a program may have, see HeaderOK              *)
  Programs,   (* the programs: sequences of instructions, see ProgramOK    *)
  Addrs       (* the addresses asked about                                 *)

(* An instruction: its name and its operand, for "special" two of them.    *)
I(op, n) == [op |-> op, n |-> n, addr |-> 0]

---------------------------------------------------------------------------
(* What the assembler writes.                                              *)

Opcode(op) ==
  CASE op = "copy" -> 1 [] op = "advance_pc" -> 2 [] op = "advance_line" -> 3
    [] op = "set_file" -> 4 [] op = "set_column" -> 5 [] op = "negate_stmt" -> 6
    [] op = "set_basic_block" -> 7 [] op = "const_add_pc" -> 8
    [] op = "fixed_advance_pc" -> 9 [] op = "set_prologue_end" -> 10
    [] op = "set_epilogue_begin" -> 11 [] op = "set_isa" -> 12

Extended == {"end_sequence", "set_address", "define_file", "vendor"}
Bare == {"copy", "negate_stmt", "set_basic_block", "const_add_pc",
         "set_prologue_end", "set_epilogue_begin"}
WithOperand == {"advance_pc", "advance_line", "set_file", "set_column",
                "fixed_advance_pc", "set_isa"}

Instructions == [op : Extended \cup Bare \cup WithOperand \cup {"special"},
                 n : Int, addr : Nat]

SpecialOpcode(h, i) ==
  h.opbase + (i.n - h.lbase) + h.lrange * (i.addr \div h.minlen)

Cells(h, i) ==
  CASE i.op = "end_sequence" -> <<0, 1, 1>>
    [] i.op = "set_address"  -> <<0, 2, 2, i.n>>
    [] i.op = "define_file"  -> <<0, 6, 3, 97, 0, 1, 1, 1>>
    [] i.op = "vendor"       -> <<0, 3, 128, 1, 1>>
    [] i.op = "special"      -> <<SpecialOpcode(h, i)>>
    [] i.op \in Bare         -> <<Opcode(i.op)>>
    [] OTHER                 -> <<Opcode(i.op), i.n>>

(* The rows that a program means: the table of DWARF, which a reader need  *)
(* not build.  255 is the largest special opcode.                          *)
Start(seq) == [addr |-> 0, line |-> 1, seq |-> seq]

AddrAfter(h, r, i) ==
  CASE i.op = "special"          -> r.addr + i.addr
    [] i.op = "set_address"      -> i.n
    [] i.op = "advance_pc"       -> r.addr + i.n * h.minlen
    [] i.op = "fixed_advance_pc" -> r.addr + i.n
    [] i.op = "const_add_pc"     -> r.addr + ((255 - h.opbase) \div h.lrange) * h.minlen
    [] OTHER                     -> r.addr

LineAfter(r, i) == IF i.op \in {"special", "advance_line"} THEN r.line + i.n ELSE r.line

Effect(h, r, i) ==
  IF i.op = "end_sequence" THEN Start(r.seq + 1)
  ELSE [addr |-> AddrAfter(h, r, i), line |-> LineAfter(r, i), seq |-> r.seq]

Row(r, end) == [addr |-> r.addr, line |-> r.line, seq |-> r.seq, end |-> end]

RowsOf(h, r, i) ==
  CASE i.op = "special"      -> <<Row(Effect(h, r, i), FALSE)>>
    [] i.op = "copy"         -> <<Row(r, FALSE)>>
    [] i.op = "end_sequence" -> <<Row(r, TRUE)>>
    [] OTHER                 -> << >>

Onto(h, m, i) ==
  [reg |-> Effect(h, m.reg, i), rows |-> m.rows \o RowsOf(h, m.reg, i)]

\* The registers and the rows after each number of instructions.
Table(h, insts) ==
  LET m[k \in 0 .. Len(insts)] ==
        IF k = 0 THEN [reg |-> Start(1), rows |-> << >>] ELSE Onto(h, m[k - 1], insts[k])
  IN  m

Meaning(h, insts) == Table(h, insts)[Len(insts)].rows

---------------------------------------------------------------------------
(* Lengths are in bytes from the field after them, and space is what the   *)
(* section has from there on.  The program is behind a directory and a     *)
(* file list.  The version and the header's length take six bytes.         *)
HeaderSize(h) == 5 + (h.opbase - 1) + (h.dirs + 1) + (h.files + 1)
DirsEnd(h) == 6 + 5 + (h.opbase - 1) + h.dirs

(* All standard opcodes a header admits are known to the code, which skips *)
(* the operands of no other.                                               *)
HeaderOK(h) ==
  /\ h.lrange \in Nat \ {0} /\ h.minlen \in Nat \ {0} /\ h.lbase \in Int
  /\ h.opbase \in 1 .. 13 /\ h.dirs \in Nat /\ h.files \in Nat
  /\ h.stmt_list \in BOOLEAN
  /\ h.length \in Nat /\ h.space \in Nat /\ h.hdrlen \in Nat

Encodable(h, i) ==
  IF i.op = "special"
  THEN /\ i.n \in h.lbase .. h.lbase + h.lrange - 1
       /\ i.addr % h.minlen = 0 /\ SpecialOpcode(h, i) <= 255
  ELSE i.op \in Extended \/ Opcode(i.op) < h.opbase

(* A program under its header: sequences, each ended, whose rows are in    *)
(* increasing order of their addresses, and so are the sequences.          *)
ProgramOK(h, insts) ==
  LET rows == Meaning(h, insts)
  IN  /\ \A k \in DOMAIN insts : Encodable(h, insts[k])
      /\ insts # << >> => Last(insts).op = "end_sequence"
      /\ \A k \in 1 .. Len(rows) - 1 : rows[k].addr <= rows[k + 1].addr

ASSUME LineProgramAssumption ==
  /\ \A h \in Headers : HeaderOK(h)
  /\ Programs \subseteq Seq(Instructions)
  /\ Addrs \subseteq Nat

VARIABLES
  li,       (* the header                                                  *)
  insts,    (* the program                                                 *)
  pc,       (* the address asked about                                     *)
  code,     (* its cells                                                   *)
  at,       (* "init": in _dwarf_lineno_init(); "run": at *p; "done"       *)
  p,        (* place of the next cell                                      *)
  address, line,
  ln,       (* the row appended last                                       *)
  ret       (* what dwarf_srclines() answers                               *)

tableVars == <<li, insts, pc, code>>
vars == <<li, insts, pc, code, at, p, address, line, ln, ret>>

NoRow == [addr |-> 0, line |-> 0]

ResetRegisters == address' = 0 /\ line' = 1

Init ==
  /\ li \in Headers
  /\ insts \in {q \in Programs : ProgramOK(li, q)}
  /\ pc \in Addrs
  /\ code = FlattenSeq([k \in DOMAIN insts |-> Cells(li, insts[k])])
  /\ at = "init" /\ p = 1 /\ address = 0 /\ line = 1 /\ ln = NoRow /\ ret = "none"

---------------------------------------------------------------------------
Answer(r) == at' = "done" /\ ret' = r

BadHeader ==
  \/ li.length > li.space \/ li.hdrlen - 5 < li.opbase - 1
  \/ DirsEnd(li) > li.space \/ li.hdrlen # HeaderSize(li)

(* dwarf_srclines() and _dwarf_lineno_init() up to the program.            *)
ReadHeader ==
  /\ at = "init"
  /\ CASE ~li.stmt_list -> Answer("DW_DLV_NO_ENTRY")
       [] li.stmt_list /\ BadHeader -> Answer("DW_DLV_ERROR")
       [] OTHER -> at' = "run" /\ UNCHANGED ret
  /\ UNCHANGED <<tableVars, p, address, line, ln>>

Op == code[p]
AtOp(op) == at = "run" /\ p <= Len(code) /\ op > 0 /\ op < li.opbase /\ Op = op
AtExtended(op) == at = "run" /\ p <= Len(code) /\ Op = 0 /\ code[p + 2] = op

Advance(n) == ((n - li.opbase) \div li.lrange) * li.minlen

\* Faulty variant: one instruction too late.
AppendRowAt(a, l) ==
  IF pc <= a THEN Answer("DW_DLV_OK") /\ UNCHANGED ln
             ELSE ln' = [addr |-> a, line |-> l] /\ UNCHANGED <<at, ret>>

\* APPEND_ROW: a row behind the address asked about ends it all.
AppendRow(a, l) ==
  IF pc < a THEN Answer("DW_DLV_OK") /\ UNCHANGED ln
            ELSE ln' = [addr |-> a, line |-> l] /\ UNCHANGED <<at, ret>>

EndSequence ==
  /\ AtExtended(1)
  /\ p' = p + 3
  /\ ResetRegisters
  /\ UNCHANGED <<tableVars, at, ln, ret>>

SetAddress ==
  /\ AtExtended(2)
  /\ p' = p + 4 /\ address' = code[p + 3]
  /\ UNCHANGED <<tableVars, at, line, ln, ret>>

\* _dwarf_lineno_add_file(): a string and three numbers.
DefineFile ==
  /\ AtExtended(3)
  /\ \E e \in p + 3 .. Len(code) :
       /\ code[e] = 0 /\ \A k \in p + 3 .. e - 1 : code[k] # 0
       /\ p' = e + 4
  /\ UNCHANGED <<tableVars, at, address, line, ln, ret>>

\* Faulty variant: the size taken to be that of the operands.
UnknownExtendedLong ==
  /\ at = "run" /\ p <= Len(code) /\ Op = 0 /\ code[p + 2] \notin 1 .. 3
  /\ p' = p + 3 + code[p + 1]
  /\ UNCHANGED <<tableVars, at, address, line, ln, ret>>

UnknownExtended ==
  /\ at = "run" /\ p <= Len(code) /\ Op = 0 /\ code[p + 2] \notin 1 .. 3
  /\ p' = p + 2 + code[p + 1]
  /\ UNCHANGED <<tableVars, at, address, line, ln, ret>>

Copy ==
  /\ AtOp(1)
  /\ p' = p + 1
  /\ AppendRow(address, line)
  /\ UNCHANGED <<tableVars, address, line>>

AdvancePc ==
  /\ \/ AtOp(2) /\ p' = p + 2 /\ address' = address + code[p + 1] * li.minlen
     \/ AtOp(8) /\ p' = p + 1 /\ address' = address + Advance(255)
     \/ AtOp(9) /\ p' = p + 2 /\ address' = address + code[p + 1]
  /\ UNCHANGED <<tableVars, at, line, ln, ret>>

AdvanceLine ==
  /\ AtOp(3)
  /\ p' = p + 2 /\ line' = line + code[p + 1]
  /\ UNCHANGED <<tableVars, at, address, ln, ret>>

\* The registers that are left out, with an operand or without.
SetOther ==
  /\ \/ \E op \in {4, 5, 12} : AtOp(op) /\ p' = p + 2
     \/ \E op \in {6, 7, 10, 11} : AtOp(op) /\ p' = p + 1
  /\ UNCHANGED <<tableVars, at, address, line, ln, ret>>

Special ==
  /\ at = "run" /\ p <= Len(code) /\ Op # 0 /\ Op >= li.opbase
  /\ p' = p + 1
  /\ line' = line + li.lbase + ((Op - li.opbase) % li.lrange)
  /\ address' = address + Advance(Op)
  /\ AppendRow(address', line')
  /\ UNCHANGED tableVars

ProgramEnd ==
  /\ at = "run" /\ p > Len(code)
  /\ Answer("DW_DLV_OK")
  /\ UNCHANGED <<tableVars, p, address, line, ln>>

Next ==
  \/ ReadHeader \/ EndSequence \/ SetAddress \/ DefineFile \/ UnknownExtended
  \/ Copy \/ AdvancePc \/ AdvanceLine \/ SetOther \/ Special \/ ProgramEnd

Spec == Init /\ [][Next]_vars

---------------------------------------------------------------------------
TypeOK ==
  /\ at \in {"init", "run", "done"}
  /\ p \in 1 .. Len(code) + 1
  /\ address \in Nat /\ line \in Nat
  /\ ln \in [addr : Nat, line : Nat]
  /\ ret \in {"none", "DW_DLV_OK", "DW_DLV_ERROR", "DW_DLV_NO_ENTRY"}

(* An opcode is never read out of the middle of an instruction: whatever   *)
(* the operands, and whichever opcodes the header makes special, the code  *)
(* goes from one instruction to the next.                                  *)
OnInstruction ==
  at = "run" =>
    \E k \in 0 .. Len(insts) :
      p = 1 + Len(FlattenSeq([j \in 1 .. k |-> Cells(li, insts[j])]))

HasTable == li.stmt_list /\ ~BadHeader

(* The line answered for an address is that of the row that covers it, in  *)
(* whichever sequence, although no table is built and the reading stops at *)
(* the first row behind the address.  An address that no row covers gets   *)
(* the last row up to it, the line of code before the end of a sequence:   *)
(* the end of one is no row to dwarf_srclines().  In front of all rows, or *)
(* with a header that is refused, the line is 0.                           *)
LineFound ==
  at = "done" =>
    LET rows == Meaning(li, insts)
        covers(k) == /\ rows[k].addr <= pc /\ pc < rows[k + 1].addr
                     /\ ~rows[k].end /\ rows[k].seq = rows[k + 1].seq
        upto == {k \in 1 .. Len(rows) : ~rows[k].end /\ rows[k].addr <= pc}
    IN  IF HasTable
        THEN /\ \A k \in 1 .. Len(rows) - 1 : covers(k) => ln.line = rows[k].line
             /\ upto = {} => ln = NoRow
             /\ \A k \in upto :
                  (\A j \in upto : j <= k) => ln = [addr |-> rows[k].addr, line |-> rows[k].line]
        ELSE ln = NoRow
=============================================================================
