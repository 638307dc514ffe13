---------------------------- MODULE FrameProgram ----------------------------
(***************************************************************************)
(* kern/libdwarf_frame.c: finding the frame description of an address in   *)
(* .eh_frame and running its instructions, which gives the rules by which  *)
(* the caller's registers are found.                                       *)
(*                                                                         *)
(* The section is a sequence of entries, read in order; how the fields of  *)
(* an entry are encoded is left out.  An instruction is a record of its    *)
(* name, a register and a number.  The kernel does not call the library    *)
(* yet: a lookup is dwarf_init_eh_section(), dwarf_get_fde_at_pc() and     *)
(* dwarf_get_fde_info_for_all_regs() with the same address and always the  *)
(* same structures.                                                        *)
(***************************************************************************)
EXTENDS Integers, Sequences

CONSTANTS
  NRegs,      (* DW_FRAME_LAST_REG_NUM, the size of the register table     *)
  Sections,   (* the sections, see SectionOK                               *)
  Addrs,      (* the addresses asked about                                 *)
  MaxLookups  (* bound on the lookups                                      *)

Regs == 0 .. NRegs - 1
UNDEFINED == 1034
SAME == 1035
CFA_COL == 0
CFA_COL3 == 1436

OFFSET == 0
VAL_OFFSET == 1
EXPRESSION == 2
VAL_EXPRESSION == 3

RuleOps == {"offset", "val_offset", "restore", "undefined", "same_value",
            "register", "expression", "val_expression"}

CfaOps == {"def_cfa", "def_cfa_register", "def_cfa_offset", "def_cfa_sf",
           "def_cfa_expression"}

Instructions ==
  [op : RuleOps \cup CfaOps \cup {"advance", "set_loc", "nop", "remember_state",
                                  "restore_state", "unknown"},
   r : Nat, n : Int]

\* How many states are remembered after each instruction.
Depth(is) ==
  LET D[n \in 0 .. Len(is)] ==
        IF n = 0 THEN 0
        ELSE CASE is[n].op = "remember_state" -> D[n - 1] + 1
               [] is[n].op = "restore_state" -> D[n - 1] - 1
               [] OTHER -> D[n - 1]
  IN  D

(* States are restored that were remembered, and locations go up.          *)
ProgramOK(is) ==
  /\ is \in Seq(Instructions)
  /\ \A n \in 0 .. Len(is) : Depth(is)[n] >= 0
  /\ \A n \in 1 .. Len(is) : is[n].op \in {"advance", "set_loc"} => is[n].n \in Nat

(* Every description comes after its CIE and before another; ranges do not *)
(* overlap.                                                                *)
Follows(es, k) ==
  /\ es[k].cie \in 1 .. k - 1 /\ es[es[k].cie].kind = "cie"
  /\ \A j \in es[k].cie + 1 .. k : es[j].kind # "cie"

SectionOK(es) ==
  /\ es \in Seq({es[k] : k \in DOMAIN es})
  /\ \A k \in DOMAIN es : es[k].kind \in {"cie", "fde", "end"}
  /\ \A k \in DOMAIN es : es[k].kind = "cie" =>
       ProgramOK(es[k].insts) /\ es[k].caf \in Nat /\ es[k].daf \in Int
  /\ \A k \in DOMAIN es : es[k].kind = "fde" =>
       /\ Follows(es, k)
       /\ ProgramOK(es[k].insts) /\ es[k].loc \in Nat /\ es[k].range \in Nat
       /\ \A j \in DOMAIN es : es[j].kind = "fde" /\ j # k =>
            es[j].loc + es[j].range <= es[k].loc \/ es[k].loc + es[k].range <= es[j].loc

ASSUME FrameProgramAssumption ==
  /\ NRegs \in Nat \ {0}
  /\ Addrs \subseteq Nat
  /\ \A es \in Sections : SectionOK(es)

VARIABLES
  section, cfa_value,
  lookups,          (* how many lookups began                              *)
  at,               (* "idle"; "scan": in dwarf_get_fde_at_pc(); "table":  *)
                    (* in _dwarf_frame_get_internal_table(); "cie", "fde": *)
                    (* running instructions                                *)
  asked,            (* the address asked about                             *)
  eh_offset,        (* the next entry of the section                       *)
  cie, fde,         (* the entries that the caller's structures hold, or 0 *)
  p, pc,            (* next instruction, its location                      *)
  rt,               (* global_rt_table                                     *)
  shadow,           (* global_rt_table_shadow                              *)
  row_pc,
  initial,          (* ghost: the table at the start of the instructions   *)
  answer, reg_table (* what the lookup answers                             *)

scanVars == <<eh_offset, cie, fde>>
runVars == <<p, pc, rt, shadow, row_pc, initial>>
answerVars == <<answer, reg_table>>
vars == <<section, cfa_value, lookups, at, asked, scanVars, runVars, answerVars>>

ZeroRule == [rel |-> 0, type |-> OFFSET, reg |-> 0, off |-> 0]
Zero == [cfa |-> ZeroRule, rules |-> [r \in Regs |-> ZeroRule]]

Init ==
  /\ section \in Sections
  /\ cfa_value = CFA_COL3
  /\ lookups = 0 /\ at = "idle" /\ asked = 0
  /\ eh_offset = 1 /\ cie = 0 /\ fde = 0
  /\ p = 1 /\ pc = 0 /\ row_pc = 0
  /\ rt = Zero /\ shadow = Zero /\ initial = Zero
  /\ answer = "none" /\ reg_table = Zero.rules

---------------------------------------------------------------------------
(* dwarf_set_frame_cfa_value(), before any lookup.                         *)
SetCfaValue ==
  /\ at = "idle" /\ lookups = 0
  /\ cfa_value' = CFA_COL
  /\ UNCHANGED <<section, lookups, at, asked, scanVars, runVars, answerVars>>

\* Faulty variant: the scan goes on where the last one ended.
LookupOn(a) ==
  /\ at = "idle" /\ lookups < MaxLookups
  /\ lookups' = lookups + 1 /\ asked' = a
  /\ fde' = 0
  /\ at' = "scan" /\ answer' = "none"
  /\ UNCHANGED <<section, cfa_value, eh_offset, cie, runVars, reg_table>>

\* dwarf_init_eh_section() and the start of dwarf_get_fde_at_pc().
Lookup(a) ==
  /\ at = "idle" /\ lookups < MaxLookups
  /\ lookups' = lookups + 1 /\ asked' = a
  /\ eh_offset' = 1 /\ fde' = 0
  /\ at' = "scan" /\ answer' = "none"
  /\ UNCHANGED <<section, cfa_value, cie, runVars, reg_table>>

\* The terminator is like the end of the section.
EntryKind == IF eh_offset > Len(section) THEN "end" ELSE section[eh_offset].kind

NoEntry ==
  /\ at = "scan" /\ EntryKind = "end"
  /\ at' = "idle" /\ answer' = "DW_DLV_NO_ENTRY"
  /\ UNCHANGED <<section, cfa_value, lookups, asked, scanVars, runVars, reg_table>>

Covers(e, a) == a >= e.loc /\ a < e.loc + e.range

SetCie ==
  /\ at = "scan" /\ EntryKind = "cie"
  /\ cie' = eh_offset /\ eh_offset' = eh_offset + 1
  /\ UNCHANGED <<section, cfa_value, lookups, at, asked, fde, runVars, answerVars>>

SetFde ==
  /\ at = "scan" /\ EntryKind = "fde"
  /\ fde' = eh_offset /\ eh_offset' = eh_offset + 1
  /\ at' = IF Covers(section[eh_offset], asked) THEN "table" ELSE "scan"
  /\ UNCHANGED <<section, cfa_value, lookups, asked, cie, runVars, answerVars>>

---------------------------------------------------------------------------
(* _dwarf_frame_get_internal_table()                                       *)

(* The start of _dwarf_frame_run_inst() at location l with table t, which  *)
(* _dwarf_frame_regtable_copy() copies to the shadow table.                *)
Run(where, l, t) ==
  /\ at' = where /\ p' = 1 /\ pc' = l /\ row_pc' = l
  /\ rt' = t /\ shadow' = t /\ initial' = t

\* Faulty variant: the rules of the last lookup left.
InternalTableKept ==
  /\ at = "table"
  /\ Run("cie", 0, rt)
  /\ UNCHANGED <<section, cfa_value, lookups, asked, scanVars, answerVars>>

InternalTable ==
  /\ at = "table"
  /\ Run("cie", 0, [cfa |-> ZeroRule,
                    rules |-> [r \in Regs |-> [ZeroRule EXCEPT !.reg = SAME]]])
  /\ UNCHANGED <<section, cfa_value, lookups, asked, scanVars, answerVars>>

Insts == section[IF at = "cie" THEN cie ELSE fde].insts
Running == at \in {"cie", "fde"} /\ p <= Len(Insts)
Inst == Insts[p]
Is(op) == Running /\ Inst.op = op

\* The end of the instructions, also by goto program_done.
CieDone ==
  /\ at = "cie" /\ ~Running
  /\ Run("fde", section[fde].loc, rt)
  /\ UNCHANGED <<section, cfa_value, lookups, asked, scanVars, answerVars>>

FdeDone ==
  /\ at = "fde" /\ ~Running
  /\ at' = "idle" /\ answer' = "DW_DLV_OK"
  /\ reg_table' = [r \in Regs |-> IF r = cfa_value THEN rt.cfa ELSE rt.rules[r]]
  /\ UNCHANGED <<section, cfa_value, lookups, asked, scanVars, runVars>>

ProgramDone == p' = Len(Insts) + 1

---------------------------------------------------------------------------
(* _dwarf_frame_run_inst()                                                 *)

Caf == section[cie].caf
Daf == section[cie].daf

Frame == UNCHANGED <<section, cfa_value, lookups, at, asked, scanVars, initial, answerVars>>

Behind(l) == at = "fde" /\ asked < l

Advance ==
  /\ Is("advance")
  /\ pc' = pc + Inst.n * Caf
  /\ IF Behind(pc') THEN ProgramDone ELSE p' = p + 1
  /\ UNCHANGED <<rt, shadow, row_pc>> /\ Frame

(* The location is set and the program left, whatever is asked about.      *)
SetLoc ==
  /\ Is("set_loc")
  /\ pc' = Inst.n
  /\ ProgramDone
  /\ UNCHANGED <<rt, shadow, row_pc>> /\ Frame

Nop ==
  /\ Is("nop")
  /\ p' = p + 1
  /\ UNCHANGED <<pc, rt, shadow, row_pc>> /\ Frame

\* What an instruction makes of the rule of its register.
NewRule(i, old) ==
  CASE i.op = "offset" ->
         [rel |-> 1, type |-> OFFSET, reg |-> cfa_value, off |-> i.n * Daf]
    [] i.op = "val_offset" ->
         [rel |-> 1, type |-> VAL_OFFSET, reg |-> cfa_value, off |-> i.n * Daf]
    [] i.op = "restore"    -> shadow.rules[i.r]
    [] i.op = "undefined"  -> [old EXCEPT !.rel = 0, !.reg = UNDEFINED]
    [] i.op = "same_value" -> [old EXCEPT !.rel = 0, !.reg = SAME]
    [] i.op = "register"   -> [old EXCEPT !.rel = 0, !.reg = i.n]
    [] i.op = "expression" ->
         [old EXCEPT !.rel = 0, !.type = EXPRESSION, !.off = i.n]
    [] i.op = "val_expression" ->
         [old EXCEPT !.rel = 0, !.type = VAL_EXPRESSION, !.off = i.n]

\* DW_CFA_same_value leaves *row_pc.
SetRule ==
  /\ Running /\ Inst.op \in RuleOps /\ Inst.r \in Regs
  /\ rt' = [rt EXCEPT !.rules[Inst.r] = NewRule(Inst, @)]
  /\ row_pc' = IF Inst.op = "same_value" THEN row_pc ELSE pc
  /\ p' = p + 1
  /\ UNCHANGED <<pc, shadow>> /\ Frame

\* CHECK_TABLE_SIZE, and an instruction that is not known.
Error ==
  /\ Running
  /\ (Inst.op \in RuleOps /\ Inst.r \notin Regs) \/ Inst.op = "unknown"
  /\ at' = "idle" /\ answer' = "DW_DLV_ERROR"
  /\ row_pc' = IF Inst.op \in {"same_value", "unknown"} THEN row_pc ELSE pc
  /\ UNCHANGED <<section, cfa_value, lookups, asked, scanVars, p, pc, rt, shadow,
                 initial, reg_table>>

\* saved_rt is the table that init_rt is, too.
RememberState ==
  /\ Is("remember_state")
  /\ shadow' = rt
  /\ p' = p + 1
  /\ UNCHANGED <<pc, rt, row_pc>> /\ Frame

RestoreState ==
  /\ Is("restore_state")
  /\ rt' = shadow
  /\ row_pc' = pc
  /\ p' = p + 1
  /\ UNCHANGED <<pc, shadow>> /\ Frame

NewCfa(i, old) ==
  CASE i.op = "def_cfa" -> [rel |-> 1, type |-> OFFSET, reg |-> i.r, off |-> i.n]
    [] i.op = "def_cfa_sf" ->
         [rel |-> 1, type |-> OFFSET, reg |-> i.r, off |-> i.n * Daf]
    [] i.op = "def_cfa_register" -> [old EXCEPT !.reg = i.r]
    [] i.op = "def_cfa_offset" ->
         [old EXCEPT !.rel = 1, !.type = OFFSET, !.off = i.n]
    [] i.op = "def_cfa_expression" ->
         [old EXCEPT !.rel = 0, !.type = EXPRESSION, !.off = i.n]

SetCfa ==
  /\ Running /\ Inst.op \in CfaOps
  /\ rt' = [rt EXCEPT !.cfa = NewCfa(Inst, @)]
  /\ row_pc' = pc
  /\ p' = p + 1
  /\ UNCHANGED <<pc, shadow>> /\ Frame

Next ==
  \/ SetCfaValue \/ \E a \in Addrs : Lookup(a)
  \/ NoEntry \/ SetCie \/ SetFde \/ InternalTable \/ CieDone \/ FdeDone
  \/ Advance \/ SetLoc \/ Nop \/ SetRule \/ Error
  \/ RememberState \/ RestoreState \/ SetCfa

Spec == Init /\ [][Next]_vars

---------------------------------------------------------------------------
(* What the instructions mean: a table for each location, with rules that  *)
(* say what they are, the initial ones kept and the remembered ones in a   *)
(* stack.  m is what those before mean, e the CIE, known the initial rules.*)

Same == [kind |-> "same", n |-> 0]
Computed == [kind |-> "computed", n |-> 0]
Cfa(kind, r, n) == [kind |-> kind, reg |-> r, n |-> n]

MeantRule(i, e, known) ==
  CASE i.op = "offset" -> [kind |-> "offset", n |-> i.n * e.daf]
    [] i.op = "undefined" -> [kind |-> "undefined", n |-> 0]
    [] i.op = "same_value" -> Same
    [] i.op = "register" -> [kind |-> "register", n |-> i.n]
    [] i.op = "restore" -> known[i.r]
    [] OTHER -> Computed

MeantRules(m, i, e, known) ==
  CASE i.op \in RuleOps /\ i.r \in Regs ->
         [r \in Regs |-> IF r = i.r THEN MeantRule(i, e, known) ELSE m.rules[r]]
    [] i.op = "restore_state" -> Head(m.stack).rules
    [] OTHER -> m.rules

MeantCfa(m, i, e) ==
  CASE i.op = "def_cfa" -> Cfa("offset", i.r, i.n)
    [] i.op = "def_cfa_sf" -> Cfa("offset", i.r, i.n * e.daf)
    [] i.op = "def_cfa_register" -> Cfa(m.cfa.kind, i.r, m.cfa.n)
    [] i.op = "def_cfa_offset" -> Cfa(m.cfa.kind, m.cfa.reg, i.n)
    [] i.op = "def_cfa_expression" -> Cfa("computed", m.cfa.reg, m.cfa.n)
    [] i.op = "restore_state" -> Head(m.stack).cfa
    [] OTHER -> m.cfa

MeantLoc(m, i, e) ==
  CASE i.op = "advance" -> m.loc + i.n * e.caf
    [] i.op = "set_loc" -> i.n
    [] OTHER -> m.loc

MeantStack(m, i) ==
  CASE i.op = "remember_state" -> <<[cfa |-> m.cfa, rules |-> m.rules]>> \o m.stack
    [] i.op = "restore_state" -> Tail(m.stack)
    [] OTHER -> m.stack

Wrong(i) == i.op = "unknown" \/ (i.op \in RuleOps /\ i.r \notin Regs)

Step(m, i, e, known) ==
  [loc |-> MeantLoc(m, i, e), cfa |-> MeantCfa(m, i, e),
   rules |-> MeantRules(m, i, e, known), stack |-> MeantStack(m, i),
   error |-> Wrong(i)]

\* Those after one that is wrong or leaves the locations locs mean nothing.
Means(is, e, known, start, locs) ==
  LET M[n \in 0 .. Len(is)] ==
        IF n = 0 THEN start
        ELSE IF M[n - 1].error \/ M[n - 1].loc \notin locs THEN M[n - 1]
        ELSE Step(M[n - 1], is[n], e, known)
  IN  M

AllSame == [r \in Regs |-> Same]
Blank == [loc |-> 0, cfa |-> Cfa("computed", 0, 0), rules |-> AllSame, stack |-> << >>,
          error |-> FALSE]

\* After each instruction of a CIE, and of a description as far as address a.
CieMeans(e) == Means(e.insts, e, AllSame, Blank, Nat)

FdeMeans(e, f, a) ==
  LET first == CieMeans(e)[Len(e.insts)]
  IN  Means(f.insts, e, first.rules,
            [loc |-> f.loc, cfa |-> first.cfa, rules |-> first.rules, stack |-> << >>,
             error |-> first.error],
            0 .. a)

Meaning(e, f, a) == FdeMeans(e, f, a)[Len(f.insts)]

\* A rule of a table as it reads.
Says(rule, meant) ==
  CASE meant.kind = "offset"    -> rule.rel = 1 /\ rule.reg = cfa_value /\ rule.off = meant.n
    [] meant.kind = "undefined" -> rule.rel = 0 /\ rule.reg = UNDEFINED
    [] meant.kind = "same"      -> rule.rel = 0 /\ rule.reg = SAME
    [] meant.kind = "register"  -> rule.rel = 0 /\ rule.reg = meant.n
    [] OTHER -> TRUE   \* no entry of the caller's table can say it

SaysCfa(rule, meant) ==
  meant.kind = "offset" => rule.rel = 1 /\ rule.reg = meant.reg /\ rule.off = meant.n

(* Instructions that do not meet the two flaws of the code: DW_CFA_set_loc *)
(* leaves, and remember_state writes over the initial rules and over what  *)
(* was remembered before.                                                  *)
Sound(is) ==
  \A n \in 1 .. Len(is) :
    /\ is[n].op # "set_loc"
    /\ is[n].op = "remember_state" => Depth(is)[n - 1] = 0
    /\ is[n].op = "restore" => \A j \in 1 .. n - 1 : is[j].op # "remember_state"

---------------------------------------------------------------------------
TypeOK ==
  /\ at \in {"idle", "scan", "table", "cie", "fde"}
  /\ eh_offset \in 1 .. Len(section) + 1
  /\ cie \in 0 .. Len(section) /\ fde \in 0 .. Len(section)
  /\ at \in {"cie", "fde"} => p \in 1 .. Len(Insts) + 1
  /\ DOMAIN rt.rules = Regs /\ DOMAIN shadow.rules = Regs
  /\ answer \in {"none", "DW_DLV_OK", "DW_DLV_ERROR", "DW_DLV_NO_ENTRY"}

Reachable == {k \in DOMAIN section : \A j \in 1 .. k : section[j].kind # "end"}
Described(a) == {k \in Reachable : section[k].kind = "fde" /\ Covers(section[k], a)}

(* The description found is the one that covers the address, with the CIE  *)
(* it belongs to, and one is found if there is one before the terminator,  *)
(* however many lookups there were.                                        *)
FdeFound ==
  /\ at \in {"table", "cie", "fde"} => fde \in Described(asked) /\ cie = section[fde].cie
  /\ answer = "DW_DLV_NO_ENTRY" => Described(asked) = {}

(* The rules a lookup answers are those of the location asked about,       *)
(* though the tables are static and used by every lookup before; they hold *)
(* from row_pc on.  The same instructions make it fail that are in error.  *)
TableRight ==
  LET f == section[fde]
      e == section[f.cie]
      m == Meaning(e, f, asked)
      w == Meaning(e, f, row_pc)
  IN  answer \in {"DW_DLV_OK", "DW_DLV_ERROR"} /\ Sound(e.insts) /\ Sound(f.insts) =>
        IF m.error THEN answer = "DW_DLV_ERROR"
        ELSE /\ answer = "DW_DLV_OK"
             /\ \A r \in Regs : r # cfa_value => Says(reg_table[r], m.rules[r])
             /\ cfa_value \in Regs => SaysCfa(reg_table[cfa_value], m.cfa)
             /\ row_pc <= asked
             /\ (\A n \in 1 .. Len(f.insts) : f.insts[n].op # "same_value") =>
                  w.rules = m.rules /\ w.cfa = m.cfa

(* kern/libdwarf_frame.c:168: "Save a copy of the table as initial state." *)
(* It stays the initial state while the instructions run.                  *)
InitialRulesKept == at \in {"cie", "fde"} => shadow = initial
=============================================================================
