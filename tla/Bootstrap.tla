----------------------------- MODULE Bootstrap -----------------------------
(***************************************************************************)
(* The assembly that runs around bootmain(): boot/boot.S before it, which  *)
(* opens address line 20 and takes the BIOS's memory map down in the       *)
(* multiboot format, and kern/bootstrap.S after it, which checks the       *)
(* processor, builds page tables and turns on long mode.                   *)
(*                                                                         *)
(* The memory map is in words of four bytes, so a map entry of 20 bytes    *)
(* with its size before it is six.  A page is one of two megabytes and is  *)
(* named by its number.                                                    *)
(***************************************************************************)
EXTENDS Integers, Sequences, SequencesExt

CONSTANTS
  Machines,   (* processor and BIOS, see MachineOK                         *)
  TABLE,      (* entries of a page table, 512                              *)
  NPAGES,     (* pages mapped, 128                                         *)
  KERNPDE,    (* entry of pde2 for KERNBASE, 32                            *)
  MapWords    (* bound: words of memory for the map                        *)

(* A BIOS has the service or not (works), knows the "SMAP" magic, has some *)
(* entries, and tells the end by ebx = 0 along with the last entry or by   *)
(* the carry flag afterwards.  It stores 20 bytes of an entry.  A          *)
(* processor may lack cpuid, its leaf 1, its extended leaf, or long mode.  *)
MachineOK(m) ==
  /\ m.bios.entries \in Nat \ {0} /\ m.bios.end \in {"zero", "carry"}
  /\ 6 * (m.bios.entries + 1) <= MapWords
  /\ m.cpu.lm => m.cpu.ext /\ m.cpu.leaf1 /\ m.cpu.cpuid

ASSUME BootstrapAssumption ==
  /\ TABLE \in Nat /\ TABLE > 1 /\ NPAGES \in Nat /\ KERNPDE \in Nat /\ KERNPDE + NPAGES <= TABLE
  /\ MapWords \in Nat
  /\ \A m \in Machines : MachineOK(m)

VARIABLES
  machine,
  stage,              (* boot.S: "a20cmd", "a20data", "e820", "next_entry",*)
                      (* "map", "failed"; "bootmain"; bootstrap.S: "cpu",  *)
                      (* "clear", "link", "pages", "paging"; "entry",      *)
                      (* "kernel"; or "spin" and "reset"; see Boot for     *)
                      (* "wrapped"                                         *)
  port, port_cmd, a20,    (* external: the keyboard controller's input     *)
                          (* buffer, whether it has the command d1, and    *)
                          (* the line                                      *)
  map, edi, ebp, given,   (* e820_map, its place in it, the length so far; *)
                          (* entries the BIOS has given                    *)
  info,               (* what is stored at multiboot_info                  *)
  tables, i           (* the five tables; pages mapped so far              *)

a20Vars == <<port, port_cmd, a20>>
mapVars == <<map, edi, ebp, given, info>>
tableVars == <<tables, i>>
bootVars == <<machine, stage, a20Vars, mapVars, tableVars>>

UNKNOWN == << >>          (* what memory holds before it is written        *)
Size(words) == <<words>>  (* the size of a map entry                       *)
ABSENT == <<"absent">>
To(t) == <<"table", t>>
Page(p) == <<"page", p>>
Tables == {"pml4", "pdpt1", "pdpt2", "pde1", "pde2"}
Index == 0 .. TABLE - 1

BootstrapInit ==
  /\ machine \in Machines
  /\ stage = "a20cmd"
  /\ port \in {"none", "other"} /\ port_cmd = FALSE /\ a20 = FALSE
  /\ map = [w \in 0 .. MapWords - 1 |-> UNKNOWN] /\ edi = 1 /\ ebp = 0 /\ given = 0
  /\ info = [flag |-> FALSE, mmap_len |-> 0]
  /\ tables = [t \in Tables |-> [x \in Index |-> UNKNOWN]] /\ i = 0

---------------------------------------------------------------------------
(* Line 20: the keyboard controller takes a byte when it gets to it, and   *)
(* one written before is lost.                                             *)
ControllerTakes ==
  /\ port # "none"
  /\ port' = "none" /\ port_cmd' = (port = "d1")
  /\ a20' = (a20 \/ (port = "df" /\ port_cmd))
  /\ UNCHANGED <<machine, stage, mapVars, tableVars>>

SetA20Command ==
  /\ stage = "a20cmd" /\ port = "none"
  /\ port' = "d1" /\ stage' = "a20data"
  /\ UNCHANGED <<machine, port_cmd, a20, mapVars, tableVars>>

\* Faulty variant: the second wait left out.
SetA20DataAtOnce ==
  /\ stage = "a20data"
  /\ port' = "df" /\ stage' = "e820"
  /\ UNCHANGED <<machine, port_cmd, a20, mapVars, tableVars>>

SetA20Data ==
  /\ stage = "a20data" /\ port = "none"
  /\ port' = "df" /\ stage' = "e820"
  /\ UNCHANGED <<machine, port_cmd, a20, mapVars, tableVars>>

---------------------------------------------------------------------------
(* The memory map.  int 15h stores the next entry at es:di.  Nothing waits *)
(* for the controller any more: from here on it takes the byte df at any   *)
(* time.                                                                   *)
bios == machine.bios
Carry == ~bios.works \/ given = bios.entries
Ebx0 == bios.end = "zero" /\ given' = bios.entries

\* int 15h with edi = at, when there is an entry left.
Stored(m, at) == [w \in DOMAIN m |-> IF w \in at .. at + 4 THEN <<given + 1, w - at>> ELSE m[w]]

do_e820 ==
  /\ stage = "e820"
  /\ given' = IF Carry THEN given ELSE given + 1
  /\ map' = IF Carry THEN map ELSE Stored(map, edi)
  /\ IF Carry \/ ~bios.magic \/ Ebx0 THEN stage' = "failed" /\ UNCHANGED ebp
                                     ELSE stage' = "next_entry" /\ ebp' = 6
  /\ UNCHANGED <<machine, a20Vars, edi, info, tableVars>>

\* Faulty variant: the length counted before the carry flag is looked at.
NextEntryCounted ==
  /\ stage = "next_entry"
  /\ edi' = edi + 6 /\ ebp' = ebp + 6
  /\ given' = IF Carry THEN given ELSE given + 1
  /\ LET sized == [map EXCEPT ![edi - 1] = Size(5)]
     IN  map' = IF Carry THEN sized ELSE Stored(sized, edi')
  /\ stage' = IF Carry \/ Ebx0 THEN "map" ELSE stage
  /\ UNCHANGED <<machine, a20Vars, info, tableVars>>

\* The size of the entry before is stored, and the next one asked for.
next_entry ==
  /\ stage = "next_entry"
  /\ edi' = edi + 6
  /\ given' = IF Carry THEN given ELSE given + 1
  /\ ebp' = IF Carry THEN ebp ELSE ebp + 6
  /\ LET sized == [map EXCEPT ![edi - 1] = Size(5)]
     IN  map' = IF Carry THEN sized ELSE Stored(sized, edi')
  /\ stage' = IF Carry \/ Ebx0 THEN "map" ELSE stage
  /\ UNCHANGED <<machine, a20Vars, info, tableVars>>

\* "done": the last size, or with the carry flag the 24 asked for, behind all.
MapDone ==
  /\ stage = "map"
  /\ map' = [map EXCEPT ![edi - 1] = Size(IF edi > ebp THEN 6 ELSE 5)]
  /\ info' = [flag |-> TRUE, mmap_len |-> ebp]
  /\ stage' = "bootmain"
  /\ UNCHANGED <<machine, a20Vars, edi, ebp, given, tableVars>>

\* Without a map nothing is stored; then protected mode, as behind "done".
failed ==
  /\ stage = "failed"
  /\ stage' = "bootmain"
  /\ UNCHANGED <<machine, a20Vars, mapVars, tableVars>>

---------------------------------------------------------------------------
(* _head64, entered from bootmain().  verify_cpu compares the flags with   *)
(* ebx, the address of multiboot_info, which they never equal: a processor *)
(* without cpuid gets to the instruction and has no handler for the fault. *)
(* One without the extended leaf answers something else for it.            *)
verify_cpu ==
  /\ stage = "cpu"
  /\ LET cpu == machine.cpu
     IN  \/ ~cpu.cpuid /\ stage' = "reset"
         \/ cpu.cpuid /\ ~cpu.leaf1 /\ stage' = "spin"
         \/ cpu.leaf1 /\ cpu.ext /\ stage' = IF cpu.lm THEN "clear" ELSE "spin"
         \/ cpu.leaf1 /\ ~cpu.ext /\ stage' \in {"clear", "spin"}
  /\ UNCHANGED <<machine, a20Vars, mapVars, tableVars>>

ClearTables ==
  /\ stage = "clear"
  /\ tables' = [t \in Tables |-> [x \in Index |-> ABSENT]]
  /\ stage' = "link"
  /\ UNCHANGED <<machine, a20Vars, mapVars, i>>

LinkTables ==
  /\ stage = "link"
  /\ tables' = [tables EXCEPT !["pml4"] = [@ EXCEPT ![0] = To("pdpt1"), ![1] = To("pdpt2")],
                              !["pdpt1"] = [@ EXCEPT ![0] = To("pde1")],
                              !["pdpt2"] = [@ EXCEPT ![0] = To("pde2")]]
  /\ stage' = "pages"
  /\ UNCHANGED <<machine, a20Vars, mapVars, i>>

\* Faulty variant: the tables filled one entry further on.
MapPageNext ==
  /\ stage = "pages" /\ i < NPAGES
  /\ tables' = [tables EXCEPT !["pde1"] = [@ EXCEPT ![i] = Page(i)],
                              !["pde2"] = [@ EXCEPT ![KERNPDE + i] = Page(i + 1)]]
  /\ i' = i + 1
  /\ UNCHANGED <<machine, stage, a20Vars, mapVars>>

MapPage ==
  /\ stage = "pages" /\ i < NPAGES
  /\ tables' = [tables EXCEPT !["pde1"] = [@ EXCEPT ![i] = Page(i)],
                              !["pde2"] = [@ EXCEPT ![KERNPDE + i] = Page(i)]]
  /\ i' = i + 1
  /\ UNCHANGED <<machine, stage, a20Vars, mapVars>>

PagesMapped ==
  /\ stage = "pages" /\ i = NPAGES
  /\ stage' = "paging"
  /\ UNCHANGED <<machine, a20Vars, mapVars, tableVars>>

\* cr3, EFER and cr0; a processor that has no long mode faults at EFER.
EnablePaging ==
  /\ stage = "paging"
  /\ stage' = IF machine.cpu.lm THEN "entry" ELSE "reset"
  /\ UNCHANGED <<machine, a20Vars, mapVars, tableVars>>

BootSector == SetA20Command \/ SetA20Data \/ do_e820 \/ next_entry \/ MapDone \/ failed
Head64 == verify_cpu \/ ClearTables \/ LinkTables \/ MapPage \/ PagesMapped \/ EnablePaging

---------------------------------------------------------------------------
(* The translation of a page, by the processor.                            *)
Walk(v) ==
  LET step(e, x) == IF e # ABSENT /\ e[1] = "table" THEN tables[e[2]][x] ELSE ABSENT
      pdpt == tables["pml4"][v \div (TABLE * TABLE)]
      pde == step(pdpt, (v \div TABLE) % TABLE)
  IN  step(pde, v % TABLE)

\* KERNBASE, 8004000000.
KernPage == TABLE * TABLE + KERNPDE

\* What a reader of the map in the multiboot format finds.
MapEntries ==
  LET from[w \in 0 .. MapWords] ==
        IF w >= info.mmap_len THEN << >>
        ELSE IF Len(map[w]) # 1 THEN <<UNKNOWN>>
        ELSE <<[k \in 1 .. map[w][1] |-> map[w + k]]>> \o from[w + map[w][1] + 1]
  IN  from[0]

(* The kernel is given the BIOS's map entry by entry, whole and in order,  *)
(* however the BIOS says that it was the last; there is none only if the   *)
(* BIOS has none or one with a single entry.                               *)
MapWhole ==
  stage \in {"bootmain", "cpu", "entry", "kernel"} =>
    IF info.flag
    THEN MapEntries = [e \in 1 .. bios.entries |-> [k \in 1 .. 5 |-> <<e, k - 1>>]]
    ELSE ~bios.works \/ ~bios.magic \/ bios.entries = 1

(* Behind its two waits the boot sector has done what opens line 20: the   *)
(* controller has taken the command and the byte for it, or the command    *)
(* and has the byte to take; neither took the place of the other, nor of   *)
(* what the controller had not taken before.  When it takes the second one *)
(* nothing says, and until it does the line is shut.                       *)
A20Commanded ==
  stage \notin {"a20cmd", "a20data"} => a20 \/ (port = "df" /\ port_cmd)
=============================================================================
