-------------------------------- MODULE Boot --------------------------------
(***************************************************************************)
(* From power-on to the monitor: the boot sector, bootmain(), the long     *)
(* mode bootstrap, and the kernel up to its debug sections.  Bootstrap has *)
(* the assembly, Loader the C code that runs between and after it.         *)
(***************************************************************************)
EXTENDS Loader, Bootstrap

CONSTANTS
  PAGE,       (* bytes of a page, 2^21                                     *)
  Boots       (* the pairs of image and machine to be tried                *)

(* All that is loaded lies in the pages that are mapped.                   *)
ASSUME BootAssumption ==
  /\ PAGE \in Nat \ {0} /\ MemTop <= NPAGES * PAGE
  /\ Boots \subseteq Images \X Machines

BootInit == Init /\ BootstrapInit /\ <<image, machine>> \in Boots

\* bootmain() calls the entry point of the ELF header, _head64.
CallEntry ==
  /\ stage = "bootmain" /\ phase = "segments" /\ ~waiting /\ ~Reading /\ n = Len(image.segs)
  /\ stage' = "cpu"
  /\ UNCHANGED <<vars, machine, a20Vars, mapVars, tableVars>>

(* bootmain() with line 20 shut.  The ELF header is read to 10000, but the *)
(* first segment belongs at 100000, kern/kernel.ld, and a sector of it     *)
(* would be stored at 0 and on, in what the BIOS and the boot sector keep  *)
(* there.  Nothing is said of what happens then: the model ends.           *)
LineShut == stage = "bootmain" /\ phase = "segments" /\ ~a20

StoreWraps ==
  /\ LineShut /\ waiting /\ disk = "idle"
  /\ stage' = "wrapped"
  /\ UNCHANGED <<vars, machine, a20Vars, mapVars, tableVars>>

\* kern/entry.S takes the kernel to its linked address and i386_init().
RunLoader ==
  /\ Kernel
  /\ LineShut => mem' = mem
  /\ \/ stage = "bootmain" /\ ~InKernel' /\ stage' = stage
     \/ stage = "entry" /\ InKernel' /\ stage' = "kernel"
     \/ stage = "kernel" /\ stage' = stage
  /\ UNCHANGED <<machine, a20Vars, mapVars, tableVars>>

Processor ==
  CallEntry \/ StoreWraps \/ RunLoader \/ ((BootSector \/ Head64) /\ UNCHANGED vars)

BootNext ==
  \/ Processor
  \/ ControllerTakes /\ UNCHANGED vars
  \/ DiskDone /\ UNCHANGED bootVars

allVars == <<vars, bootVars>>

(* The processor runs on; the disk and the keyboard controller answer.     *)
BootSpec ==
  /\ BootInit /\ [][BootNext]_allVars
  /\ WF_allVars(Processor)
  /\ WF_allVars(DiskDone /\ UNCHANGED bootVars)
  /\ WF_allVars(ControllerTakes /\ UNCHANGED vars)

---------------------------------------------------------------------------
(* In long mode every byte that has been loaded, the ELF header and all    *)
(* that the kernel reads behind its end are where they were, at their      *)
(* physical addresses, from which the code still runs, and from KERNBASE   *)
(* on, where it is linked.                                                 *)
KernelMapped ==
  stage \in {"entry", "kernel"} =>
    \A a \in 0 .. kvbase + kvoffset - 1 :
      /\ Walk(a \div PAGE) = Page(a \div PAGE)
      /\ Walk(KernPage + a \div PAGE) = Page(a \div PAGE)

(* On a processor with long mode loading ends, in the kernel unless the    *)
(* file is bad; on another the kernel is never entered.  This is said of   *)
(* loads that found line 20 open.                                          *)
LoadTerminates ==
  <>(\/ stage = "wrapped"
     \/ IF machine.cpu.lm THEN phase \in {"done", "bad"}
        ELSE phase = "bad" \/ (stage \in {"spin", "reset"} /\ ~InKernel))
=============================================================================
