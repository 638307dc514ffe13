------------------------------- MODULE Loader -------------------------------
(***************************************************************************)
(* How the kernel gets into memory: bootmain() of boot/main.c reads the    *)
(* ELF header and the segments from the disk, i386_init() of kern/init.c   *)
(* clears the BSS, and read_section_headers() of kern/elf_rw.c reads the   *)
(* section headers, their names and the debug sections to the memory after *)
(* the kernel.  Both files have a readseg() of their own: the first rounds *)
(* the address down, the second insists on a rounded one and reads one     *)
(* more sector when the data may need it.                                  *)
(*                                                                         *)
(* A byte of the kernel's file is named by its offset in the file, so that *)
(* a byte of memory says where it came from.  The disk is slow and runs    *)
(* beside the kernel; a sector asked for is there some time later.         *)
(***************************************************************************)
EXTENDS Integers, Sequences

CONSTANTS
  SECTSIZE,    (* 512 in the code                                          *)
  HDRSECTS,    (* sectors read for the ELF header, 8                       *)
  ENTSIZE,     (* bytes of a section header, 64                            *)
  Images,      (* kernel files, see ImageOK                                *)
  MemTop       (* bound: bytes of memory; nothing is read behind them      *)

(* An image: whether its magic is right; its segments, each with its       *)
(* address, file offset, size in the file and in memory; the offset of the *)
(* section headers; the sections, the names' one being number strndx.  A   *)
(* section is a "debug" one (.debug_info, _abbrev, _line or _str), which   *)
(* is read, the "frame" one (.eh_frame), which is part of a segment, or    *)
(* another.  Addresses and offsets of a segment agree modulo SECTSIZE and  *)
(* no two segments share a sector of memory: they begin on pages of their  *)
(* own, in increasing order.  There are at most 20 sections, all the code  *)
(* has room for.                                                           *)
Down(x) == x - (x % SECTSIZE)
OFFSET_CORRECT(x) == x % SECTSIZE
Up(x) == Down(x + SECTSIZE - 1)

SegmentOK(g) ==
  /\ g.pa % SECTSIZE = g.off % SECTSIZE
  /\ g.pa >= HDRSECTS * SECTSIZE
  /\ 0 < g.filesz /\ g.filesz <= g.memsz

SectionOK(g) ==
  /\ g.kind \in {"debug", "frame", "other"} /\ g.off \in Nat /\ g.size \in Nat
  /\ g.kind = "frame" => g.addr \in Nat

SegEnd(g) == Up(g.pa + g.memsz)

ImageOK(im) ==
  /\ im.segs \in Seq([pa : Nat, off : Nat, filesz : Nat, memsz : Nat]) /\ im.segs # << >>
  /\ \A s \in DOMAIN im.segs : SegmentOK(im.segs[s]) /\ SegEnd(im.segs[s]) <= MemTop
  /\ \A r, s \in DOMAIN im.segs : r < s => SegEnd(im.segs[r]) <= Down(im.segs[s].pa)
  /\ im.magic \in BOOLEAN /\ im.shoff \in Nat
  /\ Len(im.sects) \in 0 .. 20 /\ DOMAIN im.sects = 1 .. Len(im.sects)
  /\ \A s \in DOMAIN im.sects : SectionOK(im.sects[s])
  /\ im.magic => im.strndx \in DOMAIN im.sects

ASSUME LoaderAssumption ==
  /\ SECTSIZE \in Nat \ {0} /\ HDRSECTS \in Nat \ {0} /\ ENTSIZE \in Nat \ {0}
  /\ MemTop \in Nat
  /\ \A im \in Images : ImageOK(im)

VARIABLES
  image,      (* external: the file on the disk, from its second sector on *)
  disk,       (* external: "idle" or "busy"                                *)
  sector,     (* the sector last asked for                                 *)
  ready,      (* external: the sector in the disk's buffer                 *)
  mem,        (* the memory: an offset in the file, ZERO or JUNK           *)
  phase,      (* bootmain(): "header", "segments" or, with a bad magic,    *)
              (* "bad"; read_section_headers(): "tables", "names",         *)
              (* "sections", "done"                                        *)
  job,        (* the readseg() at work, see Read                           *)
  waiting,    (* it is in readsect(), waiting for a sector                 *)
  n,          (* segments or sections dealt with, the one at work included *)
  kvoffset,   (* of read_section_headers(): bytes read so far              *)
  names,      (* where it has read the section names to                    *)
  ds_data     (* section_info: where the contents of a section are         *)

diskVars == <<disk, sector, ready>>
vars == <<image, diskVars, mem, phase, job, waiting, n, kvoffset, names, ds_data>>

ZERO == -1
JUNK == -2
NULL == -1
Memory == 0 .. MemTop - 1

LastSeg == image.segs[Len(image.segs)]
edata == LastSeg.pa + LastSeg.filesz
end == LastSeg.pa + LastSeg.memsz
kvbase == Up(end)

---------------------------------------------------------------------------
(* A readseg(): sectors from number sect on are read to pa, pa + SECTSIZE  *)
(* and so on below end_pa, and tail more.  The kernel's file begins in     *)
(* sector 1.                                                               *)
Read(pa, end_pa, off, tail) ==
  [pa |-> pa, end_pa |-> end_pa, sect |-> off \div SECTSIZE + 1, tail |-> tail]

\* Faulty variant: the end computed from the rounded address.
BootRounded(pa, count, off) == Read(Down(pa), Down(pa) + count, off, 0)

BootReadseg(pa, count, off) == Read(Down(pa), pa + count, off, 0)

\* Faulty variant: never a sector more.
KernExact(pa, count, off) == Read(pa, pa + count, off, 0)

KernReadseg(pa, count, off) ==
  Read(pa, pa + count, off, IF OFFSET_CORRECT(off) + count > SECTSIZE THEN 1 ELSE 0)

Init ==
  /\ image \in Images
  /\ disk = "idle" /\ sector = 0 /\ ready = 0
  /\ mem = [a \in Memory |-> JUNK]
  /\ phase = "header" /\ job = BootReadseg(0, SECTSIZE * HDRSECTS, 0)
  /\ waiting = FALSE /\ n = 0 /\ kvoffset = 0 /\ names = NULL
  /\ ds_data = [s \in DOMAIN image.sects |-> NULL]

Reading == job.pa < job.end_pa \/ job.tail > 0

\* readsect() up to the command: the disk must be idle.
AskSector ==
  /\ ~waiting /\ Reading
  /\ disk = "idle"
  /\ sector' = job.sect /\ disk' = "busy" /\ waiting' = TRUE
  /\ UNCHANGED <<image, ready, mem, phase, job, n, kvoffset, names, ds_data>>

DiskDone ==
  /\ disk = "busy"
  /\ disk' = "idle" /\ ready' = sector
  /\ UNCHANGED <<image, sector, mem, phase, job, waiting, n, kvoffset, names, ds_data>>

\* The bound on what is read, see MemTop.
InMemory == job.pa + SECTSIZE <= MemTop

WithSector(a) ==
  [x \in Memory |-> IF x \in a .. a + SECTSIZE - 1
                    THEN (ready - 1) * SECTSIZE + x - a ELSE mem[x]]

\* What readseg() does after a sector; the loader does not count.
Counted(m) == IF phase \in {"header", "segments"} THEN kvoffset ELSE kvoffset + m

\* Faulty variants: the last sector not counted; only the bytes asked for
\* counted; the wait the wrong way around.
TakeUncounted ==
  /\ waiting /\ disk = "idle" /\ InMemory
  /\ mem' = WithSector(job.pa)
  /\ job' = [job EXCEPT !.pa = @ + SECTSIZE, !.sect = @ + 1,
                        !.tail = IF job.pa < job.end_pa THEN @ ELSE 0]
  /\ kvoffset' = IF job.pa < job.end_pa THEN Counted(SECTSIZE) ELSE kvoffset
  /\ waiting' = FALSE
  /\ UNCHANGED <<image, diskVars, phase, n, names, ds_data>>

TakeBytes ==
  /\ waiting /\ disk = "idle" /\ InMemory
  /\ mem' = WithSector(job.pa)
  /\ job' = [job EXCEPT !.pa = @ + SECTSIZE, !.sect = @ + 1,
                        !.tail = IF job.pa < job.end_pa THEN @ ELSE 0]
  /\ kvoffset' = Counted(IF job.end_pa - job.pa \in 1 .. SECTSIZE
                         THEN job.end_pa - job.pa ELSE SECTSIZE)
  /\ waiting' = FALSE
  /\ UNCHANGED <<image, diskVars, phase, n, names, ds_data>>

TakeBusy ==
  /\ waiting /\ disk = "busy" /\ InMemory
  /\ mem' = WithSector(job.pa)
  /\ job' = [job EXCEPT !.pa = @ + SECTSIZE, !.sect = @ + 1,
                        !.tail = IF job.pa < job.end_pa THEN @ ELSE 0]
  /\ kvoffset' = Counted(SECTSIZE)
  /\ waiting' = FALSE
  /\ UNCHANGED <<image, diskVars, phase, n, names, ds_data>>

\* The rest of readsect() and of its turn in readseg().
TakeSector ==
  /\ waiting /\ disk = "idle" /\ InMemory
  /\ mem' = WithSector(job.pa)
  /\ job' = [job EXCEPT !.pa = @ + SECTSIZE, !.sect = @ + 1,
                        !.tail = IF job.pa < job.end_pa THEN @ ELSE 0]
  /\ kvoffset' = Counted(SECTSIZE)
  /\ waiting' = FALSE
  /\ UNCHANGED <<image, diskVars, phase, n, names, ds_data>>

ReadsegReturns == ~waiting /\ ~Reading /\ UNCHANGED <<image, diskVars, waiting>>

---------------------------------------------------------------------------
HeaderRead ==
  /\ phase = "header" /\ ReadsegReturns
  /\ phase' = IF image.magic THEN "segments" ELSE "bad"
  /\ UNCHANGED <<mem, job, n, kvoffset, names, ds_data>>

NextSegment ==
  /\ phase = "segments" /\ ReadsegReturns
  /\ n < Len(image.segs) /\ n' = n + 1
  /\ LET s == image.segs[n'] IN job' = BootReadseg(s.pa, s.memsz, s.off)
  /\ UNCHANGED <<mem, phase, kvoffset, names, ds_data>>

(* The kernel is entered: i386_init() clears the BSS and later calls       *)
(* read_section_headers(), which reads the section headers first.          *)
EnterKernel ==
  /\ phase = "segments" /\ ReadsegReturns
  /\ n = Len(image.segs)
  /\ mem' = [x \in Memory |-> IF x \in edata .. end - 1 THEN ZERO ELSE mem[x]]
  /\ job' = KernReadseg(kvbase, Len(image.sects) * ENTSIZE, image.shoff)
  /\ phase' = "tables" /\ n' = 0
  /\ UNCHANGED <<kvoffset, names, ds_data>>

ReadNames ==
  /\ phase = "tables" /\ ReadsegReturns
  /\ LET s == image.sects[image.strndx]
     IN  /\ job' = KernReadseg(kvbase + kvoffset, s.size, s.off)
         /\ names' = kvbase + kvoffset + OFFSET_CORRECT(s.off)
  /\ phase' = "names"
  /\ UNCHANGED <<mem, n, kvoffset, ds_data>>

NamesRead ==
  /\ phase = "names" /\ ReadsegReturns
  /\ phase' = "sections"
  /\ UNCHANGED <<mem, job, n, kvoffset, names, ds_data>>

NextSection ==
  /\ phase = "sections" /\ ReadsegReturns
  /\ n < Len(image.sects) /\ n' = n + 1
  /\ LET s == image.sects[n']
     IN  \/ /\ s.kind = "debug"
            /\ job' = KernReadseg(kvbase + kvoffset, s.size, s.off)
            /\ ds_data' = [ds_data EXCEPT ![n'] =
                             kvbase + kvoffset + OFFSET_CORRECT(s.off)]
         \/ /\ s.kind = "frame"
            /\ ds_data' = [ds_data EXCEPT ![n'] = s.addr]
            /\ UNCHANGED job
         \/ s.kind = "other" /\ UNCHANGED <<job, ds_data>>
  /\ UNCHANGED <<mem, phase, kvoffset, names>>

SectionsRead ==
  /\ phase = "sections" /\ ReadsegReturns
  /\ n = Len(image.sects)
  /\ phase' = "done"
  /\ UNCHANGED <<mem, job, n, kvoffset, names, ds_data>>

Kernel ==
  \/ AskSector \/ TakeSector
  \/ HeaderRead \/ NextSegment \/ EnterKernel
  \/ ReadNames \/ NamesRead \/ NextSection \/ SectionsRead

Next == Kernel \/ DiskDone

(* The processor runs on, and the disk answers.                            *)
Spec == Init /\ [][Next]_vars /\ WF_vars(Kernel) /\ WF_vars(DiskDone)

---------------------------------------------------------------------------
InKernel == phase \in {"tables", "names", "sections", "done"}

(* Types, and the assertions of kern/elf_rw.c: addresses and counts are    *)
(* whole sectors.                                                          *)
TypeOK ==
  /\ image \in Images
  /\ disk \in {"idle", "busy"} /\ sector \in Nat /\ ready \in Nat
  /\ DOMAIN mem = Memory
  /\ phase \in {"header", "segments", "bad"} \/ InKernel
  /\ waiting \in BOOLEAN /\ job.tail \in {0, 1}
  /\ job.pa % SECTSIZE = 0 /\ job.sect \in Nat \ {0}
  /\ n \in 0 .. Len(image.segs) + Len(image.sects)
  /\ kvoffset % SECTSIZE = 0 /\ kvbase + kvoffset <= MemTop
  /\ names \in Nat \cup {NULL}
  /\ \A s \in DOMAIN ds_data : ds_data[s] \in Nat \cup {NULL}

\* The bytes of the file from off on are at address a.
HoldsAt(a, off, count) == \A k \in 0 .. count - 1 : mem[a + k] = off + k

(* From its first instruction to its monitor the kernel has all its bytes  *)
(* and a clear BSS: no segment is damaged by what is read around the next, *)
(* nor by the debug sections, which start behind the rounded-up end.       *)
KernelIntact ==
  InKernel =>
    /\ \A s \in DOMAIN image.segs :
         HoldsAt(image.segs[s].pa, image.segs[s].off, image.segs[s].filesz)
    /\ \A a \in edata .. end - 1 : mem[a] = ZERO

(* The section headers and the names are complete before they are used and *)
(* stay so while the sections are read behind them.                        *)
TablesIntact ==
  /\ phase \in {"names", "sections"} =>
       HoldsAt(kvbase + OFFSET_CORRECT(image.shoff), image.shoff,
               Len(image.sects) * ENTSIZE)
  /\ phase = "sections" =>
       HoldsAt(names, image.sects[image.strndx].off, image.sects[image.strndx].size)

(* The debugger code finds every debug section whole where section_info    *)
(* says, wherever the sections lie in the file: none is cut off at its     *)
(* last sector or run over by the next.                                    *)
SectionsReadable ==
  phase = "done" =>
    \A s \in DOMAIN image.sects :
      image.sects[s].kind = "debug" =>
        HoldsAt(ds_data[s], image.sects[s].off, image.sects[s].size)
===========================================================================
