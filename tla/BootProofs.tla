----------------------------- MODULE BootProofs -----------------------------
(***************************************************************************)
(* The kernel gets into memory whole and stays so, for every sector size,  *)
(* every kernel file whose segments lie in sectors of their own, and every *)
(* machine: the loader, the reader of the debug sections, line 20, the     *)
(* BIOS's memory map and the page tables.                                  *)
(***************************************************************************)
EXTENDS Boot, WellFoundedInduction, TLAPS

---------------------------------------------------------------------------
\* Sectors: rounding down and up.

\* The size of a sector, from the assumptions.
LEMMA SectorSize == SECTSIZE \in Nat \ {0}
BY LoaderAssumption

Whole(x) == x \in Nat /\ x % SECTSIZE = 0

\* A number of whole sectors, said without a division.
LEMMA WholeIs ==
  ASSUME NEW q \in Nat, NEW x, x = q * SECTSIZE
  PROVE  Whole(x)
<1> DEFINE S == SECTSIZE
<1>1. S \in Nat \ {0}
  BY SectorSize
<1> HIDE DEF S
<1>2. q * S \in Nat
  BY <1>1
<1>3. (q * S) % S = 0
  BY <1>1, <1>2
<1> QED
  BY <1>2, <1>3 DEF S, Whole

\* Division by the size of a sector.
LEMMA Quotient ==
  ASSUME NEW x \in Nat
  PROVE  /\ x \div SECTSIZE \in Nat
         /\ x % SECTSIZE \in 0 .. SECTSIZE - 1
         /\ x = (x \div SECTSIZE) * SECTSIZE + (x % SECTSIZE)
<1> DEFINE S == SECTSIZE
<1>1. S \in Nat \ {0}
  BY SectorSize
<1> HIDE DEF S
<1>2. x \div S \in Nat /\ x % S \in 0 .. S - 1 /\ x = (x \div S) * S + (x % S)
  BY <1>1
<1> QED
  BY <1>2 DEF S

(* The sector that a byte lies in.                                         *)
LEMMA Rounded ==
  ASSUME NEW x \in Nat
  PROVE  /\ Down(x) \in Nat /\ Down(x) <= x /\ x < Down(x) + SECTSIZE
         /\ Down(x) + OFFSET_CORRECT(x) = x
         /\ OFFSET_CORRECT(x) \in Nat /\ OFFSET_CORRECT(x) < SECTSIZE
         /\ Down(x) = (x \div SECTSIZE) * SECTSIZE
         /\ Whole(Down(x))
<1> DEFINE q == x \div SECTSIZE
           r == x % SECTSIZE
<1>1. q \in Nat /\ r \in 0 .. SECTSIZE - 1 /\ x = q * SECTSIZE + r
  BY Quotient
<1>2. q * SECTSIZE \in Nat
  BY <1>1, SectorSize
<1>3. Down(x) = x - r /\ OFFSET_CORRECT(x) = r
  BY DEF Down, OFFSET_CORRECT
<1> HIDE DEF q, r
<1>4. Down(x) = q * SECTSIZE
  BY <1>1, <1>2, <1>3
<1>5. Whole(Down(x))
  BY <1>1, <1>4, WholeIs
<1>6. /\ Down(x) \in Nat /\ Down(x) <= x /\ x < Down(x) + SECTSIZE
      /\ Down(x) + OFFSET_CORRECT(x) = x
      /\ OFFSET_CORRECT(x) \in Nat /\ OFFSET_CORRECT(x) < SECTSIZE
  BY <1>1, <1>2, <1>3, <1>4, SectorSize
<1> QED
  BY <1>4, <1>5, <1>6 DEF q

\* Rounding up, as for kvbase.
LEMMA RoundedUp ==
  ASSUME NEW x \in Nat
  PROVE  Up(x) \in Nat /\ x <= Up(x) /\ Whole(Up(x))
<1>1. x + SECTSIZE - 1 \in Nat
  BY SectorSize
<1>2. /\ Down(x + SECTSIZE - 1) \in Nat
      /\ x + SECTSIZE - 1 < Down(x + SECTSIZE - 1) + SECTSIZE
      /\ Whole(Down(x + SECTSIZE - 1))
  BY <1>1, Rounded
<1> QED
  BY <1>2, SectorSize DEF Up

\* Sums of whole sectors are whole sectors.
LEMMA WholeSum ==
  ASSUME NEW x, Whole(x), NEW y, Whole(y)
  PROVE  Whole(x + y)
<1> DEFINE p == x \div SECTSIZE
           q == y \div SECTSIZE
<1>1. p \in Nat /\ x = p * SECTSIZE + 0 /\ q \in Nat /\ y = q * SECTSIZE + 0
  BY Quotient DEF Whole
<1> HIDE DEF p, q
<1>2. p + q \in Nat /\ x + y = (p + q) * SECTSIZE
  BY <1>1, SectorSize
<1> QED
  BY <1>2, WholeIs

\* No sector and one sector are whole sectors.
LEMMA WholeSector == Whole(0) /\ Whole(SECTSIZE)
<1>1. Whole(0)
  BY WholeIs, SectorSize
<1>2. SECTSIZE = 1 * SECTSIZE
  BY SectorSize
<1> QED
  BY <1>1, <1>2, WholeIs

---------------------------------------------------------------------------
\* What a readseg() has done.

Jobs == [pa : Nat, end_pa : Nat, sect : Nat \ {0}, tail : {0, 1}]

Finished(j) == ~(j.pa < j.end_pa \/ j.tail > 0)

\* The offset in the file of a sector of the disk.
FileAt(sect) == (sect - 1) * SECTSIZE

(* The readseg() j has read to base on, from the byte from of the file on: *)
(* what is below j.pa is in the memory m, and the next sector is the one   *)
(* that goes there.                                                        *)
ReadsTo(j, m, base, from) ==
  /\ base \in Nat /\ base <= j.pa
  /\ FileAt(j.sect) + base = j.pa + from
  /\ \A x \in base .. j.pa - 1 : x \in Memory /\ m[x] = from + (x - base)

(* One of the kernel's: count bytes from off on, the first of them at      *)
(* OFFSET_CORRECT(off) behind base.  It needs another sector if these do   *)
(* not fit into one, and then reads it last.                               *)
Spills(off, count) == OFFSET_CORRECT(off) + count > SECTSIZE

KernJob(j, m, base, off, count) ==
  /\ ReadsTo(j, m, base, Down(off))
  /\ j.end_pa = base + count
  /\ j.pa = base \/ j.pa >= base + SECTSIZE
  /\ j.tail = 1 => Spills(off, count)
  /\ Spills(off, count) /\ j.tail = 0 => j.pa >= base + count + SECTSIZE

\* One of the loader's, of the segment g.
BootJob(j, m, g) ==
  /\ ReadsTo(j, m, Down(g.pa), Down(g.off))
  /\ j.end_pa = g.pa + g.memsz /\ j.tail = 0

\* Bytes of the file that are in memory, below what is still to be read.
Held(j, m, a, off, count) ==
  \A k \in 0 .. count - 1 : a + k \in Memory /\ a + k < j.pa /\ m[a + k] = off + k

\* A segment as the loader leaves it: with its BSS, which is in the file too.
Loaded(m, g) ==
  \A x \in g.pa .. g.pa + g.memsz - 1 : x \in Memory /\ m[x] = g.off + (x - g.pa)

\* The step that takes a sector.
Took(j, m, j2, m2) ==
  /\ j.pa + SECTSIZE <= MemTop
  /\ DOMAIN m2 = Memory
  /\ \A x \in Memory : m2[x] = IF x \in j.pa .. j.pa + SECTSIZE - 1
                               THEN FileAt(j.sect) + (x - j.pa) ELSE m[x]
  /\ j2.pa = j.pa + SECTSIZE /\ j2.end_pa = j.end_pa /\ j2.sect = j.sect + 1
  /\ j2.tail = IF j.pa < j.end_pa THEN j.tail ELSE 0

\* Nothing below what is still to be read is written.
Keeps(j, m, j2, m2) ==
  j.pa <= j2.pa /\ \A x \in Memory : x < j.pa => m2[x] = m[x]

---------------------------------------------------------------------------
\* The inductive invariant of the loader.

LoaderTypes ==
  /\ image \in Images
  /\ disk \in {"idle", "busy"} /\ sector \in Nat /\ ready \in Nat
  /\ DOMAIN mem = Memory
  /\ phase \in {"header", "segments", "bad"} \/ InKernel
  /\ waiting \in BOOLEAN
  /\ job \in Jobs /\ Whole(job.pa)
  /\ n \in Nat /\ Whole(kvoffset)
  /\ names \in Nat \cup {NULL}
  /\ DOMAIN ds_data = DOMAIN image.sects
  /\ \A s \in DOMAIN ds_data : ds_data[s] \in Nat \cup {NULL}

\* The sector in the buffer is the one that readsect() waits for.  It waits for
\* none after a bad header.
SectorAwaited ==
  /\ waiting => sector = job.sect /\ (disk = "idle" => ready = sector)
  /\ ~waiting => disk = "idle"
  /\ phase = "bad" => ~waiting /\ Finished(job)

\* Until the kernel is entered: all segments before the one at work are there.
Loading ==
  /\ kvoffset = 0
  /\ phase # "segments" => n = 0
  /\ phase = "segments" =>
       /\ image.magic /\ n <= Len(image.segs)
       /\ \A s \in 1 .. n - 1 : Loaded(mem, image.segs[s])
       /\ n > 0 => BootJob(job, mem, image.segs[n])

\* The kernel, below all that is read later.
SegmentHeld(j, m, g) == Held(j, m, g.pa, g.off, g.filesz)

KernelHeld ==
  /\ \A s \in DOMAIN image.segs : SegmentHeld(job, mem, image.segs[s])
  /\ \A a \in edata .. end - 1 : a \in Memory /\ a < job.pa /\ mem[a] = ZERO

TablesHeld ==
  Held(job, mem, kvbase + OFFSET_CORRECT(image.shoff), image.shoff, Len(image.sects) * ENTSIZE)

\* A section that has been read to a, and one that is being read there.
SectionHeld(j, m, a, g) == Held(j, m, a, g.off, g.size)
SectionJob(j, m, a, g) ==
  a \in Nat /\ KernJob(j, m, a - OFFSET_CORRECT(g.off), g.off, g.size)

InTheKernel ==
  /\ image.magic
  /\ job.pa = kvbase + kvoffset /\ job.pa <= MemTop
  /\ KernelHeld
  /\ phase = "tables" =>
       n = 0 /\ KernJob(job, mem, kvbase, image.shoff, Len(image.sects) * ENTSIZE)
  /\ phase \in {"names", "sections"} => TablesHeld
  /\ phase = "names" =>
       n = 0 /\ SectionJob(job, mem, names, image.sects[image.strndx])
  /\ phase = "sections" => SectionHeld(job, mem, names, image.sects[image.strndx])
  /\ phase \in {"sections", "done"} =>
       /\ n <= Len(image.sects)
       /\ \A s \in 1 .. n : image.sects[s].kind = "debug" =>
            \/ SectionHeld(job, mem, ds_data[s], image.sects[s])
            \/ s = n /\ phase = "sections" /\ SectionJob(job, mem, ds_data[s], image.sects[s])
  /\ phase = "done" => n = Len(image.sects)

LoaderInv ==
  /\ LoaderTypes /\ SectorAwaited
  /\ ~InKernel => Loading
  /\ InKernel => InTheKernel

---------------------------------------------------------------------------
\* What taking a sector does to a readseg().

\* Sectors of the file follow one another.
LEMMA FileSectors ==
  /\ \A q \in Nat \ {0} : FileAt(q) \in Nat /\ FileAt(q + 1) = FileAt(q) + SECTSIZE
  /\ \A x \in Nat : FileAt(x \div SECTSIZE + 1) = Down(x)
<1>1. ASSUME NEW q \in Nat \ {0}
      PROVE  FileAt(q) \in Nat /\ FileAt(q + 1) = FileAt(q) + SECTSIZE
  <2>1. q - 1 \in Nat /\ (q + 1) - 1 = (q - 1) + 1
    OBVIOUS
  <2> DEFINE p == q - 1
  <2>2. p \in Nat
    BY <2>1
  <2>3. FileAt(q) = p * SECTSIZE /\ FileAt(q + 1) = (p + 1) * SECTSIZE
    BY <2>1 DEF FileAt
  <2> HIDE DEF p
  <2> QED
    BY <2>2, <2>3, SectorSize
<1>2. ASSUME NEW x \in Nat
      PROVE  FileAt(x \div SECTSIZE + 1) = Down(x)
  <2> DEFINE q == x \div SECTSIZE
  <2>1. q \in Nat /\ Down(x) = q * SECTSIZE
    BY Quotient, Rounded
  <2>2. (q + 1) - 1 = q
    BY <2>1
  <2> QED
    BY <2>1, <2>2 DEF FileAt
<1> QED
  BY <1>1, <1>2

\* The end of the memory, from the assumptions.
LEMMA MemorySize == MemTop \in Nat
BY LoaderAssumption

(* Reading goes on where it is: what was read stays, and the sector goes   *)
(* behind it.                                                              *)
LEMMA ReadsOn ==
  ASSUME NEW j \in Jobs, NEW m, NEW j2, NEW m2, Took(j, m, j2, m2),
         NEW base, NEW from \in Nat, ReadsTo(j, m, base, from)
  PROVE  ReadsTo(j2, m2, base, from)
<1>1. j.pa \in Nat /\ j.sect \in Nat \ {0} /\ base \in Nat /\ base <= j.pa
  BY DEF Jobs, ReadsTo
<1>2. FileAt(j.sect) \in Nat /\ FileAt(j2.sect) = FileAt(j.sect) + SECTSIZE
  BY <1>1, FileSectors DEF Took
<1>3. j2.pa = j.pa + SECTSIZE /\ j.pa + SECTSIZE <= MemTop
  BY DEF Took
<1>4. FileAt(j.sect) + base = j.pa + from
  BY DEF ReadsTo
<1>5. base <= j2.pa /\ FileAt(j2.sect) + base = j2.pa + from
  BY <1>1, <1>2, <1>3, <1>4, SectorSize
<1>6. ASSUME NEW x \in base .. j2.pa - 1
      PROVE  x \in Memory /\ m2[x] = from + (x - base)
  <2>1. x \in Memory
    BY <1>1, <1>3, MemorySize, SectorSize DEF Memory
  <2>2. CASE x < j.pa
    <3>1. x \in base .. j.pa - 1 /\ x \notin j.pa .. j.pa + SECTSIZE - 1
      BY <1>1, <2>2
    <3>2. m2[x] = m[x]
      BY <2>1, <3>1 DEF Took
    <3> QED
      BY <2>1, <3>1, <3>2 DEF ReadsTo
  <2>3. CASE x >= j.pa
    <3>1. x \in j.pa .. j.pa + SECTSIZE - 1
      BY <1>1, <1>3, <2>3, SectorSize
    <3>2. m2[x] = FileAt(j.sect) + (x - j.pa)
      BY <2>1, <3>1 DEF Took
    <3> QED
      BY <1>1, <1>2, <1>4, <2>1, <3>2
  <2> QED
    BY <1>1, <1>3, <2>2, <2>3, SectorSize
<1> QED
  BY <1>1, <1>5, <1>6 DEF ReadsTo

(* A sector more does not take a readseg() of the kernel out of its plan.  *)
LEMMA KernReadsOn ==
  ASSUME NEW j \in Jobs, NEW m, NEW j2, NEW m2, Took(j, m, j2, m2),
         NEW base, NEW off \in Nat, NEW count \in Nat, KernJob(j, m, base, off, count)
  PROVE  KernJob(j2, m2, base, off, count)
<1>1. ReadsTo(j, m, base, Down(off)) /\ Down(off) \in Nat
  BY Rounded DEF KernJob
<1>2. ReadsTo(j2, m2, base, Down(off))
  BY <1>1, ReadsOn
<1>3. base \in Nat /\ j.pa \in Nat /\ j.end_pa = base + count /\ base <= j.pa
  BY <1>1 DEF ReadsTo, KernJob, Jobs
<1>4. j2.pa = j.pa + SECTSIZE /\ j2.end_pa = j.end_pa
      /\ j2.tail = IF j.pa < j.end_pa THEN j.tail ELSE 0
  BY DEF Took
<1>5. j2.tail = 1 => Spills(off, count)
  BY <1>4 DEF KernJob
<1>6. Spills(off, count) /\ j2.tail = 0 => j2.pa >= base + count + SECTSIZE
  <2> SUFFICES ASSUME Spills(off, count), j2.tail = 0
               PROVE  j2.pa >= base + count + SECTSIZE
    OBVIOUS
  <2>1. CASE j.pa < j.end_pa
    <3>1. j.pa >= base + count + SECTSIZE
      BY <1>4, <2>1 DEF KernJob
    <3> QED
      BY <1>3, <2>1, <3>1, SectorSize
  <2>2. CASE ~(j.pa < j.end_pa)
    BY <1>3, <1>4, <2>2, SectorSize
  <2> QED
    BY <2>1, <2>2
<1>7. j2.pa >= base + SECTSIZE
  BY <1>3, <1>4, SectorSize
<1> QED
  BY <1>2, <1>3, <1>4, <1>5, <1>6, <1>7 DEF KernJob

(* When a readseg() of the kernel is done, all that was asked for is       *)
(* there, from OFFSET_CORRECT(off) on: the last sector too.                *)
LEMMA KernRead ==
  ASSUME NEW j \in Jobs, NEW m, Finished(j),
         NEW base, NEW off \in Nat, NEW count \in Nat, KernJob(j, m, base, off, count)
  PROVE  Held(j, m, base + OFFSET_CORRECT(off), off, count)
<1> DEFINE r == OFFSET_CORRECT(off)
<1>1. r \in Nat /\ r < SECTSIZE /\ Down(off) + r = off /\ Down(off) \in Nat
  BY Rounded
<1>2. base \in Nat /\ j.pa \in Nat /\ j.pa >= base + count /\ j.tail = 0
  BY DEF Jobs, KernJob, ReadsTo, Finished
<1>3. count > 0 => r + count <= j.pa - base
  <2>1. CASE Spills(off, count)
    <3>1. j.pa >= base + count + SECTSIZE
      BY <1>2, <2>1 DEF KernJob
    <3> QED
      BY <1>1, <1>2, <3>1, SectorSize
  <2>2. CASE ~Spills(off, count)
    <3>1. r + count <= SECTSIZE
      BY <1>1, <2>2, SectorSize DEF Spills
    <3>2. count > 0 => j.pa >= base + SECTSIZE
      BY <1>2 DEF KernJob
    <3> QED
      BY <1>1, <1>2, <3>1, <3>2, SectorSize
  <2> QED
    BY <2>1, <2>2
<1> HIDE DEF r
<1>4. ASSUME NEW k \in 0 .. count - 1
      PROVE  (base + r) + k \in Memory /\ (base + r) + k < j.pa /\ m[(base + r) + k] = off + k
  <2> DEFINE x == (base + r) + k
  <2>1. x \in base .. j.pa - 1 /\ Down(off) + (x - base) = off + k
    <3>1. k \in Nat /\ k < count /\ r + count <= j.pa - base
      BY <1>3
    <3>2. base \in Nat /\ j.pa \in Nat /\ r \in Nat /\ Down(off) \in Nat /\ Down(off) + r = off
      BY <1>1, <1>2
    <3>3. x \in base .. j.pa - 1
      BY <3>1, <3>2
    <3> QED
      BY <3>1, <3>2, <3>3
  <2> HIDE DEF x
  <2>2. x \in Memory /\ m[x] = Down(off) + (x - base)
    BY <2>1 DEF KernJob, ReadsTo
  <2>3. x < j.pa
    BY <1>2, <2>1
  <2> QED
    BY <2>1, <2>2, <2>3 DEF x
<1> QED
  BY <1>4 DEF Held, r

\* What is below a readseg() stays.
LEMMA HeldKept ==
  ASSUME NEW j \in Jobs, NEW m, NEW j2 \in Jobs, NEW m2, Keeps(j, m, j2, m2),
         NEW a, NEW off, NEW count, Held(j, m, a, off, count)
  PROVE  Held(j2, m2, a, off, count)
<1> SUFFICES ASSUME NEW k \in 0 .. count - 1
             PROVE  a + k \in Memory /\ a + k < j2.pa /\ m2[a + k] = off + k
  BY DEF Held
<1>1. a + k \in Memory /\ a + k < j.pa /\ m[a + k] = off + k
  BY DEF Held
<1>2. m2[a + k] = m[a + k] /\ j.pa <= j2.pa
  BY <1>1 DEF Keeps
<1>3. a + k \in Int /\ j.pa \in Int /\ j2.pa \in Int
  BY <1>1 DEF Memory, Jobs
<1> QED
  BY <1>1, <1>2, <1>3

\* Taking a sector writes at job.pa and behind it only.
LEMMA TookKeeps ==
  ASSUME NEW j \in Jobs, NEW m, NEW j2, NEW m2, Took(j, m, j2, m2)
  PROVE  Keeps(j, m, j2, m2)
<1>1. j.pa \in Nat /\ j2.pa = j.pa + SECTSIZE
  BY DEF Jobs, Took
<1>2. ASSUME NEW x \in Memory, x < j.pa
      PROVE  m2[x] = m[x]
  <2>1. x \notin j.pa .. j.pa + SECTSIZE - 1
    BY <1>1, <1>2, SectorSize DEF Memory
  <2> QED
    BY <2>1 DEF Took
<1> QED
  BY <1>1, <1>2, SectorSize DEF Keeps

(* When the loader has read a segment, all of it is where it belongs.      *)
LEMMA SegmentRead ==
  ASSUME NEW j \in Jobs, NEW m, Finished(j),
         NEW g \in [pa : Nat, off : Nat, filesz : Nat, memsz : Nat], SegmentOK(g),
         BootJob(j, m, g)
  PROVE  Loaded(m, g)
<1>1. /\ g.pa \in Nat /\ g.off \in Nat /\ g.memsz \in Nat /\ j.pa \in Nat
      /\ j.pa >= g.pa + g.memsz
  BY DEF Jobs, Finished, BootJob
<1>2. OFFSET_CORRECT(g.pa) = OFFSET_CORRECT(g.off)
  BY DEF OFFSET_CORRECT, SegmentOK
<1>3. /\ Down(g.pa) + OFFSET_CORRECT(g.pa) = g.pa /\ Down(g.pa) \in Nat
      /\ Down(g.pa) <= g.pa /\ OFFSET_CORRECT(g.pa) \in Nat
  BY <1>1, Rounded
<1>4. Down(g.off) + OFFSET_CORRECT(g.off) = g.off /\ Down(g.off) \in Nat
  BY <1>1, Rounded
<1> SUFFICES ASSUME NEW x \in g.pa .. g.pa + g.memsz - 1
             PROVE  x \in Memory /\ m[x] = g.off + (x - g.pa)
  BY DEF Loaded
<1>5. x \in Down(g.pa) .. j.pa - 1
  BY <1>1, <1>3
<1>6. x \in Memory /\ m[x] = Down(g.off) + (x - Down(g.pa))
  BY <1>5 DEF BootJob, ReadsTo
<1>7. Down(g.off) + (x - Down(g.pa)) = g.off + (x - g.pa)
  BY <1>1, <1>2, <1>3, <1>4
<1> QED
  BY <1>6, <1>7

\* A segment below the one at work stays.
LEMMA LoadedKept ==
  ASSUME NEW j \in Jobs, NEW m, NEW j2, NEW m2, Took(j, m, j2, m2),
         NEW g \in [pa : Nat, off : Nat, filesz : Nat, memsz : Nat],
         g.pa + g.memsz <= j.pa, Loaded(m, g)
  PROVE  Loaded(m2, g)
<1> SUFFICES ASSUME NEW x \in g.pa .. g.pa + g.memsz - 1
             PROVE  x \in Memory /\ m2[x] = g.off + (x - g.pa)
  BY DEF Loaded
<1>1. x \in Memory /\ m[x] = g.off + (x - g.pa)
  BY DEF Loaded
<1>2. x < j.pa
  BY DEF Jobs
<1>3. m2[x] = m[x]
  BY <1>1, <1>2, TookKeeps DEF Keeps
<1> QED
  BY <1>1, <1>3

(* A readseg() as it begins: nothing read, and the right sector next.      *)
LEMMA BootBegins ==
  ASSUME NEW m, NEW g \in [pa : Nat, off : Nat, filesz : Nat, memsz : Nat]
  PROVE  LET j == BootReadseg(g.pa, g.memsz, g.off)
         IN  j \in Jobs /\ Whole(j.pa) /\ BootJob(j, m, g)
<1> DEFINE j == BootReadseg(g.pa, g.memsz, g.off)
<1>1. g.pa \in Nat /\ g.off \in Nat /\ g.memsz \in Nat
  OBVIOUS
<1>2. Down(g.pa) \in Nat /\ Whole(Down(g.pa)) /\ Down(g.off) \in Nat
  BY <1>1, Rounded
<1>3. g.off \div SECTSIZE \in Nat /\ FileAt(g.off \div SECTSIZE + 1) = Down(g.off)
  BY <1>1, Quotient, FileSectors
<1>4. /\ j.pa = Down(g.pa) /\ j.end_pa = g.pa + g.memsz
      /\ j.sect = g.off \div SECTSIZE + 1 /\ j.tail = 0
  BY DEF BootReadseg, Read
<1>5. j \in Jobs
  BY <1>1, <1>2, <1>3 DEF BootReadseg, Read, Jobs
<1> HIDE DEF j
<1>6. ReadsTo(j, m, Down(g.pa), Down(g.off))
  BY <1>2, <1>3, <1>4 DEF ReadsTo
<1> QED
  BY <1>2, <1>4, <1>5, <1>6 DEF BootJob, j

\* The same for readseg() of kern/elf_rw.c, at a rounded address.
LEMMA KernBegins ==
  ASSUME NEW m, NEW pa, Whole(pa), NEW off \in Nat, NEW count \in Nat
  PROVE  LET j == KernReadseg(pa, count, off)
         IN  j \in Jobs /\ j.pa = pa /\ KernJob(j, m, pa, off, count)
<1> DEFINE j == KernReadseg(pa, count, off)
<1>1. pa \in Nat
  BY DEF Whole
<1>2. Down(off) \in Nat
  BY Rounded
<1>3. off \div SECTSIZE \in Nat /\ FileAt(off \div SECTSIZE + 1) = Down(off)
  BY Quotient, FileSectors
<1>4. /\ j.pa = pa /\ j.end_pa = pa + count
      /\ j.sect = off \div SECTSIZE + 1
      /\ j.tail = IF Spills(off, count) THEN 1 ELSE 0
  BY DEF KernReadseg, Read, Spills
<1>5. j \in Jobs
  BY <1>1, <1>3 DEF KernReadseg, Read, Jobs
<1> HIDE DEF j
<1>6. ReadsTo(j, m, pa, Down(off))
  BY <1>1, <1>2, <1>3, <1>4 DEF ReadsTo
<1> QED
  BY <1>1, <1>4, <1>5, <1>6 DEF KernJob, j

---------------------------------------------------------------------------
\* The kernel's file.

\* What ImageOK says of the segments.
LEMMA Segments ==
  ASSUME NEW im \in Images
  PROVE  /\ Len(im.segs) \in Nat /\ Len(im.segs) > 0 /\ DOMAIN im.segs = 1 .. Len(im.segs)
         /\ \A s \in 1 .. Len(im.segs) :
              /\ im.segs[s] \in [pa : Nat, off : Nat, filesz : Nat, memsz : Nat]
              /\ SegmentOK(im.segs[s]) /\ SegEnd(im.segs[s]) <= MemTop
         /\ \A r, s \in 1 .. Len(im.segs) :
              r < s => SegEnd(im.segs[r]) <= Down(im.segs[s].pa)
<1> DEFINE q == im.segs
           R == [pa : Nat, off : Nat, filesz : Nat, memsz : Nat]
<1>1. ImageOK(im)
  BY LoaderAssumption
<1>2. q \in Seq(R) /\ q # << >>
  BY <1>1 DEF ImageOK
<1>3. /\ \A s \in DOMAIN q : SegmentOK(q[s]) /\ SegEnd(q[s]) <= MemTop
      /\ \A r, s \in DOMAIN q : r < s => SegEnd(q[r]) <= Down(q[s].pa)
  BY <1>1 DEF ImageOK
<1> HIDE DEF q, R
<1>4. Len(q) \in Nat /\ Len(q) > 0 /\ DOMAIN q = 1 .. Len(q) /\ \A s \in 1 .. Len(q) : q[s] \in R
  BY <1>2
<1> QED
  BY <1>3, <1>4 DEF q, R

\* What ImageOK says of the sections.
LEMMA Sections ==
  ASSUME NEW im \in Images
  PROVE  /\ Len(im.sects) \in Nat /\ DOMAIN im.sects = 1 .. Len(im.sects)
         /\ im.shoff \in Nat /\ Len(im.sects) * ENTSIZE \in Nat
         /\ \A s \in DOMAIN im.sects : im.sects[s].off \in Nat /\ im.sects[s].size \in Nat
         /\ \A s \in DOMAIN im.sects : im.sects[s].kind = "frame" => im.sects[s].addr \in Nat
         /\ im.magic => im.strndx \in DOMAIN im.sects
<1>1. ImageOK(im) /\ ENTSIZE \in Nat
  BY LoaderAssumption
<1>2. Len(im.sects) \in Nat
  BY <1>1 DEF ImageOK
<1> QED
  BY <1>1, <1>2 DEF ImageOK, SectionOK

\* A segment ends in front of the sector where the next begins.
LEMMA SegmentEnd ==
  ASSUME NEW g \in [pa : Nat, off : Nat, filesz : Nat, memsz : Nat], SegmentOK(g)
  PROVE  /\ g.pa \in Nat /\ g.memsz \in Nat /\ g.filesz \in Nat /\ g.filesz <= g.memsz
         /\ SegEnd(g) \in Nat /\ g.pa + g.memsz <= SegEnd(g) /\ Whole(SegEnd(g))
         /\ Down(g.pa) \in Nat /\ Down(g.pa) <= g.pa
<1>1. g.pa \in Nat /\ g.pa + g.memsz \in Nat /\ g.memsz \in Nat /\ g.filesz \in Nat
  OBVIOUS
<1> QED
  BY <1>1, RoundedUp, Rounded DEF SegmentOK, SegEnd

(* The kernel ends below kvbase, and its BSS is the end of its last        *)
(* segment.                                                                *)
LEMMA KernelEnd ==
  ASSUME image \in Images
  PROVE  /\ Whole(kvbase) /\ kvbase <= MemTop
         /\ edata \in Nat /\ end \in Nat /\ edata <= end /\ end <= kvbase
         /\ LastSeg.pa <= edata
         /\ \A s \in 1 .. Len(image.segs) :
              /\ image.segs[s].pa + image.segs[s].memsz <= kvbase
              /\ s < Len(image.segs) => SegEnd(image.segs[s]) <= LastSeg.pa
<1> DEFINE last == Len(image.segs)
<1>1. last \in 1 .. last
  BY Segments
<1>2. /\ LastSeg \in [pa : Nat, off : Nat, filesz : Nat, memsz : Nat]
      /\ SegmentOK(LastSeg) /\ SegEnd(LastSeg) <= MemTop
  BY <1>1, Segments DEF LastSeg
<1>3. kvbase = SegEnd(LastSeg)
  BY DEF kvbase, end, SegEnd
<1>4. /\ LastSeg.pa \in Nat /\ LastSeg.memsz \in Nat /\ LastSeg.filesz \in Nat
      /\ LastSeg.filesz <= LastSeg.memsz
      /\ kvbase \in Nat /\ LastSeg.pa + LastSeg.memsz <= kvbase /\ Whole(kvbase)
      /\ Down(LastSeg.pa) \in Nat /\ Down(LastSeg.pa) <= LastSeg.pa
  BY <1>2, <1>3, SegmentEnd
<1>5. /\ edata \in Nat /\ end \in Nat /\ edata <= end /\ end <= kvbase
      /\ LastSeg.pa <= edata
  BY <1>4 DEF edata, end
<1>6. ASSUME NEW s \in 1 .. last
      PROVE  /\ image.segs[s].pa + image.segs[s].memsz <= kvbase
             /\ s < last => SegEnd(image.segs[s]) <= LastSeg.pa
  <2>1. /\ image.segs[s].pa \in Nat /\ image.segs[s].memsz \in Nat
        /\ SegEnd(image.segs[s]) \in Nat
        /\ image.segs[s].pa + image.segs[s].memsz <= SegEnd(image.segs[s])
    BY Segments, SegmentEnd
  <2>2. s < last => SegEnd(image.segs[s]) <= Down(LastSeg.pa)
    BY <1>1, Segments DEF LastSeg
  <2>3. s = last => image.segs[s] = LastSeg
    BY DEF LastSeg
  <2>4. last \in Nat
    BY Segments
  <2>5. CASE s < last
    BY SMTT(30), <1>4, <2>1, <2>2, <2>5
  <2>6. CASE s = last
    BY <1>4, <2>3, <2>6
  <2> QED
    BY <2>4, <2>5, <2>6
<1> QED
  BY <1>2, <1>3, <1>4, <1>5, <1>6

---------------------------------------------------------------------------
\* The steps of the loader.

\* Power-on: nothing is loaded, and the header is asked for.
LEMMA LoaderStart == Init => LoaderInv
<1> SUFFICES ASSUME Init PROVE LoaderInv
  OBVIOUS
<1>1. image \in Images /\ MemTop \in Nat
  BY MemorySize DEF Init
<1>2. job \in Jobs /\ Whole(job.pa)
  <2> DEFINE g == [pa |-> 0, off |-> 0, filesz |-> 0, memsz |-> SECTSIZE * HDRSECTS]
  <2>1. SECTSIZE * HDRSECTS \in Nat
    BY LoaderAssumption
  <2>2. g \in [pa : Nat, off : Nat, filesz : Nat, memsz : Nat]
    BY <2>1
  <2>3. job = BootReadseg(g.pa, g.memsz, g.off)
    BY DEF Init
  <2> HIDE DEF g
  <2> QED
    BY <2>2, <2>3, BootBegins
<1>3. Whole(0)
  BY WholeSector
<1>4. LoaderTypes
  BY <1>1, <1>2, <1>3 DEF Init, LoaderTypes, NULL
<1>5. SectorAwaited /\ ~InKernel /\ Loading
  BY DEF Init, SectorAwaited, InKernel, Loading
<1> QED
  BY <1>4, <1>5 DEF LoaderInv

\* The places in the kernel depend on its file alone.
LEMMA SameFile ==
  ASSUME image' = image
  PROVE  kvbase' = kvbase /\ edata' = edata /\ end' = end /\ LastSeg' = LastSeg
BY DEF kvbase, edata, end, LastSeg

restVars == <<image, mem, phase, job, n, kvoffset, names, ds_data>>

\* A step that does not concern the kernel's file or the memory.
LEMMA RestKept ==
  ASSUME LoaderInv, UNCHANGED restVars
  PROVE  (InKernel' = InKernel) /\ (~InKernel => Loading') /\ (InKernel => InTheKernel')
<1>1. /\ image' = image /\ mem' = mem /\ phase' = phase /\ job' = job /\ n' = n
      /\ kvoffset' = kvoffset /\ names' = names /\ ds_data' = ds_data
  BY DEF restVars
<1>2. kvbase' = kvbase /\ edata' = edata /\ end' = end
  BY <1>1, SameFile
<1>3. InKernel' = InKernel
  BY <1>1 DEF InKernel
<1>4. ~InKernel => Loading'
  BY <1>1 DEF LoaderInv, Loading
<1>5. ASSUME InKernel PROVE InTheKernel'
  <2>1. KernelHeld' /\ (TablesHeld => TablesHeld')
    BY <1>1, <1>2, <1>5 DEF LoaderInv, InTheKernel, KernelHeld, TablesHeld
  <2> QED
    BY <1>1, <1>2, <1>5, <2>1 DEF LoaderInv, InTheKernel
<1> QED
  BY <1>3, <1>4, <1>5

\* readsect() asks for the sector that readseg() wants next.
LEMMA AskStep == LoaderInv /\ AskSector => LoaderInv'
<1> SUFFICES ASSUME LoaderInv, AskSector PROVE LoaderInv'
  OBVIOUS
<1>1. UNCHANGED restVars /\ ready' = ready
  BY DEF AskSector, restVars
<1>2. sector' = job.sect /\ job' = job /\ job \in Jobs /\ waiting' = TRUE /\ disk' = "busy"
  BY <1>1 DEF AskSector, LoaderInv, LoaderTypes, restVars
<1>3. SectorAwaited'
  <2>1. phase' # "bad"
    BY DEF LoaderInv, SectorAwaited, AskSector, Reading, Finished
  <2> QED
    BY <1>2, <2>1 DEF SectorAwaited
<1>4. LoaderTypes'
  <2>1. sector' \in Nat
    BY <1>2 DEF Jobs
  <2> QED
    BY <1>1, <1>2, <2>1 DEF LoaderInv, LoaderTypes, restVars, InKernel
<1> QED
  BY <1>1, <1>3, <1>4, RestKept DEF LoaderInv

\* The disk answers with the sector last asked for.
LEMMA DiskStep == LoaderInv /\ DiskDone => LoaderInv'
<1> SUFFICES ASSUME LoaderInv, DiskDone PROVE LoaderInv'
  OBVIOUS
<1>1. UNCHANGED restVars
  BY DEF DiskDone, restVars
<1>2. SectorAwaited'
  BY DEF SectorAwaited, LoaderInv, DiskDone
<1>3. LoaderTypes'
  BY DEF LoaderInv, LoaderTypes, DiskDone, InKernel
<1> QED
  BY <1>1, <1>2, <1>3, RestKept DEF LoaderInv

(* TakeSector is the step Took, of the right sector.                       *)
LEMMA TakeTook ==
  ASSUME LoaderInv, TakeSector
  PROVE  /\ Took(job, mem, job', mem') /\ Keeps(job, mem, job', mem')
         /\ job' \in Jobs /\ Whole(job'.pa)
<1>1. /\ job \in Jobs /\ Whole(job.pa) /\ ready = job.sect
      /\ job.pa \in Nat /\ job.sect \in Nat \ {0} /\ job.tail \in {0, 1}
  BY DEF LoaderInv, LoaderTypes, SectorAwaited, TakeSector, Jobs
<1>2. job' = [job EXCEPT !.pa = @ + SECTSIZE, !.sect = @ + 1,
                         !.tail = IF job.pa < job.end_pa THEN @ ELSE 0]
  BY DEF TakeSector
<1>3. /\ job'.pa = job.pa + SECTSIZE /\ job'.end_pa = job.end_pa
      /\ job'.sect = job.sect + 1
      /\ job'.tail = IF job.pa < job.end_pa THEN job.tail ELSE 0
  BY <1>1, <1>2 DEF Jobs
<1>4. job' \in Jobs
  <2> DEFINE t == IF job.pa < job.end_pa THEN job.tail ELSE 0
             p == job.pa + SECTSIZE
             q == job.sect + 1
  <2>1. t \in {0, 1} /\ p \in Nat /\ q \in Nat \ {0}
    BY <1>1, SectorSize
  <2>2. job' = [job EXCEPT !.pa = p, !.sect = q, !.tail = t]
    BY <1>2
  <2> HIDE DEF t, p, q
  <2> QED
    BY <1>1, <2>1, <2>2 DEF Jobs
<1>5. Whole(job'.pa)
  BY <1>1, <1>3, WholeSum, WholeSector
<1>6. mem' = WithSector(job.pa)
  BY DEF TakeSector
<1>7. ASSUME NEW x \in Memory
      PROVE  mem'[x] = IF x \in job.pa .. job.pa + SECTSIZE - 1
                       THEN FileAt(job.sect) + (x - job.pa) ELSE mem[x]
  <2>1. FileAt(job.sect) \in Nat /\ x \in Int
    BY <1>1, FileSectors DEF Memory
  <2>2. FileAt(job.sect) + x - job.pa = FileAt(job.sect) + (x - job.pa)
    BY <1>1, <2>1
  <2>3. (ready - 1) * SECTSIZE = FileAt(job.sect)
    BY <1>1 DEF FileAt
  <2> QED
    BY <1>6, <2>2, <2>3 DEF WithSector
<1>8. DOMAIN mem' = Memory /\ job.pa + SECTSIZE <= MemTop
  BY <1>6 DEF WithSector, TakeSector, InMemory
<1>9. Took(job, mem, job', mem')
  BY <1>3, <1>7, <1>8 DEF Took
<1> QED
  BY <1>1, <1>4, <1>5, <1>9, TookKeeps

(* Once in the kernel, nothing below job.pa is written any more, so that   *)
(* what is held stays.                                                     *)
LEMMA KernelKept ==
  ASSUME LoaderTypes, KernelHeld, image' = image, job' \in Jobs, Keeps(job, mem, job', mem')
  PROVE  /\ KernelHeld' /\ (TablesHeld => TablesHeld')
         /\ \A a, g : SectionHeld(job, mem, a, g) => SectionHeld(job', mem', a, g)
<1>1. job \in Jobs
  BY DEF LoaderTypes
<1>2. \A a, off, count : Held(job, mem, a, off, count) => Held(job', mem', a, off, count)
  BY <1>1, HeldKept
<1>3. TablesHeld => TablesHeld'
  <2>1. kvbase' = kvbase
    BY SameFile
  <2> QED
    BY <1>2, <2>1 DEF TablesHeld
<1>4. \A s \in DOMAIN image.segs : SegmentHeld(job', mem', image.segs[s])
  BY <1>2 DEF KernelHeld, SegmentHeld
<1>5. ASSUME NEW a \in edata .. end - 1
      PROVE  a \in Memory /\ a < job'.pa /\ mem'[a] = ZERO
  <2>1. a \in Memory /\ a < job.pa /\ mem[a] = ZERO
    BY DEF KernelHeld
  <2>2. mem'[a] = mem[a] /\ job.pa <= job'.pa
    BY <2>1 DEF Keeps
  <2>3. a \in Int /\ job.pa \in Int /\ job'.pa \in Int
    BY <1>1, <2>1 DEF Memory, Jobs
  <2> QED
    BY <2>1, <2>2, <2>3
<1>6. edata' = edata /\ end' = end
  BY SameFile
<1>7. KernelHeld'
  BY <1>4, <1>5, <1>6 DEF KernelHeld
<1>8. \A a, g : SectionHeld(job, mem, a, g) => SectionHeld(job', mem', a, g)
  BY <1>2 DEF SectionHeld
<1> QED
  BY <1>3, <1>7, <1>8

\* A sector of a segment: the segments before it are below it.
LEMMA TakeLoading ==
  ASSUME LoaderInv, TakeSector, ~InKernel
  PROVE  Loading'
<1>1. Loading /\ LoaderTypes
  BY DEF LoaderInv
<1>2. phase' = phase /\ n' = n /\ image' = image
  BY DEF TakeSector
<1>3. kvoffset' = 0
  <2>1. phase \in {"header", "segments"} \/ phase = "bad"
    BY <1>1 DEF LoaderTypes
  <2>2. phase # "bad"
    BY DEF LoaderInv, SectorAwaited, TakeSector
  <2> QED
    BY <1>1, <2>1, <2>2 DEF Loading, TakeSector, Counted
<1>4. ASSUME phase = "segments"
      PROVE  /\ \A s \in 1 .. n - 1 : Loaded(mem', image.segs[s])
             /\ n > 0 => BootJob(job', mem', image.segs[n])
  <2>1. Took(job, mem, job', mem') /\ job \in Jobs /\ n \in Nat /\ n <= Len(image.segs)
    BY <1>1, <1>4, TakeTook DEF LoaderTypes, Loading
  <2> SUFFICES ASSUME n > 0
               PROVE  /\ \A s \in 1 .. n - 1 : Loaded(mem', image.segs[s])
                      /\ BootJob(job', mem', image.segs[n])
    BY <2>1
  <2>2. BootJob(job, mem, image.segs[n])
    BY <1>1, <1>4 DEF Loading
  <2>3. n \in 1 .. Len(image.segs) /\ image \in Images /\ Len(image.segs) \in Nat
    BY <1>1, <2>1, Segments DEF LoaderTypes
  <2>4. Down(image.segs[n].pa) \in Nat /\ Down(image.segs[n].off) \in Nat
    BY <2>3, Segments, Rounded
  <2>5. ReadsTo(job', mem', Down(image.segs[n].pa), Down(image.segs[n].off))
    BY <2>1, <2>2, <2>4, ReadsOn DEF BootJob
  <2>6. job'.end_pa = job.end_pa /\ job'.tail = 0
    BY <2>1, <2>2 DEF Took, BootJob
  <2>7. BootJob(job', mem', image.segs[n])
    BY <2>2, <2>5, <2>6 DEF BootJob
  <2>8. ASSUME NEW s \in 1 .. n - 1 PROVE Loaded(mem', image.segs[s])
    <3>1. s \in 1 .. Len(image.segs) /\ s < n /\ Loaded(mem, image.segs[s])
      BY <1>1, <1>4, <2>3 DEF Loading
    <3>2. SegEnd(image.segs[s]) <= Down(image.segs[n].pa)
      BY <2>3, <3>1, Segments
    <3>3. /\ image.segs[s] \in [pa : Nat, off : Nat, filesz : Nat, memsz : Nat]
          /\ image.segs[s].pa \in Nat /\ image.segs[s].memsz \in Nat
          /\ SegEnd(image.segs[s]) \in Nat
          /\ image.segs[s].pa + image.segs[s].memsz <= SegEnd(image.segs[s])
      BY <2>3, <3>1, Segments, SegmentEnd
    <3>4. Down(image.segs[n].pa) <= job.pa /\ job.pa \in Nat
      BY <2>1, <2>2 DEF BootJob, ReadsTo, Jobs
    <3>5. image.segs[s].pa + image.segs[s].memsz <= job.pa
      BY <2>4, <3>2, <3>3, <3>4
    <3> QED
      BY <2>1, <3>1, <3>3, <3>5, LoadedKept
  <2> QED
    BY <2>7, <2>8
<1> QED
  BY <1>1, <1>2, <1>3, <1>4 DEF Loading

\* A sector of the section headers, of the names or of a section.
LEMMA TakeInKernel ==
  ASSUME LoaderInv, TakeSector, InKernel
  PROVE  InTheKernel'
<1>1. InTheKernel /\ LoaderTypes
  BY DEF LoaderInv
<1>2. /\ Took(job, mem, job', mem') /\ Keeps(job, mem, job', mem') /\ job' \in Jobs
      /\ job \in Jobs /\ image \in Images
  BY <1>1, TakeTook DEF LoaderTypes
<1>3. /\ phase' = phase /\ n' = n /\ image' = image /\ names' = names /\ ds_data' = ds_data
      /\ kvoffset' = kvoffset + SECTSIZE
  BY DEF TakeSector, Counted, InKernel
<1>4. kvbase' = kvbase /\ KernelHeld' /\ (TablesHeld => TablesHeld')
  BY <1>1, <1>2, <1>3, SameFile, KernelKept DEF InTheKernel
<1>5. job'.pa = kvbase + kvoffset' /\ job'.pa <= MemTop
  <2>1. job.pa = kvbase + kvoffset /\ job'.pa = job.pa + SECTSIZE /\ job.pa + SECTSIZE <= MemTop
    BY <1>1, <1>2 DEF InTheKernel, Took
  <2>2. kvbase \in Nat /\ kvoffset \in Nat
    BY <1>1, <1>2, KernelEnd DEF LoaderTypes, Whole
  <2> QED
    BY <1>3, <2>1, <2>2, SectorSize
<1>6. phase = "tables" => KernJob(job', mem', kvbase, image.shoff, Len(image.sects) * ENTSIZE)
  <2>1. image.shoff \in Nat /\ Len(image.sects) * ENTSIZE \in Nat
    BY <1>2, Sections
  <2> QED
    BY <1>1, <1>2, <2>1, KernReadsOn DEF InTheKernel
<1>7. ASSUME NEW s \in DOMAIN image.sects, NEW a, SectionJob(job, mem, a, image.sects[s])
      PROVE  SectionJob(job', mem', a, image.sects[s])
  <2>1. image.sects[s].off \in Nat /\ image.sects[s].size \in Nat
    BY <1>2, Sections
  <2> QED
    BY <1>2, <1>7, <2>1, KernReadsOn DEF SectionJob
<1>8. image.magic /\ image.strndx \in DOMAIN image.sects
  BY <1>1, <1>2, Sections DEF InTheKernel
<1>9. phase = "names" => SectionJob(job', mem', names, image.sects[image.strndx])
  BY <1>1, <1>7, <1>8 DEF InTheKernel
<1>10. \A a, g : SectionHeld(job, mem, a, g) => SectionHeld(job', mem', a, g)
  BY <1>1, <1>2, <1>3, KernelKept DEF InTheKernel
<1>11. ASSUME phase \in {"sections", "done"}, NEW s \in 1 .. n, image.sects[s].kind = "debug"
       PROVE  \/ SectionHeld(job', mem', ds_data[s], image.sects[s])
              \/ s = n /\ phase = "sections" /\ SectionJob(job', mem', ds_data[s], image.sects[s])
  <2>1. s \in DOMAIN image.sects
    <3>1. n \in Nat /\ n <= Len(image.sects) /\ Len(image.sects) \in Nat
      BY <1>1, <1>2, <1>11, Sections DEF InTheKernel, LoaderTypes
    <3> QED
      BY <1>2, <3>1, Sections
  <2>2. \/ SectionHeld(job, mem, ds_data[s], image.sects[s])
        \/ s = n /\ phase = "sections" /\ SectionJob(job, mem, ds_data[s], image.sects[s])
    BY <1>1, <1>11 DEF InTheKernel
  <2> QED
    BY <1>7, <1>10, <2>1, <2>2
<1> QED
  BY <1>1, <1>3, <1>4, <1>5, <1>6, <1>8, <1>9, <1>10, <1>11 DEF InTheKernel

\* readsect() takes the sector, in bootmain() and in the kernel.
LEMMA TakeStep == LoaderInv /\ TakeSector => LoaderInv'
<1> SUFFICES ASSUME LoaderInv, TakeSector PROVE LoaderInv'
  OBVIOUS
<1>1. job' \in Jobs /\ Whole(job'.pa) /\ DOMAIN mem' = Memory
  BY TakeTook DEF Took
<1>2. Whole(kvoffset')
  BY WholeSum, WholeSector DEF LoaderInv, LoaderTypes, TakeSector, Counted
<1>3. LoaderTypes'
  BY <1>1, <1>2 DEF LoaderInv, LoaderTypes, TakeSector, InKernel, diskVars
<1>4. SectorAwaited'
  BY DEF LoaderInv, SectorAwaited, TakeSector, diskVars
<1>5. InKernel' = InKernel
  BY DEF TakeSector, InKernel
<1> QED
  BY <1>3, <1>4, <1>5, TakeLoading, TakeInKernel DEF LoaderInv

\* What the steps between two readseg() have in common.
LEMMA Between ==
  ASSUME LoaderInv, ReadsegReturns
  PROVE  /\ Finished(job) /\ image' = image /\ waiting' = FALSE /\ waiting = FALSE
         /\ disk' = "idle" /\ sector' \in Nat /\ ready' \in Nat
         /\ job \in Jobs /\ image \in Images
BY DEF LoaderInv, LoaderTypes, SectorAwaited, ReadsegReturns, Reading, Finished, diskVars

\* The header has been read: the segments are next, if it is a good one.
LEMMA HeaderStep == LoaderInv /\ HeaderRead => LoaderInv'
<1> SUFFICES ASSUME LoaderInv, HeaderRead PROVE LoaderInv'
  OBVIOUS
<1>1. /\ Finished(job) /\ image' = image /\ waiting' = FALSE
      /\ disk' = "idle" /\ sector' \in Nat /\ ready' \in Nat
  BY Between DEF HeaderRead
<1>2. /\ mem' = mem /\ job' = job /\ n' = n /\ kvoffset' = kvoffset /\ names' = names
      /\ ds_data' = ds_data /\ phase = "header"
      /\ phase' \in {"segments", "bad"} /\ (phase' = "segments" => image.magic)
  BY DEF HeaderRead
<1>3. LoaderTypes'
  BY <1>1, <1>2 DEF LoaderInv, LoaderTypes
<1>4. SectorAwaited'
  BY <1>1, <1>2 DEF SectorAwaited
<1>5. ~InKernel /\ ~InKernel'
  BY <1>2 DEF InKernel
<1>6. kvoffset = 0 /\ n = 0
  BY <1>2, <1>5 DEF LoaderInv, Loading
<1>7. Len(image.segs) \in Nat
  BY Segments DEF LoaderInv, LoaderTypes
<1>8. Loading'
  BY <1>1, <1>2, <1>6, <1>7 DEF Loading
<1> QED
  BY <1>3, <1>4, <1>5, <1>8 DEF LoaderInv

\* All segments dealt with are loaded when a readseg() of the loader returns.
LEMMA AllLoaded ==
  ASSUME LoaderInv, ReadsegReturns, phase = "segments"
  PROVE  n \in Nat /\ n <= Len(image.segs) /\ \A s \in 1 .. n : Loaded(mem, image.segs[s])
<1>1. ~InKernel /\ Loading /\ image \in Images /\ job \in Jobs /\ Finished(job)
  BY Between DEF InKernel, LoaderInv
<1>2. n \in Nat /\ n <= Len(image.segs) /\ Len(image.segs) \in Nat
  BY <1>1, Segments DEF LoaderInv, LoaderTypes, Loading
<1>3. ASSUME NEW s \in 1 .. n PROVE Loaded(mem, image.segs[s])
  <2>1. CASE s < n
    BY <1>1, <1>2, <2>1 DEF Loading
  <2>2. CASE s = n
    <3>1. n > 0 /\ n \in 1 .. Len(image.segs)
      BY <1>2, <2>2
    <3>2. BootJob(job, mem, image.segs[n])
      BY <1>1, <3>1 DEF Loading
    <3> QED
      BY <1>1, <2>2, <3>1, <3>2, Segments, SegmentRead
  <2> QED
    BY <1>2, <2>1, <2>2
<1> QED
  BY <1>2, <1>3

\* The segment at work is loaded when bootmain() begins the next.
LEMMA SegmentStep == LoaderInv /\ NextSegment => LoaderInv'
<1> SUFFICES ASSUME LoaderInv, NextSegment PROVE LoaderInv'
  OBVIOUS
<1>1. /\ image' = image /\ waiting' = FALSE /\ image \in Images
      /\ disk' = "idle" /\ sector' \in Nat /\ ready' \in Nat
  BY Between DEF NextSegment
<1>2. /\ mem' = mem /\ kvoffset' = kvoffset /\ names' = names
      /\ ds_data' = ds_data /\ phase = "segments" /\ phase' = phase
      /\ n < Len(image.segs) /\ n' = n + 1
      /\ job' = BootReadseg(image.segs[n'].pa, image.segs[n'].memsz, image.segs[n'].off)
  BY DEF NextSegment
<1>3. n \in Nat /\ \A s \in 1 .. n : Loaded(mem, image.segs[s])
  BY <1>2, AllLoaded DEF NextSegment
<1>4. n' \in 1 .. Len(image.segs) /\ Len(image.segs) \in Nat
  BY <1>1, <1>2, <1>3, Segments
<1>5. image.segs[n'] \in [pa : Nat, off : Nat, filesz : Nat, memsz : Nat]
  BY <1>1, <1>4, Segments
<1>6. job' \in Jobs /\ Whole(job'.pa) /\ BootJob(job', mem', image.segs[n'])
  BY <1>2, <1>5, BootBegins
<1>7. LoaderTypes'
  <2>1. n' \in Nat /\ LoaderTypes
    BY <1>2, <1>3 DEF LoaderInv
  <2> QED
    BY <1>1, <1>2, <1>6, <2>1 DEF LoaderTypes
<1>8. SectorAwaited'
  BY <1>1, <1>2 DEF SectorAwaited
<1>9. ~InKernel /\ ~InKernel' /\ Loading
  BY <1>2 DEF InKernel, LoaderInv
<1>10. \A s \in 1 .. n' - 1 : Loaded(mem', image.segs[s])
  BY <1>2, <1>3
<1>11. Loading'
  BY <1>1, <1>2, <1>4, <1>6, <1>9, <1>10 DEF Loading
<1> QED
  BY <1>7, <1>8, <1>9, <1>11 DEF LoaderInv

(* Clearing the BSS leaves the bytes that the file has for the segments.   *)
LEMMA Cleared ==
  ASSUME image \in Images, NEW m, NEW j, j.pa = kvbase,
         \A s \in 1 .. Len(image.segs) : Loaded(mem, image.segs[s]),
         m = [x \in Memory |-> IF x \in edata .. end - 1 THEN ZERO ELSE mem[x]]
  PROVE  /\ \A s \in DOMAIN image.segs : SegmentHeld(j, m, image.segs[s])
         /\ \A a \in edata .. end - 1 : a \in Memory /\ a < j.pa /\ m[a] = ZERO
<1> DEFINE last == Len(image.segs)
<1>1. /\ kvbase \in Nat /\ kvbase <= MemTop
      /\ edata \in Nat /\ end \in Nat /\ edata <= end /\ end <= kvbase
      /\ LastSeg.pa <= edata /\ DOMAIN image.segs = 1 .. last
  BY KernelEnd, Segments DEF Whole
<1>2. ASSUME NEW s \in DOMAIN image.segs
      PROVE  SegmentHeld(j, m, image.segs[s])
  <2> DEFINE g == image.segs[s]
  <2>1. s \in 1 .. last /\ g \in [pa : Nat, off : Nat, filesz : Nat, memsz : Nat] /\ SegmentOK(g)
    BY <1>1, <1>2, Segments
  <2>2. /\ g.pa \in Nat /\ g.memsz \in Nat /\ g.filesz \in Nat /\ g.filesz <= g.memsz
        /\ g.off \in Nat
        /\ SegEnd(g) \in Nat /\ g.pa + g.memsz <= SegEnd(g)
    BY <2>1, SegmentEnd
  <2>3. g.pa + g.memsz <= kvbase /\ (s < last => SegEnd(g) <= LastSeg.pa)
    BY <2>1, KernelEnd
  <2>4. s = last => edata = g.pa + g.filesz
    BY DEF edata, LastSeg
  <2>5. LastSeg.pa \in Nat /\ last \in Nat
    <3>1. last \in 1 .. last
      BY Segments
    <3> QED
      BY <3>1, Segments DEF LastSeg
  <2>6. Loaded(mem, g)
    BY <2>1
  <2> HIDE DEF g
  <2>7. g.pa + g.filesz <= edata
    <3>1. CASE s < last
      BY SMTT(30), <1>1, <2>2, <2>3, <2>5, <3>1
    <3>2. CASE s = last
      BY <2>2, <2>4, <3>2
    <3>3. s \in Nat /\ s <= last
      BY <2>1, <2>5
    <3>4. s < last \/ s = last
      BY <2>5, <3>3
    <3> QED
      BY <3>1, <3>2, <3>4
  <2>8. ASSUME NEW k \in 0 .. g.filesz - 1
        PROVE  g.pa + k \in Memory /\ g.pa + k < j.pa /\ m[g.pa + k] = g.off + k
    <3> DEFINE x == g.pa + k
    <3>1. x \in g.pa .. g.pa + g.memsz - 1 /\ x - g.pa = k /\ x < edata /\ x < kvbase
      <4>1. k \in Nat /\ k < g.filesz /\ k < g.memsz
        BY <2>2
      <4>2. /\ g.pa \in Nat /\ g.memsz \in Nat /\ g.filesz \in Nat /\ edata \in Nat
            /\ kvbase \in Nat /\ g.pa + g.filesz <= edata /\ g.pa + g.memsz <= kvbase
        BY <1>1, <2>2, <2>3, <2>7
      <4> HIDE DEF last
      <4> QED
        BY SMTT(30), <4>1, <4>2
    <3> HIDE DEF x
    <3>2. x \in Memory /\ mem[x] = g.off + k
      BY <2>6, <3>1 DEF Loaded
    <3>3. x \notin edata .. end - 1
      BY <1>1, <3>1
    <3>4. m[x] = mem[x]
      BY <3>2, <3>3
    <3> QED
      BY <3>1, <3>2, <3>4 DEF x
  <2>9. Held(j, m, g.pa, g.off, g.filesz)
    BY <2>8 DEF Held
  <2> QED
    BY <2>9 DEF SegmentHeld, g
<1>3. ASSUME NEW a \in edata .. end - 1
      PROVE  a \in Memory /\ a < j.pa /\ m[a] = ZERO
  <2>1. a \in Memory /\ a < kvbase
    BY <1>1, <1>3, MemorySize DEF Memory
  <2> QED
    BY <2>1
<1> QED
  BY <1>2, <1>3

\* The kernel is entered with all its segments, and clears its BSS.
LEMMA EnterStep == LoaderInv /\ EnterKernel => LoaderInv'
<1> SUFFICES ASSUME LoaderInv, EnterKernel PROVE LoaderInv'
  OBVIOUS
<1>1. /\ image' = image /\ waiting' = FALSE /\ image \in Images
      /\ disk' = "idle" /\ sector' \in Nat /\ ready' \in Nat
  BY Between DEF EnterKernel
<1>2. /\ kvoffset' = kvoffset /\ names' = names
      /\ ds_data' = ds_data /\ phase = "segments" /\ phase' = "tables"
      /\ n = Len(image.segs) /\ n' = 0
      /\ mem' = [x \in Memory |-> IF x \in edata .. end - 1 THEN ZERO ELSE mem[x]]
      /\ job' = KernReadseg(kvbase, Len(image.sects) * ENTSIZE, image.shoff)
  BY DEF EnterKernel
<1>3. \A s \in 1 .. Len(image.segs) : Loaded(mem, image.segs[s])
  BY <1>2, AllLoaded DEF EnterKernel
<1>4. Whole(kvbase) /\ kvbase <= MemTop
  BY <1>1, KernelEnd
<1>5. image.shoff \in Nat /\ Len(image.sects) * ENTSIZE \in Nat
  BY <1>1, Sections
<1>6. /\ job' \in Jobs /\ job'.pa = kvbase
      /\ KernJob(job', mem', kvbase, image.shoff, Len(image.sects) * ENTSIZE)
  BY <1>2, <1>4, <1>5, KernBegins
<1>7. /\ \A s \in DOMAIN image.segs : SegmentHeld(job', mem', image.segs[s])
      /\ \A a \in edata .. end - 1 : a \in Memory /\ a < job'.pa /\ mem'[a] = ZERO
  BY <1>1, <1>2, <1>3, <1>6, Cleared
<1>8. kvbase' = kvbase /\ edata' = edata /\ end' = end
  BY <1>1, SameFile
<1>9. KernelHeld'
  BY <1>1, <1>7, <1>8 DEF KernelHeld
<1>10. ~InKernel /\ InKernel' /\ Loading
  BY <1>2 DEF InKernel, LoaderInv
<1>11. job'.pa = kvbase' + kvoffset'
  <2>1. kvbase \in Nat /\ kvoffset = 0
    BY <1>4, <1>10 DEF Whole, Loading
  <2> QED
    BY <1>2, <1>6, <1>8, <2>1
<1>12. LoaderTypes'
  BY <1>1, <1>2, <1>4, <1>6, <1>10 DEF LoaderInv, LoaderTypes
<1>13. SectorAwaited'
  BY <1>1, <1>2 DEF SectorAwaited
<1>14. InTheKernel'
  BY <1>1, <1>2, <1>4, <1>6, <1>8, <1>9, <1>10, <1>11 DEF InTheKernel, Loading
<1> QED
  BY <1>10, <1>12, <1>13, <1>14 DEF LoaderInv

\* A section that was being read is there when its readseg() returns.
LEMMA SectionRead ==
  ASSUME NEW j \in Jobs, NEW m, Finished(j), NEW im \in Images, NEW s \in DOMAIN im.sects,
         NEW a, SectionJob(j, m, a, im.sects[s])
  PROVE  SectionHeld(j, m, a, im.sects[s])
<1> DEFINE g == im.sects[s]
           base == a - OFFSET_CORRECT(g.off)
<1>1. g.off \in Nat /\ g.size \in Nat
  BY Sections
<1>2. a \in Nat /\ KernJob(j, m, base, g.off, g.size)
  BY DEF SectionJob
<1>3. base + OFFSET_CORRECT(g.off) = a
  BY SMTT(30), <1>1, <1>2, Rounded
<1> HIDE DEF g, base
<1>4. Held(j, m, base + OFFSET_CORRECT(g.off), g.off, g.size)
  BY <1>1, <1>2, KernRead
<1> QED
  BY <1>3, <1>4 DEF SectionHeld, g

\* The readseg() of a section, which goes behind all that was read before.
LEMMA SectionBegins ==
  ASSUME NEW m, NEW pa, Whole(pa), NEW im \in Images, NEW s \in DOMAIN im.sects
  PROVE  LET j == KernReadseg(pa, im.sects[s].size, im.sects[s].off)
             a == pa + OFFSET_CORRECT(im.sects[s].off)
         IN  j \in Jobs /\ j.pa = pa /\ a \in Nat /\ SectionJob(j, m, a, im.sects[s])
<1> DEFINE g == im.sects[s]
           j == KernReadseg(pa, g.size, g.off)
           a == pa + OFFSET_CORRECT(g.off)
<1>1. g.off \in Nat /\ g.size \in Nat
  BY Sections
<1>2. j \in Jobs /\ j.pa = pa /\ KernJob(j, m, pa, g.off, g.size)
  BY <1>1, KernBegins
<1>3. a \in Nat /\ a - OFFSET_CORRECT(g.off) = pa
  <2>1. OFFSET_CORRECT(g.off) \in Nat /\ pa \in Nat
    BY <1>1, Rounded DEF Whole
  <2> QED
    BY <2>1
<1> HIDE DEF j, a, g
<1>4. SectionJob(j, m, a, g)
  BY <1>2, <1>3 DEF SectionJob
<1> QED
  BY <1>2, <1>3, <1>4 DEF j, a, g

(* In the kernel, a step that begins another readseg() behind all that has *)
(* been read, or none, keeps all that is held.                             *)
LEMMA NextReadseg ==
  ASSUME LoaderInv, InKernel, ReadsegReturns, mem' = mem, kvoffset' = kvoffset,
         job' \in Jobs, job'.pa = job.pa
  PROVE  /\ KernelHeld' /\ (TablesHeld => TablesHeld') /\ kvbase' = kvbase
         /\ job'.pa = kvbase' + kvoffset' /\ job'.pa <= MemTop /\ image.magic
         /\ \A a, g : SectionHeld(job, mem, a, g) => SectionHeld(job', mem', a, g)
<1>1. InTheKernel /\ LoaderTypes /\ image' = image
  BY Between DEF LoaderInv
<1>2. job.pa \in Nat
  BY <1>1 DEF LoaderTypes, Whole
<1>3. Keeps(job, mem, job', mem')
  BY <1>2 DEF Keeps
<1>4. kvbase' = kvbase
  BY <1>1, SameFile
<1> QED
  BY <1>1, <1>3, <1>4, KernelKept DEF InTheKernel

\* The section headers are complete when the names are asked for.
LEMMA NamesStep == LoaderInv /\ ReadNames => LoaderInv'
<1> SUFFICES ASSUME LoaderInv, ReadNames PROVE LoaderInv'
  OBVIOUS
<1> DEFINE k == image.strndx
           pa == kvbase + kvoffset
<1>1. /\ ReadsegReturns /\ InKernel /\ phase = "tables" /\ phase' = "names"
      /\ mem' = mem /\ n' = n /\ kvoffset' = kvoffset /\ ds_data' = ds_data
      /\ job' = KernReadseg(pa, image.sects[k].size, image.sects[k].off)
      /\ names' = pa + OFFSET_CORRECT(image.sects[k].off)
  BY DEF ReadNames, InKernel
<1>2. /\ image' = image /\ waiting' = FALSE /\ image \in Images /\ job \in Jobs
      /\ disk' = "idle" /\ sector' \in Nat /\ ready' \in Nat /\ Finished(job)
  BY <1>1, Between
<1>3. InTheKernel /\ LoaderTypes
  BY <1>1 DEF LoaderInv
<1>4. k \in DOMAIN image.sects
  BY <1>2, <1>3, Sections DEF InTheKernel
<1>5. Whole(pa) /\ job.pa = pa
  BY <1>2, <1>3, KernelEnd, WholeSum DEF LoaderTypes, InTheKernel
<1> HIDE DEF pa
<1>6. /\ job' \in Jobs /\ job'.pa = pa /\ names' \in Nat
      /\ SectionJob(job', mem', names', image.sects[k])
  BY <1>1, <1>2, <1>4, <1>5, SectionBegins
<1>7. TablesHeld
  <2>1. image.shoff \in Nat /\ Len(image.sects) * ENTSIZE \in Nat
    BY <1>2, Sections
  <2> QED
    BY <1>1, <1>2, <1>3, <2>1, KernRead DEF InTheKernel, TablesHeld
<1>8. /\ KernelHeld' /\ TablesHeld' /\ kvbase' = kvbase
      /\ job'.pa = kvbase' + kvoffset' /\ job'.pa <= MemTop /\ image.magic
  BY <1>1, <1>5, <1>6, <1>7, NextReadseg
<1>9. LoaderTypes'
  BY <1>1, <1>2, <1>3, <1>5, <1>6 DEF LoaderTypes, InKernel
<1>10. SectorAwaited' /\ InKernel'
  BY <1>1, <1>2 DEF SectorAwaited, InKernel
<1>11. InTheKernel'
  BY <1>1, <1>2, <1>3, <1>6, <1>8 DEF InTheKernel
<1> QED
  BY <1>9, <1>10, <1>11 DEF LoaderInv

\* The names are complete when the sections are looked at.
LEMMA NamesReadStep == LoaderInv /\ NamesRead => LoaderInv'
<1> SUFFICES ASSUME LoaderInv, NamesRead PROVE LoaderInv'
  OBVIOUS
<1>1. /\ ReadsegReturns /\ InKernel /\ phase = "names" /\ phase' = "sections"
      /\ mem' = mem /\ n' = n /\ kvoffset' = kvoffset /\ ds_data' = ds_data
      /\ job' = job /\ names' = names
  BY DEF NamesRead, InKernel
<1>2. /\ image' = image /\ waiting' = FALSE /\ image \in Images /\ job \in Jobs
      /\ disk' = "idle" /\ sector' \in Nat /\ ready' \in Nat /\ Finished(job)
  BY <1>1, Between
<1>3. InTheKernel /\ LoaderTypes /\ n = 0 /\ Len(image.sects) \in Nat
  BY <1>1, <1>2, Sections DEF LoaderInv, InTheKernel
<1>4. image.strndx \in DOMAIN image.sects
  BY <1>2, <1>3, Sections DEF InTheKernel
<1>5. SectionHeld(job', mem', names', image.sects[image.strndx])
  BY <1>1, <1>2, <1>3, <1>4, SectionRead DEF InTheKernel
<1>6. /\ KernelHeld' /\ (TablesHeld => TablesHeld') /\ kvbase' = kvbase
      /\ job'.pa = kvbase' + kvoffset' /\ job'.pa <= MemTop /\ image.magic
  BY <1>1, <1>2, NextReadseg
<1>7. LoaderTypes'
  BY <1>1, <1>2, <1>3 DEF LoaderTypes, InKernel
<1>8. SectorAwaited' /\ InKernel'
  BY <1>1, <1>2 DEF SectorAwaited, InKernel
<1>9. InTheKernel'
  BY <1>1, <1>2, <1>3, <1>5, <1>6 DEF InTheKernel
<1> QED
  BY <1>7, <1>8, <1>9 DEF LoaderInv

\* Every debug section dealt with is there when a readseg() returns.
LEMMA AllRead ==
  ASSUME LoaderInv, ReadsegReturns, phase = "sections"
  PROVE  /\ n \in Nat /\ n <= Len(image.sects)
         /\ \A s \in 1 .. n : image.sects[s].kind = "debug" =>
              SectionHeld(job, mem, ds_data[s], image.sects[s])
<1>1. InKernel /\ InTheKernel /\ image \in Images /\ job \in Jobs /\ Finished(job)
  BY Between DEF InKernel, LoaderInv
<1>2. n \in Nat /\ n <= Len(image.sects) /\ Len(image.sects) \in Nat
      /\ DOMAIN image.sects = 1 .. Len(image.sects)
  BY <1>1, Sections DEF LoaderInv, LoaderTypes, InTheKernel
<1>3. ASSUME NEW s \in 1 .. n, image.sects[s].kind = "debug"
      PROVE  SectionHeld(job, mem, ds_data[s], image.sects[s])
  <2>1. s \in DOMAIN image.sects
    BY <1>2
  <2>2. \/ SectionHeld(job, mem, ds_data[s], image.sects[s])
        \/ SectionJob(job, mem, ds_data[s], image.sects[s])
    BY <1>1, <1>3 DEF InTheKernel
  <2> QED
    BY <1>1, <2>1, <2>2, SectionRead
<1> QED
  BY <1>2, <1>3

\* The last section is complete when read_section_headers() returns.
LEMMA SectionsReadStep == LoaderInv /\ SectionsRead => LoaderInv'
<1> SUFFICES ASSUME LoaderInv, SectionsRead PROVE LoaderInv'
  OBVIOUS
<1>1. /\ ReadsegReturns /\ InKernel /\ phase = "sections" /\ phase' = "done"
      /\ mem' = mem /\ n' = n /\ kvoffset' = kvoffset /\ ds_data' = ds_data
      /\ job' = job /\ names' = names /\ n = Len(image.sects)
  BY DEF SectionsRead, InKernel
<1>2. /\ image' = image /\ waiting' = FALSE /\ image \in Images /\ job \in Jobs
      /\ disk' = "idle" /\ sector' \in Nat /\ ready' \in Nat
  BY <1>1, Between
<1>3. InTheKernel /\ LoaderTypes
  BY <1>1 DEF LoaderInv
<1>4. \A s \in 1 .. n : image.sects[s].kind = "debug" =>
        SectionHeld(job, mem, ds_data[s], image.sects[s])
  BY <1>1, AllRead
<1>5. /\ KernelHeld' /\ kvbase' = kvbase
      /\ job'.pa = kvbase' + kvoffset' /\ job'.pa <= MemTop /\ image.magic
  BY <1>1, <1>2, NextReadseg
<1>6. LoaderTypes'
  BY <1>1, <1>2, <1>3 DEF LoaderTypes, InKernel
<1>7. SectorAwaited' /\ InKernel'
  BY <1>1, <1>2 DEF SectorAwaited, InKernel
<1>8. n' <= Len(image'.sects)
  BY <1>1, <1>2, Sections
<1>9. InTheKernel'
  BY <1>1, <1>2, <1>4, <1>5, <1>8 DEF InTheKernel
<1> QED
  BY <1>6, <1>7, <1>9 DEF LoaderInv

\* The section at work is complete when the next is looked at.
LEMMA SectionStep == LoaderInv /\ NextSection => LoaderInv'
<1> SUFFICES ASSUME LoaderInv, NextSection PROVE LoaderInv'
  OBVIOUS
<1> DEFINE k == n + 1
           pa == kvbase + kvoffset
<1>1. /\ ReadsegReturns /\ InKernel /\ phase = "sections" /\ phase' = "sections"
      /\ mem' = mem /\ n' = k /\ kvoffset' = kvoffset /\ names' = names
      /\ n < Len(image.sects)
  BY DEF NextSection, InKernel
<1>2. /\ image' = image /\ waiting' = FALSE /\ image \in Images /\ job \in Jobs
      /\ disk' = "idle" /\ sector' \in Nat /\ ready' \in Nat
  BY <1>1, Between
<1>3. InTheKernel /\ LoaderTypes
  BY <1>1 DEF LoaderInv
<1>4. /\ n \in Nat /\ k \in Nat /\ k \in DOMAIN image.sects /\ k <= Len(image.sects)
      /\ DOMAIN ds_data = DOMAIN image.sects
  BY <1>1, <1>2, <1>3, Sections DEF LoaderTypes
<1>5. Whole(pa) /\ job.pa = pa
  BY <1>2, <1>3, KernelEnd, WholeSum DEF LoaderTypes, InTheKernel
<1>6. \A s \in 1 .. n : image.sects[s].kind = "debug" =>
        SectionHeld(job, mem, ds_data[s], image.sects[s])
  BY <1>1, AllRead
<1>7. \/ /\ job' = KernReadseg(pa, image.sects[k].size, image.sects[k].off)
         /\ ds_data' = [ds_data EXCEPT ![k] = pa + OFFSET_CORRECT(image.sects[k].off)]
      \/ /\ image.sects[k].kind = "frame" /\ job' = job
         /\ ds_data' = [ds_data EXCEPT ![k] = image.sects[k].addr]
      \/ image.sects[k].kind = "other" /\ job' = job /\ ds_data' = ds_data
  BY <1>1 DEF NextSection
<1> HIDE DEF pa
<1>8. /\ job' \in Jobs /\ job'.pa = job.pa /\ DOMAIN ds_data' = DOMAIN ds_data
      /\ \A s \in DOMAIN ds_data : s # k => ds_data'[s] = ds_data[s]
      /\ ds_data'[k] \in Nat \cup {NULL}
      /\ image.sects[k].kind = "debug" => SectionJob(job', mem', ds_data'[k], image.sects[k])
  <2> HIDE DEF k
  <2>1. CASE /\ job' = KernReadseg(pa, image.sects[k].size, image.sects[k].off)
             /\ ds_data' = [ds_data EXCEPT ![k] = pa + OFFSET_CORRECT(image.sects[k].off)]
    <3> DEFINE a == pa + OFFSET_CORRECT(image.sects[k].off)
    <3>1. job' \in Jobs /\ job'.pa = pa /\ a \in Nat /\ SectionJob(job', mem', a, image.sects[k])
      BY <1>2, <1>4, <1>5, <2>1, SectionBegins
    <3>2. ds_data' = [ds_data EXCEPT ![k] = a]
      BY <2>1
    <3> HIDE DEF a
    <3>3. ds_data'[k] = a
      BY <1>4, <3>2
    <3> QED
      BY <1>4, <1>5, <3>1, <3>2, <3>3
  <2>2. CASE /\ image.sects[k].kind = "frame" /\ job' = job
             /\ ds_data' = [ds_data EXCEPT ![k] = image.sects[k].addr]
    <3>1. image.sects[k].addr \in Nat /\ image.sects[k].kind # "debug"
      BY <1>2, <1>4, <2>2, Sections
    <3> QED
      BY <1>2, <1>4, <2>2, <3>1
  <2>3. CASE image.sects[k].kind = "other" /\ job' = job /\ ds_data' = ds_data
    BY <1>2, <1>3, <1>4, <2>3 DEF LoaderTypes
  <2> QED
    BY <1>7, <2>1, <2>2, <2>3
<1>9. /\ KernelHeld' /\ (TablesHeld => TablesHeld') /\ kvbase' = kvbase
      /\ job'.pa = kvbase' + kvoffset' /\ job'.pa <= MemTop /\ image.magic
      /\ \A a, g : SectionHeld(job, mem, a, g) => SectionHeld(job', mem', a, g)
  BY <1>1, <1>8, NextReadseg
<1>10. LoaderTypes'
  <2>1. \A s \in DOMAIN ds_data' : ds_data'[s] \in Nat \cup {NULL}
    BY <1>3, <1>8 DEF LoaderTypes
  <2> QED
    BY <1>1, <1>2, <1>3, <1>4, <1>5, <1>8, <2>1 DEF LoaderTypes, InKernel
<1>11. SectorAwaited' /\ InKernel'
  BY <1>1, <1>2 DEF SectorAwaited, InKernel
<1>12. ASSUME NEW s \in 1 .. k, image.sects[s].kind = "debug"
       PROVE  \/ SectionHeld(job', mem', ds_data'[s], image.sects[s])
              \/ s = k /\ SectionJob(job', mem', ds_data'[s], image.sects[s])
  <2>1. CASE s = k
    BY <1>8, <1>12, <2>1
  <2>2. CASE s # k
    <3>1. s \in 1 .. n
      BY <1>4, <2>2
    <3>2. s \in DOMAIN ds_data
      BY <1>2, <1>4, <3>1, Sections
    <3>3. ds_data'[s] = ds_data[s]
      BY <1>8, <2>2, <3>2
    <3> QED
      BY <1>6, <1>9, <1>12, <3>1, <3>3
  <2> QED
    BY <2>1, <2>2
<1>13. SectionHeld(job', mem', names', image.sects[image.strndx]) /\ TablesHeld'
  BY <1>1, <1>3, <1>9 DEF InTheKernel
<1> HIDE DEF k
<1>14. InTheKernel'
  BY <1>1, <1>2, <1>4, <1>9, <1>12, <1>13 DEF InTheKernel
<1> QED
  BY <1>10, <1>11, <1>14 DEF LoaderInv

---------------------------------------------------------------------------
\* All steps of the machine together.

\* Every step of the machine keeps the loader's invariant.
LEMMA LoaderStep == LoaderInv /\ [BootNext]_allVars => LoaderInv'
<1> SUFFICES ASSUME LoaderInv, [BootNext]_allVars PROVE LoaderInv'
  OBVIOUS
<1>1. Next \/ UNCHANGED vars
  BY DEF BootNext, Processor, CallEntry, StoreWraps, RunLoader, Next, allVars
<1>2. CASE UNCHANGED vars
  <2>1. UNCHANGED restVars /\ disk' = disk /\ sector' = sector /\ ready' = ready
        /\ waiting' = waiting
    BY <1>2 DEF vars, restVars, diskVars
  <2>2. LoaderTypes'
    BY <2>1 DEF LoaderInv, LoaderTypes, restVars, InKernel
  <2>3. SectorAwaited'
    BY <2>1 DEF LoaderInv, SectorAwaited, restVars
  <2> QED
    BY <2>1, <2>2, <2>3, RestKept DEF LoaderInv
<1>3. CASE Next
  BY <1>3, AskStep, TakeStep, HeaderStep, SegmentStep, EnterStep, NamesStep, NamesReadStep,
     SectionStep, SectionsReadStep, DiskStep DEF Next, Kernel
<1> QED
  BY <1>1, <1>2, <1>3

(* The loader's invariant holds from power-on, whatever the machine.       *)
LEMMA LoaderInvariant == BootSpec => []LoaderInv
<1>1. BootInit => LoaderInv
  BY LoaderStart DEF BootInit
<1> QED
  BY <1>1, LoaderStep, PTL DEF BootSpec

(* Types, and the assertions of readseg() in kern/elf_rw.c: the address it *)
(* is given and what it has read are whole sectors, in every call.         *)
THEOREM LoaderTypeCorrect == BootSpec => []TypeOK
<1>1. LoaderInv => TypeOK
  <2> SUFFICES ASSUME LoaderInv PROVE TypeOK
    OBVIOUS
  <2>1. LoaderTypes /\ image \in Images
    BY DEF LoaderInv, LoaderTypes
  <2> DEFINE p == Len(image.segs)
             q == Len(image.sects)
             v == kvbase
  <2>2. p \in Nat /\ p > 0 /\ q \in Nat
    BY <2>1, Segments, Sections
  <2>3. n \in 0 .. p + q /\ v + kvoffset <= MemTop
    <3>1. n \in Nat /\ v \in Nat /\ v <= MemTop /\ MemTop \in Nat
      BY <2>1, KernelEnd, MemorySize DEF LoaderTypes, Whole
    <3>2. CASE ~InKernel
      <4>1. kvoffset = 0 /\ n <= p
        BY <2>2, <3>1, <3>2 DEF LoaderInv, Loading
      <4> HIDE DEF p, q, v
      <4>2. n \in 0 .. p + q
        BY <2>2, <3>1, <4>1
      <4> QED
        BY <3>1, <4>1, <4>2
    <3>3. CASE InKernel
      <4>1. v + kvoffset <= MemTop /\ n <= q
        BY <2>2, <3>1, <3>3 DEF LoaderInv, InTheKernel, InKernel
      <4> HIDE DEF p, q, v
      <4>2. n \in 0 .. p + q
        BY <2>2, <3>1, <4>1
      <4> QED
        BY <4>1, <4>2
    <3> QED
      BY <3>2, <3>3
  <2> QED
    BY <2>1, <2>3 DEF LoaderTypes, TypeOK, Jobs, Whole
<1> QED
  BY <1>1, LoaderInvariant, PTL

(* From its first instruction to its monitor the kernel has all its bytes  *)
(* and a clear BSS, for every file whose segments have sectors of their    *)
(* own: bootmain() does not damage a segment when it rounds the next one   *)
(* down, and read_section_headers() writes behind the kernel only.         *)
THEOREM KernelStaysIntact == BootSpec => []KernelIntact
<1>1. LoaderInv => KernelIntact
  BY DEF LoaderInv, InTheKernel, KernelHeld, SegmentHeld, Held, KernelIntact, HoldsAt
<1> QED
  BY <1>1, LoaderInvariant, PTL

(* read_section_headers() uses section headers and names that are complete *)
(* and that no later readseg() runs over.                                  *)
THEOREM TablesStayIntact == BootSpec => []TablesIntact
<1>1. LoaderInv => TablesIntact
  BY DEF LoaderInv, InKernel, InTheKernel, TablesHeld, SectionHeld, Held, TablesIntact, HoldsAt
<1> QED
  BY <1>1, LoaderInvariant, PTL

(* Every debug section is whole where section_info says, wherever it lies  *)
(* in its sectors and however long it is: the one sector more of readseg() *)
(* is always enough.                                                       *)
THEOREM DebugSectionsReadable == BootSpec => []SectionsReadable
<1>1. LoaderInv => SectionsReadable
  <2> SUFFICES ASSUME LoaderInv, phase = "done", NEW s \in DOMAIN image.sects,
                      image.sects[s].kind = "debug"
               PROVE  HoldsAt(ds_data[s], image.sects[s].off, image.sects[s].size)
    BY DEF SectionsReadable
  <2>1. InTheKernel /\ image \in Images
    BY DEF LoaderInv, InKernel, LoaderTypes
  <2>2. s \in 1 .. n
    BY <2>1, Sections DEF InTheKernel
  <2>3. SectionHeld(job, mem, ds_data[s], image.sects[s])
    BY <2>1, <2>2 DEF InTheKernel
  <2> QED
    BY <2>3 DEF SectionHeld, Held, HoldsAt
<1> QED
  BY <1>1, LoaderInvariant, PTL

---------------------------------------------------------------------------
\* Address line 20.

(* While the second wait is on, the controller has the command or has      *)
(* taken it, so that with an empty buffer it is the byte it waits for.     *)
A20Inv ==
  /\ stage = "a20data" => port = "d1" \/ (port = "none" /\ port_cmd)
  /\ A20Commanded

\* The keyboard controller takes a byte, while a wait is on or later.
LEMMA ControllerStep == A20Inv /\ ControllerTakes => A20Inv'
<1> SUFFICES ASSUME A20Inv, ControllerTakes PROVE A20Inv'
  OBVIOUS
<1>1. port # "none" /\ port' = "none" /\ stage' = stage
  BY DEF ControllerTakes
<1>2. (port = "d1" => port_cmd') /\ (a20 => a20') /\ (port = "df" /\ port_cmd => a20')
  BY DEF ControllerTakes
<1> QED
  BY <1>1, <1>2 DEF A20Inv, A20Commanded

\* Every step of the machine keeps the order of command and data byte.
LEMMA A20Step == A20Inv /\ [BootNext]_allVars => A20Inv'
<1> SUFFICES ASSUME A20Inv, [BootNext]_allVars PROVE A20Inv'
  OBVIOUS
<1> USE DEF A20Inv, A20Commanded
<1>1. CASE ControllerTakes
  BY <1>1, ControllerStep
<1>2. CASE SetA20Command
  BY <1>2 DEF SetA20Command
<1>3. CASE SetA20Data
  BY <1>3 DEF SetA20Data
<1>4. CASE CallEntry \/ StoreWraps \/ RunLoader \/ Head64 \/ do_e820 \/ next_entry \/ MapDone \/ failed
  <2>1. port' = port /\ port_cmd' = port_cmd /\ a20' = a20 /\ stage \notin {"a20cmd", "a20data"}
    BY <1>4 DEF CallEntry, StoreWraps, LineShut, RunLoader, Head64, verify_cpu, ClearTables,
                LinkTables, MapPage, PagesMapped, EnablePaging, do_e820, next_entry, MapDone,
                failed, a20Vars
  <2>2. stage' # "a20data"
    BY <1>4 DEF CallEntry, StoreWraps, RunLoader, Head64, verify_cpu, ClearTables, LinkTables,
                MapPage, PagesMapped, EnablePaging, do_e820, next_entry, MapDone, failed
  <2> QED
    BY <2>1, <2>2
<1>5. CASE UNCHANGED bootVars
  BY <1>5 DEF bootVars, a20Vars
<1> QED
  BY <1>1, <1>2, <1>3, <1>4, <1>5 DEF BootNext, Processor, BootSector, allVars

(* Neither byte is lost, whenever the controller takes them and whatever   *)
(* it had before: the second wait keeps the data byte from taking the      *)
(* place of the command, and nothing is written to it afterwards.          *)
THEOREM A20StaysCommanded == BootSpec => []A20Commanded
<1>1. BootInit => A20Inv
  BY DEF BootInit, BootstrapInit, A20Inv, A20Commanded
<1>2. A20Inv => A20Commanded
  BY DEF A20Inv
<1> QED
  BY <1>1, <1>2, A20Step, PTL DEF BootSpec

---------------------------------------------------------------------------
\* The page tables.

\* The sizes of the page tables, from the assumptions.
LEMMA TableSize ==
  /\ TABLE \in Nat /\ TABLE > 1 /\ NPAGES \in Nat /\ KERNPDE \in Nat
  /\ KERNPDE + NPAGES <= TABLE
BY BootstrapAssumption

\* The upper tables lead to pde1 and pde2.
TablesLinked(t) ==
  /\ t["pml4"][0] = To("pdpt1") /\ t["pml4"][1] = To("pdpt2")
  /\ t["pdpt1"][0] = To("pde1") /\ t["pdpt2"][0] = To("pde2")

\* Pages 0 to count - 1 are mapped, twice.
Mapped(t, count) ==
  \A p \in 0 .. count - 1 : t["pde1"][p] = Page(p) /\ t["pde2"][KERNPDE + p] = Page(p)

MapInv ==
  /\ i \in 0 .. NPAGES
  /\ DOMAIN tables = Tables /\ \A t \in Tables : DOMAIN tables[t] = Index
  /\ stage \notin {"pages", "paging", "entry", "kernel", "reset"} => i = 0
  /\ stage \in {"pages", "paging", "entry", "kernel"} =>
       TablesLinked(tables) /\ Mapped(tables, i)
  /\ stage \in {"paging", "entry", "kernel"} => i = NPAGES

\* All entries of the tables are cleared.
LEMMA ClearStep == MapInv /\ ClearTables => MapInv'
BY TableSize DEF MapInv, ClearTables, tableVars

\* The upper tables are linked; none of the entries is overwritten.
LEMMA LinkStep == MapInv /\ LinkTables => MapInv'
<1> SUFFICES ASSUME MapInv, LinkTables PROVE MapInv'
  OBVIOUS
<1> USE DEF Tables
<1>1. /\ tables' = [tables EXCEPT
                      !["pml4"] = [@ EXCEPT ![0] = To("pdpt1"), ![1] = To("pdpt2")],
                      !["pdpt1"] = [@ EXCEPT ![0] = To("pde1")],
                      !["pdpt2"] = [@ EXCEPT ![0] = To("pde2")]]
      /\ stage = "link" /\ stage' = "pages" /\ i' = i /\ i = 0
  BY DEF MapInv, LinkTables
<1>2. 0 \in Index /\ 1 \in Index /\ NPAGES \in Nat
  BY TableSize DEF Index
<1>3. DOMAIN tables = Tables /\ \A t \in Tables : DOMAIN tables[t] = Index
  BY DEF MapInv
<1>4. /\ tables'["pml4"] = [tables["pml4"] EXCEPT ![0] = To("pdpt1"), ![1] = To("pdpt2")]
      /\ tables'["pdpt1"] = [tables["pdpt1"] EXCEPT ![0] = To("pde1")]
      /\ tables'["pdpt2"] = [tables["pdpt2"] EXCEPT ![0] = To("pde2")]
      /\ tables'["pde1"] = tables["pde1"] /\ tables'["pde2"] = tables["pde2"]
      /\ DOMAIN tables' = Tables
  BY <1>1, <1>3
<1>5. \A t \in Tables : DOMAIN tables'[t] = Index
  BY <1>3, <1>4
<1>6. TablesLinked(tables')
  BY <1>2, <1>3, <1>4 DEF TablesLinked
<1>7. Mapped(tables', i')
  BY <1>1 DEF Mapped
<1> QED
  BY <1>1, <1>2, <1>4, <1>5, <1>6, <1>7 DEF MapInv

\* One more page is mapped, the ones before it stay mapped.
LEMMA PageStep == MapInv /\ MapPage => MapInv'
<1> SUFFICES ASSUME MapInv, MapPage PROVE MapInv'
  OBVIOUS
<1> USE DEF Tables
<1>1. /\ tables' = [tables EXCEPT !["pde1"] = [@ EXCEPT ![i] = Page(i)],
                                  !["pde2"] = [@ EXCEPT ![KERNPDE + i] = Page(i)]]
      /\ stage = "pages" /\ stage' = "pages" /\ i' = i + 1 /\ i < NPAGES
  BY DEF MapPage
<1>2. /\ DOMAIN tables = Tables /\ \A t \in Tables : DOMAIN tables[t] = Index
      /\ i \in Nat /\ i + 1 \in 0 .. NPAGES
  BY <1>1, TableSize DEF MapInv
<1>3. i \in Index /\ KERNPDE + i \in Index
  BY <1>1, <1>2, TableSize DEF Index
<1>4. /\ tables'["pde1"] = [tables["pde1"] EXCEPT ![i] = Page(i)]
      /\ tables'["pde2"] = [tables["pde2"] EXCEPT ![KERNPDE + i] = Page(i)]
      /\ tables'["pml4"] = tables["pml4"] /\ tables'["pdpt1"] = tables["pdpt1"]
      /\ tables'["pdpt2"] = tables["pdpt2"] /\ DOMAIN tables' = Tables
  BY <1>1, <1>2
<1>5. \A t \in Tables : DOMAIN tables'[t] = Index
  BY <1>2, <1>4
<1>6. TablesLinked(tables')
  BY <1>1, <1>4 DEF TablesLinked, MapInv
<1>7. ASSUME NEW p \in 0 .. i
      PROVE  tables'["pde1"][p] = Page(p) /\ tables'["pde2"][KERNPDE + p] = Page(p)
  <2>1. CASE p = i
    BY <1>2, <1>3, <1>4, <2>1
  <2>2. CASE p # i
    <3>1. p \in 0 .. i - 1 /\ KERNPDE + p # KERNPDE + i
      BY <1>2, <2>2, TableSize
    <3>2. tables["pde1"][p] = Page(p) /\ tables["pde2"][KERNPDE + p] = Page(p)
      BY <1>1, <3>1 DEF MapInv, Mapped
    <3>3. p \in Index /\ KERNPDE + p \in Index
      BY <1>1, <1>2, <3>1, TableSize DEF Index
    <3> QED
      BY <1>2, <1>4, <2>2, <3>1, <3>2, <3>3
  <2> QED
    BY <2>1, <2>2
<1>8. Mapped(tables', i')
  BY <1>1, <1>2, <1>7 DEF Mapped
<1> QED
  BY <1>1, <1>2, <1>4, <1>5, <1>6, <1>8 DEF MapInv

\* Every step of the machine keeps the invariant of the tables.
LEMMA MapStep == MapInv /\ [BootNext]_allVars => MapInv'
<1> SUFFICES ASSUME MapInv, [BootNext]_allVars PROVE MapInv'
  OBVIOUS
<1>1. CASE ClearTables \/ LinkTables \/ MapPage
  BY <1>1, ClearStep, LinkStep, PageStep
<1>2. CASE PagesMapped
  BY <1>2 DEF PagesMapped, MapInv, tableVars
<1>3. CASE EnablePaging
  BY <1>3 DEF EnablePaging, MapInv, tableVars
<1>4. CASE RunLoader
  <2>1. tables' = tables /\ i' = i
    BY <1>4 DEF RunLoader, tableVars
  <2>2. stage' = stage \/ (stage = "entry" /\ stage' = "kernel")
    BY <1>4 DEF RunLoader
  <2> QED
    BY <2>1, <2>2 DEF MapInv
<1>5. CASE BootSector \/ verify_cpu \/ CallEntry \/ StoreWraps
  <2>1. tables' = tables /\ i' = i
    BY <1>5 DEF BootSector, SetA20Command, SetA20Data, do_e820, next_entry, MapDone, failed,
                verify_cpu, CallEntry, StoreWraps, LineShut, tableVars
  <2>2. /\ stage \notin {"pages", "paging", "entry", "kernel", "reset"}
        /\ stage' \notin {"pages", "paging", "entry", "kernel"}
    BY <1>5 DEF BootSector, SetA20Command, SetA20Data, do_e820, next_entry, MapDone, failed,
                verify_cpu, CallEntry, StoreWraps, LineShut
  <2> QED
    BY <2>1, <2>2 DEF MapInv
<1>6. CASE ControllerTakes \/ UNCHANGED bootVars
  <2>1. tables' = tables /\ i' = i /\ stage' = stage
    BY <1>6 DEF ControllerTakes, bootVars, tableVars
  <2> QED
    BY <2>1 DEF MapInv
<1> QED
  BY <1>1, <1>2, <1>3, <1>4, <1>5, <1>6 DEF BootNext, Processor, Head64, allVars

\* Division, said with the quotient and the rest.
LEMMA Divided ==
  ASSUME NEW c \in Nat \ {0}, NEW q \in Nat, NEW r \in 0 .. c - 1, NEW v, v = q * c + r
  PROVE  v \div c = q /\ v % c = r
<1>1. q * c \in Nat
  OBVIOUS
<1>2. v \in Nat
  BY <1>1
<1> QED
  BY <1>1, <1>2

\* The two ways to a page of less than a table.
LEMMA Indices ==
  ASSUME NEW x \in 0 .. TABLE - 1
  PROVE  /\ x \div (TABLE * TABLE) = 0 /\ (x \div TABLE) % TABLE = 0 /\ x % TABLE = x
         /\ LET v == TABLE * TABLE + x
            IN  v \div (TABLE * TABLE) = 1 /\ (v \div TABLE) % TABLE = 0 /\ v % TABLE = x
<1> DEFINE c == TABLE
           d == c * c
           v == d + x
<1>1. c \in Nat \ {0} /\ c > 1 /\ x \in 0 .. c - 1
  BY TableSize
<1> HIDE DEF c
<1>2. d \in Nat \ {0} /\ c <= d
  BY <1>1
<1>3. c * c = d
  OBVIOUS
<1> HIDE DEF d
<1>4. x \in 0 .. d - 1 /\ x = 0 * d + x /\ v = 1 * d + x
  BY <1>1, <1>2
<1>5. x \div d = 0 /\ v \div d = 1
  BY <1>2, <1>4, Divided
<1>6. x = 0 * c + x /\ v = c * c + x
  BY <1>1, <1>3
<1> HIDE DEF v
<1>7. x \div c = 0 /\ x % c = x /\ v \div c = c /\ v % c = x
  <2>1. x \div c = 0 /\ x % c = x
    BY <1>1
  <2>2. v \div c = c /\ v % c = x
    BY <1>1, <1>6, Divided
  <2> QED
    BY <2>1, <2>2
<1>8. 0 \in 0 .. c - 1 /\ c = 1 * c + 0 /\ 0 = 0 * c + 0
  BY <1>1
<1>9. 0 % c = 0 /\ c % c = 0
  BY <1>1, <1>8, Divided
<1> QED
  BY <1>5, <1>7, <1>9 DEF c, d, v

\* The page that an address lies in.
LEMMA PageOf ==
  ASSUME NEW a \in Nat, a < NPAGES * PAGE
  PROVE  a \div PAGE \in 0 .. NPAGES - 1
<1> DEFINE q == a \div PAGE
           r == a % PAGE
<1>1. PAGE \in Nat \ {0} /\ NPAGES \in Nat
  BY BootAssumption, TableSize
<1>2. q \in Nat /\ r \in 0 .. PAGE - 1 /\ a = q * PAGE + r
  BY <1>1
<1> HIDE DEF q, r
<1>3. ASSUME q >= NPAGES PROVE FALSE
  <2>1. q * PAGE >= NPAGES * PAGE
    BY <1>1, <1>2, <1>3
  <2>2. q * PAGE \in Nat /\ NPAGES * PAGE \in Nat
    BY <1>1, <1>2
  <2> QED
    BY <1>2, <2>1, <2>2
<1>4. q \in 0 .. NPAGES - 1
  BY <1>1, <1>2, <1>3
<1> QED
  BY <1>4 DEF q

\* One level of the translation.
Step(e, x) == IF e # ABSENT /\ e[1] = "table" THEN tables[e[2]][x] ELSE ABSENT

\* The translation is two levels from the entry of pml4.
LEMMA WalkSteps ==
  ASSUME NEW v
  PROVE  Walk(v) = Step(Step(tables["pml4"][v \div (TABLE * TABLE)], (v \div TABLE) % TABLE),
                        v % TABLE)
BY Zenon DEF Walk, Step

\* An entry that leads to a table.
LEMMA StepTo ==
  ASSUME NEW t, NEW x
  PROVE  Step(To(t), x) = tables[t][x]
<1>1. To(t) # ABSENT /\ To(t)[1] = "table" /\ To(t)[2] = t
  BY DEF To, ABSENT
<1> QED
  BY <1>1 DEF Step

\* What the processor finds for a page that is mapped.
LEMMA Walks ==
  ASSUME TablesLinked(tables), NEW p \in 0 .. NPAGES - 1,
         tables["pde1"][p] = Page(p), tables["pde2"][KERNPDE + p] = Page(p)
  PROVE  Walk(p) = Page(p) /\ Walk(KernPage + p) = Page(p)
<1> DEFINE T == TABLE
           x == KERNPDE + p
           v == T * T + x
<1>1. p \in 0 .. T - 1 /\ x \in 0 .. T - 1 /\ KernPage + p = v
  BY TableSize DEF KernPage
<1>2. /\ p \div (T * T) = 0 /\ (p \div T) % T = 0 /\ p % T = p
      /\ v \div (T * T) = 1 /\ (v \div T) % T = 0 /\ v % T = x
  BY <1>1, Indices
<1> HIDE DEF T, x, v
<1>3. /\ tables["pml4"][0] = To("pdpt1") /\ tables["pml4"][1] = To("pdpt2")
      /\ tables["pdpt1"][0] = To("pde1") /\ tables["pdpt2"][0] = To("pde2")
      /\ tables["pde2"][x] = Page(p)
  BY DEF TablesLinked, x
<1>4. Walk(p) = Page(p)
  <2>1. Walk(p) = Step(Step(tables["pml4"][0], 0), p)
    BY <1>2, WalkSteps, Zenon DEF T
  <2>2. Step(To("pdpt1"), 0) = To("pde1") /\ Step(To("pde1"), p) = tables["pde1"][p]
    BY <1>3, StepTo
  <2> QED
    BY <1>3, <2>1, <2>2
<1>5. Walk(v) = Page(p)
  <2>1. Walk(v) = Step(Step(tables["pml4"][1], 0), x)
    BY <1>2, WalkSteps, Zenon DEF T
  <2>2. Step(To("pdpt2"), 0) = To("pde2") /\ Step(To("pde2"), x) = tables["pde2"][x]
    BY <1>3, StepTo
  <2> QED
    BY <1>3, <2>1, <2>2
<1> QED
  BY <1>1, <1>4, <1>5

(* When the kernel runs in long mode, all that has been loaded and read is *)
(* found through the page tables at both of its addresses, as long as it   *)
(* is not more than the pages mapped.                                      *)
THEOREM KernelStaysMapped == BootSpec => []KernelMapped
<1>1. BootInit => MapInv
  BY TableSize DEF BootInit, BootstrapInit, MapInv
<1>2. LoaderInv /\ MapInv => KernelMapped
  <2> SUFFICES ASSUME LoaderInv, MapInv, stage \in {"entry", "kernel"},
                      NEW a \in 0 .. kvbase + kvoffset - 1
               PROVE  /\ Walk(a \div PAGE) = Page(a \div PAGE)
                      /\ Walk(KernPage + a \div PAGE) = Page(a \div PAGE)
    BY DEF KernelMapped
  <2>1. kvbase \in Nat /\ kvoffset \in Nat /\ kvbase + kvoffset <= MemTop
    <3>1. image \in Images /\ kvoffset \in Nat
      BY DEF LoaderInv, LoaderTypes, Whole
    <3>2. kvbase \in Nat /\ kvbase <= MemTop
      BY <3>1, KernelEnd DEF Whole
    <3>3. CASE InKernel
      BY <3>1, <3>2, <3>3 DEF LoaderInv, InTheKernel
    <3>4. CASE ~InKernel
      <4>1. kvoffset = 0
        BY <3>4 DEF LoaderInv, Loading
      <4> QED
        BY <3>2, <4>1
    <3> QED
      BY <3>1, <3>2, <3>3, <3>4
  <2>2. a \in Nat /\ a < NPAGES * PAGE
    <3>1. MemTop <= NPAGES * PAGE /\ NPAGES * PAGE \in Nat /\ MemTop \in Nat
      BY BootAssumption, TableSize, MemorySize
    <3> QED
      BY <2>1, <3>1
  <2> DEFINE p == a \div PAGE
  <2>3. p \in 0 .. NPAGES - 1
    BY <2>2, PageOf
  <2> HIDE DEF p
  <2>4. TablesLinked(tables) /\ Mapped(tables, NPAGES)
    BY DEF MapInv
  <2>5. tables["pde1"][p] = Page(p) /\ tables["pde2"][KERNPDE + p] = Page(p)
    BY <2>3, <2>4 DEF Mapped
  <2>6. Walk(p) = Page(p) /\ Walk(KernPage + p) = Page(p)
    BY <2>3, <2>4, <2>5, Walks
  <2> QED
    BY <2>6 DEF p
<1> QED
  BY <1>1, <1>2, MapStep, LoaderInvariant, PTL DEF BootSpec

---------------------------------------------------------------------------
\* The BIOS's memory map.

\* Every set of numbers that is not empty has a least one.
LEMMA LeastOfNat ==
  ASSUME NEW S, S \subseteq Nat, S # {}
  PROVE  \E m \in S : \A k \in S : m <= k
<1> DEFINE R == {ss \in Nat \X Nat : ss[1] < ss[2]}
<1>1. IsWellFoundedOn(R, Nat)
  BY NatLessThanWellFounded DEF OpToRel
<1> HIDE DEF R
<1>2. PICK m \in S : \A k \in S : <<k, m>> \notin R
  BY <1>1, WFMin
<1>3. ASSUME NEW k \in S, k < m
      PROVE  FALSE
  <2>1. <<k, m>> \in Nat \X Nat /\ <<k, m>>[1] = k /\ <<k, m>>[2] = m
    OBVIOUS
  <2>2. <<k, m>> \in R
    BY <1>3, <2>1 DEF R
  <2> QED
    BY <1>2, <2>2
<1>4. \A k \in S : m <= k
  BY <1>3
<1> QED
  BY <1>4

\* The first g entries of the map m are what the BIOS gave.
EntriesHeld(m, g) == \A e \in 0 .. g - 1 : \A k \in 1 .. 5 : m[6 * e + k] = <<e + 1, k - 1>>

\* The first g sizes are stored.
SizesHeld(m, g) == \A e \in 0 .. g - 1 : m[6 * e] = Size(5)

MapDomain(m) == DOMAIN m = 0 .. MapWords - 1

\* The BIOS stores the next entry behind the others.
LEMMA StoredHolds ==
  ASSUME NEW m, MapDomain(m), MapWords \in Nat, given \in Nat, 6 * (given + 1) <= MapWords,
         EntriesHeld(m, given)
  PROVE  /\ MapDomain(Stored(m, 6 * given + 1))
         /\ EntriesHeld(Stored(m, 6 * given + 1), given + 1)
         /\ \A h \in 0 .. given + 1 : SizesHeld(m, h) => SizesHeld(Stored(m, 6 * given + 1), h)
<1> DEFINE at == 6 * given + 1
           s == Stored(m, at)
<1>1. /\ DOMAIN s = 0 .. MapWords - 1
      /\ \A w \in 0 .. MapWords - 1 : s[w] = IF w \in at .. at + 4 THEN <<given + 1, w - at>> ELSE m[w]
  BY DEF Stored, MapDomain
<1> HIDE DEF s
<1>2. ASSUME NEW e \in 0 .. given, NEW k \in 1 .. 5
      PROVE  s[6 * e + k] = <<e + 1, k - 1>>
  <2>1. 6 * e + k \in 0 .. MapWords - 1
    OBVIOUS
  <2>2. CASE e = given
    <3>1. 6 * e + k \in at .. at + 4 /\ (6 * e + k) - at = k - 1
      BY <2>2
    <3> QED
      BY <1>1, <2>1, <2>2, <3>1
  <2>3. CASE e # given
    <3>1. 6 * e + k \notin at .. at + 4 /\ e \in 0 .. given - 1
      BY <2>3
    <3>2. s[6 * e + k] = m[6 * e + k]
      BY <1>1, <2>1, <3>1
    <3> QED
      BY <3>1, <3>2 DEF EntriesHeld
  <2> QED
    BY <2>2, <2>3
<1>3. ASSUME NEW h \in 0 .. given + 1, SizesHeld(m, h), NEW e \in 0 .. h - 1
      PROVE  s[6 * e] = Size(5)
  <2>1. 6 * e \in 0 .. MapWords - 1 /\ 6 * e \notin at .. at + 4
    OBVIOUS
  <2>2. s[6 * e] = m[6 * e]
    BY <1>1, <2>1
  <2> QED
    BY <1>3, <2>2 DEF SizesHeld
<1>4. EntriesHeld(s, given + 1)
  BY <1>2 DEF EntriesHeld
<1> QED
  BY <1>1, <1>3, <1>4 DEF MapDomain, SizesHeld, s

\* A size stored disturbs no entry.
LEMMA SizedHolds ==
  ASSUME NEW m, MapDomain(m), MapWords \in Nat, NEW h \in Nat, 6 * h < MapWords, NEW v,
         NEW g \in Nat, 6 * g <= MapWords
  PROVE  /\ MapDomain([m EXCEPT ![6 * h] = v])
         /\ EntriesHeld(m, g) => EntriesHeld([m EXCEPT ![6 * h] = v], g)
         /\ SizesHeld(m, h) => SizesHeld([m EXCEPT ![6 * h] = v], h)
         /\ SizesHeld(m, h) /\ v = Size(5) => SizesHeld([m EXCEPT ![6 * h] = v], h + 1)
<1> DEFINE s == [m EXCEPT ![6 * h] = v]
<1>1. /\ DOMAIN s = 0 .. MapWords - 1 /\ s[6 * h] = v
      /\ \A w \in 0 .. MapWords - 1 : w # 6 * h => s[w] = m[w]
  BY DEF MapDomain
<1> HIDE DEF s
<1>2. EntriesHeld(m, g) => EntriesHeld(s, g)
  <2> SUFFICES ASSUME EntriesHeld(m, g), NEW e \in 0 .. g - 1, NEW k \in 1 .. 5
               PROVE  s[6 * e + k] = <<e + 1, k - 1>>
    BY DEF EntriesHeld
  <2>1. 6 * e + k \in 0 .. MapWords - 1 /\ 6 * e + k # 6 * h
    OBVIOUS
  <2>2. s[6 * e + k] = m[6 * e + k]
    BY <1>1, <2>1
  <2> QED
    BY <2>2 DEF EntriesHeld
<1>3. SizesHeld(m, h) => \A e \in 0 .. h - 1 : s[6 * e] = Size(5)
  <2> SUFFICES ASSUME SizesHeld(m, h), NEW e \in 0 .. h - 1
               PROVE  s[6 * e] = Size(5)
    OBVIOUS
  <2>1. 6 * e \in 0 .. MapWords - 1 /\ 6 * e # 6 * h
    OBVIOUS
  <2>2. s[6 * e] = m[6 * e]
    BY <1>1, <2>1
  <2> QED
    BY <2>2 DEF SizesHeld
<1>4. SizesHeld(m, h) /\ v = Size(5) => SizesHeld(s, h + 1)
  <2> SUFFICES ASSUME SizesHeld(m, h), v = Size(5), NEW e \in 0 .. h
               PROVE  s[6 * e] = Size(5)
    BY DEF SizesHeld
  <2>1. e = h \/ e \in 0 .. h - 1
    OBVIOUS
  <2> QED
    BY <1>1, <1>3, <2>1
<1> QED
  BY <1>1, <1>2, <1>3, <1>4 DEF MapDomain, SizesHeld, s

---------------------------------------------------------------------------
\* What a reader finds in the map.

\* What it finds from w on, f being what it finds behind.
Found(f, w) ==
  IF w >= info.mmap_len THEN << >>
  ELSE IF Len(map[w]) # 1 THEN <<UNKNOWN>>
  ELSE <<[k \in 1 .. map[w][1] |-> map[w + k]]>> \o f[w + map[w][1] + 1]

IsReader(f) == f = [w \in 0 .. MapWords |-> Found(f, w)]

\* The BIOS's entry e, and those from behind e up to g.
BiosEntry(e) == [k \in 1 .. 5 |-> <<e, k - 1>>]
BiosEntries(e, g) == [j \in 1 .. g - e |-> BiosEntry(e + j)]

\* The entries behind e are the next one and those behind it.
LEMMA BiosEntriesStep ==
  ASSUME NEW g \in Nat, NEW e \in 0 .. g - 1
  PROVE  <<BiosEntry(e + 1)>> \o BiosEntries(e + 1, g) = BiosEntries(e, g)
<1> DEFINE E(j) == BiosEntry(j)
           a == <<E(e + 1)>>
           b == [j \in 1 .. g - (e + 1) |-> E((e + 1) + j)]
           c == [j \in 1 .. g - e |-> E(e + j)]
<1> HIDE DEF E
<1>1. a \o b = c
  <2>1. Len(a) = 1 /\ a[1] = E(e + 1) /\ Len(b) = g - (e + 1)
    OBVIOUS
  <2>2. \A j \in 1 .. g - (e + 1) : b[j] = E((e + 1) + j)
    OBVIOUS
  <2>3. a \o b = [j \in 1 .. Len(a) + Len(b) |-> IF j <= Len(a) THEN a[j] ELSE b[j - Len(a)]]
    OBVIOUS
  <2> HIDE DEF a, b
  <2>4. Len(a) + Len(b) = g - e
    BY <2>1
  <2>5. \A j \in 1 .. g - e : (IF j <= Len(a) THEN a[j] ELSE b[j - Len(a)]) = E(e + j)
    <3> SUFFICES ASSUME NEW j \in 1 .. g - e
                 PROVE  (IF j <= Len(a) THEN a[j] ELSE b[j - Len(a)]) = E(e + j)
      OBVIOUS
    <3>1. CASE j = 1
      BY <2>1, <3>1
    <3>2. CASE j # 1
      <4>1. ~(j <= 1) /\ j - 1 \in 1 .. g - (e + 1) /\ (e + 1) + (j - 1) = e + j
        BY <3>2
      <4>2. b[j - 1] = E(e + j)
        BY <2>2, <4>1
      <4> QED
        BY <2>1, <4>1, <4>2
    <3> QED
      BY <3>1, <3>2
  <2> QED
    BY <2>3, <2>4, <2>5
<1> QED
  BY <1>1 DEF E, BiosEntries

\* What the reader finds at the size of an entry.
LEMMA FoundEntry ==
  ASSUME NEW g \in Nat, EntriesHeld(map, g), SizesHeld(map, g), info.mmap_len = 6 * g,
         NEW e \in 0 .. g - 1, NEW f
  PROVE  Found(f, 6 * e) = <<BiosEntry(e + 1)>> \o f[6 * (e + 1)]
<1>1. ~(6 * e >= info.mmap_len) /\ 6 * e + 5 + 1 = 6 * (e + 1)
  OBVIOUS
<1>2. map[6 * e] = <<5>>
  BY DEF SizesHeld, Size
<1>3. Len(map[6 * e]) = 1 /\ map[6 * e][1] = 5
  BY <1>2
<1>4. \A k \in 1 .. 5 : map[6 * e + k] = <<e + 1, k - 1>>
  BY DEF EntriesHeld
<1> DEFINE b == [k \in 1 .. 5 |-> map[6 * e + k]]
<1>5. b = BiosEntry(e + 1)
  BY <1>4 DEF BiosEntry
<1>6. Found(f, 6 * e) = <<[k \in 1 .. map[6 * e][1] |-> map[6 * e + k]]>> \o f[6 * e + map[6 * e][1] + 1]
  BY <1>1, <1>3, Zenon DEF Found
<1>7. Found(f, 6 * e) = <<b>> \o f[6 * e + 5 + 1]
  BY <1>3, <1>6, Zenon
<1> HIDE DEF b
<1> QED
  BY <1>1, <1>5, <1>7, Zenon

\* A reader of the map finds its entries.
LEMMA MapRead ==
  ASSUME MapWords \in Nat, NEW g \in Nat, 6 * g <= MapWords,
         EntriesHeld(map, g), SizesHeld(map, g), info.mmap_len = 6 * g
  PROVE  MapEntries = [e \in 1 .. g |-> [k \in 1 .. 5 |-> <<e, k - 1>>]]
<1> DEFINE F(w) == IF w >= 6 * g THEN << >>
                   ELSE IF Len(map[w]) # 1 THEN <<UNKNOWN>> ELSE BiosEntries(w \div 6, g)
           r == [w \in 0 .. MapWords |-> F(w)]
<1>1. BiosEntries(g, g) = << >>
  BY DEF BiosEntries
<1>2. ASSUME NEW e \in 0 .. g
      PROVE  F(6 * e) = BiosEntries(e, g)
  <2>1. CASE e = g
    BY <1>1, <2>1
  <2>2. CASE e # g
    <3>1. e \in 0 .. g - 1 /\ ~(6 * e >= 6 * g) /\ (6 * e) \div 6 = e
      BY <2>2
    <3>2. map[6 * e] = <<5>>
      BY <3>1 DEF SizesHeld, Size
    <3>3. Len(map[6 * e]) = 1
      BY <3>2
    <3> QED
      BY <3>1, <3>3
  <2> QED
    BY <2>1, <2>2
<1>3. ASSUME NEW w \in 0 .. MapWords
      PROVE  Found(r, w) = F(w)
  <2> DEFINE e == w \div 6
             d == w % 6
  <2>1. e \in Nat /\ d \in 0 .. 5 /\ w = 6 * e + d
    OBVIOUS
  <2> HIDE DEF e, d
  <2>2. CASE w >= 6 * g
    BY <2>2 DEF Found
  <2>3. CASE w < 6 * g /\ d = 0
    <3>1. e \in 0 .. g - 1 /\ w = 6 * e
      BY <2>1, <2>3
    <3>2. Found(r, w) = <<BiosEntry(e + 1)>> \o r[6 * (e + 1)]
      BY <3>1, FoundEntry
    <3>3. 6 * (e + 1) \in 0 .. MapWords /\ e + 1 \in 0 .. g
      BY <3>1
    <3>4. r[6 * (e + 1)] = BiosEntries(e + 1, g)
      <4>1. r[6 * (e + 1)] = F(6 * (e + 1))
        BY <3>3
      <4>2. F(6 * (e + 1)) = BiosEntries(e + 1, g)
        BY <1>2, <3>3
      <4> QED
        BY <4>1, <4>2
    <3>5. Found(r, w) = BiosEntries(e, g)
      BY <3>1, <3>2, <3>4, BiosEntriesStep
    <3>6. F(w) = BiosEntries(e, g)
      BY <1>2, <3>1
    <3> QED
      BY <3>5, <3>6
  <2>4. CASE w < 6 * g /\ d # 0
    <3>1. e \in 0 .. g - 1 /\ d \in 1 .. 5
      BY <2>1, <2>4
    <3>2. map[w] = <<e + 1, d - 1>>
      BY <2>1, <3>1 DEF EntriesHeld
    <3>3. Len(map[w]) # 1 /\ ~(w >= 6 * g)
      BY <2>1, <2>4, <3>2
    <3> QED
      BY <3>3 DEF Found
  <2> QED
    BY <2>1, <2>2, <2>3, <2>4
<1>4. IsReader(r)
  <2>1. r = [w \in 0 .. MapWords |-> Found(r, w)]
    <3> HIDE DEF F
    <3>1. r = [w \in 0 .. MapWords |-> F(w)]
      OBVIOUS
    <3> HIDE DEF r
    <3> QED
      BY <1>3, <3>1
  <2> QED
    BY <2>1 DEF IsReader
<1> HIDE DEF r, F
<1> DEFINE f == CHOOSE h : IsReader(h)
<1>5. IsReader(f)
  BY <1>4
<1>6. MapEntries = f[0]
  BY DEF MapEntries, IsReader, Found
<1> HIDE DEF f
<1>7. \A w \in 0 .. MapWords : f[w] = Found(f, w)
  <2> SUFFICES ASSUME NEW w \in 0 .. MapWords
               PROVE  f[w] = Found(f, w)
    OBVIOUS
  <2> DEFINE q == [x \in 0 .. MapWords |-> Found(f, x)]
  <2>1. f = q
    BY <1>5 DEF IsReader
  <2>2. q[w] = Found(f, w)
    OBVIOUS
  <2> HIDE DEF q
  <2> QED
    BY ONLY <2>1, <2>2, Zenon
<1> DEFINE Bad == {j \in 0 .. g : f[6 * (g - j)] # BiosEntries(g - j, g)}
<1>8. Bad = {}
  <2> SUFFICES ASSUME Bad # {}
               PROVE  FALSE
    OBVIOUS
  <2>1. PICK j \in Bad : \A k \in Bad : j <= k
    <3>1. Bad \subseteq Nat
      OBVIOUS
    <3> HIDE DEF Bad
    <3> QED
      BY <3>1, LeastOfNat
  <2> DEFINE e == g - j
  <2>2. j \in 0 .. g /\ e \in 0 .. g /\ f[6 * e] # BiosEntries(e, g)
    BY <2>1
  <2>3. e # g
    <3> SUFFICES ASSUME e = g
                 PROVE  FALSE
      OBVIOUS
    <3>1. 6 * g \in 0 .. MapWords /\ 6 * g >= info.mmap_len
      OBVIOUS
    <3>2. f[6 * g] = << >>
      BY <1>7, <3>1 DEF Found
    <3> HIDE DEF e
    <3> QED
      BY <1>1, <2>2, <3>2
  <2>4. e \in 0 .. g - 1 /\ j - 1 \in 0 .. g /\ j - 1 < j /\ g - (j - 1) = e + 1
    BY <2>2, <2>3
  <2>5. f[6 * (e + 1)] = BiosEntries(e + 1, g)
    <3>1. j - 1 \notin Bad
      <4> HIDE DEF Bad
      <4> QED
        BY <2>1, <2>2, <2>4
    <3> HIDE DEF e
    <3> QED
      BY <2>4, <3>1
  <2> HIDE DEF e
  <2>6. 6 * e \in 0 .. MapWords
    BY <2>4
  <2>7. f[6 * e] = <<BiosEntry(e + 1)>> \o f[6 * (e + 1)]
    BY <1>7, <2>4, <2>6, FoundEntry
  <2>8. f[6 * e] = BiosEntries(e, g)
    BY <2>4, <2>5, <2>7, BiosEntriesStep
  <2> QED
    BY <2>2, <2>8
<1>9. f[6 * 0] = BiosEntries(0, g)
  <2>1. g \in 0 .. g /\ g - g = 0
    OBVIOUS
  <2>2. g \notin Bad
    BY <1>8
  <2> QED
    BY <2>1, <2>2
<1>10. BiosEntries(0, g) = [e \in 1 .. g |-> BiosEntry(e)]
  BY DEF BiosEntries
<1>11. MapEntries = [e \in 1 .. g |-> BiosEntry(e)]
  <2>1. 6 * 0 = 0
    OBVIOUS
  <2> QED
    BY ONLY <1>6, <1>9, <1>10, <2>1, Zenon
<1> QED
  BY ONLY <1>11, Zenon DEF BiosEntry

---------------------------------------------------------------------------
\* The map that the boot sector takes down.

BiosCount == bios.entries

\* The entries given so far, and their length.
InMap ==
  /\ bios.works /\ given \in 1 .. BiosCount /\ ebp = 6 * given
  /\ EntriesHeld(map, given)

(* The inductive invariant: while the BIOS is asked, all that it gave is   *)
(* in the map and all sizes but the last; at "map" perhaps that one, too,  *)
(* the place being behind the length then.                                 *)
BiosInv ==
  /\ machine \in Machines /\ MapDomain(map)
  /\ stage \in {"a20cmd", "a20data", "e820"} => given = 0 /\ edi = 1 /\ info.flag = FALSE
  /\ stage \in {"next_entry", "map"} => InMap
  /\ stage = "next_entry" => edi = 6 * given - 5 /\ SizesHeld(map, given - 1)
  /\ stage = "map" =>
       /\ given = BiosCount
       /\ \/ edi = 6 * given - 5 /\ SizesHeld(map, given - 1)
          \/ edi = 6 * given + 1 /\ SizesHeld(map, given)
  /\ stage = "failed" =>
       info.flag = FALSE /\ (~bios.works \/ ~bios.magic \/ BiosCount = 1)
  /\ stage \notin {"a20cmd", "a20data", "e820", "next_entry", "map", "failed"} =>
       IF info.flag
       THEN /\ EntriesHeld(map, BiosCount) /\ SizesHeld(map, BiosCount)
            /\ info.mmap_len = 6 * BiosCount
       ELSE ~bios.works \/ ~bios.magic \/ BiosCount = 1

\* The room for the map, from the assumptions.
LEMMA MapRoom ==
  ASSUME machine \in Machines
  PROVE  BiosCount \in Nat \ {0} /\ MapWords \in Nat /\ 6 * (BiosCount + 1) <= MapWords
BY BootstrapAssumption DEF BiosCount, bios, MachineOK

\* The first entry.
LEMMA FirstEntryStep ==
  ASSUME BiosInv, do_e820
  PROVE  BiosInv'
<1>1. machine \in Machines /\ given = 0 /\ edi = 1 /\ info.flag = FALSE /\ MapDomain(map)
  BY DEF BiosInv, do_e820
<1>2. BiosCount \in Nat \ {0} /\ MapWords \in Nat /\ 6 * (BiosCount + 1) <= MapWords
  BY <1>1, MapRoom
<1>3. machine' = machine /\ edi' = edi /\ info' = info /\ BiosCount' = BiosCount
      /\ bios' = bios /\ bios.entries = BiosCount
  BY DEF do_e820, BiosCount, bios
<1> DEFINE s == Stored(map, 1)
<1>4. MapDomain(s) /\ EntriesHeld(s, 1) /\ SizesHeld(s, 0)
  <2>1. EntriesHeld(map, given)
    BY <1>1 DEF EntriesHeld
  <2>2. 6 * (given + 1) <= MapWords /\ given \in Nat /\ 6 * given + 1 = 1 /\ given + 1 = 1
    BY <1>1, <1>2
  <2>3. MapDomain(Stored(map, 6 * given + 1)) /\ EntriesHeld(Stored(map, 6 * given + 1), given + 1)
    BY <1>1, <1>2, <2>1, <2>2, StoredHolds
  <2>4. SizesHeld(s, 0)
    BY DEF SizesHeld
  <2> QED
    BY <2>2, <2>3, <2>4
<1> HIDE DEF s
<1>5. /\ given' = IF Carry THEN given ELSE given + 1
      /\ map' = IF Carry THEN map ELSE s
      /\ \/ (Carry \/ ~bios.magic \/ Ebx0) /\ stage' = "failed"
         \/ ~(Carry \/ ~bios.magic \/ Ebx0) /\ stage' = "next_entry" /\ ebp' = 6
  BY <1>1 DEF do_e820, s
<1>6. MapDomain(map')
  BY <1>1, <1>4, <1>5
<1>7. CASE (Carry \/ ~bios.magic \/ Ebx0) /\ stage' = "failed"
  <2>1. ~bios.works \/ ~bios.magic \/ BiosCount = 1
    <3>1. Carry => ~bios.works
      BY <1>1, <1>2, <1>3 DEF Carry
    <3>2. Ebx0 /\ ~Carry => BiosCount = 1
      BY <1>1, <1>3, <1>5 DEF Ebx0
    <3> QED
      BY <1>7, <3>1, <3>2
  <2> QED
    BY <1>1, <1>3, <1>6, <1>7, <2>1 DEF BiosInv
<1>8. CASE ~(Carry \/ ~bios.magic \/ Ebx0) /\ stage' = "next_entry" /\ ebp' = 6
  <2>1. given' = 1 /\ map' = s
    BY <1>1, <1>5, <1>8
  <2>2. InMap' /\ edi' = 6 * given' - 5 /\ SizesHeld(map', given' - 1)
    <3>1. bios.works
      BY <1>8 DEF Carry
    <3>2. bios'.works
      BY <1>3, <3>1, Zenon
    <3> QED
      BY <1>1, <1>2, <1>3, <1>4, <1>8, <2>1, <3>2 DEF InMap
  <2> QED
    BY <1>1, <1>3, <1>6, <1>8, <2>2 DEF BiosInv
<1> QED
  BY <1>5, <1>7, <1>8

\* The next entry.
LEMMA NextEntryStep ==
  ASSUME BiosInv, next_entry
  PROVE  BiosInv'
<1>1. machine \in Machines /\ MapDomain(map) /\ InMap /\ edi = 6 * given - 5
      /\ SizesHeld(map, given - 1) /\ stage = "next_entry"
  BY DEF BiosInv, next_entry
<1>2. BiosCount \in Nat \ {0} /\ MapWords \in Nat /\ 6 * (BiosCount + 1) <= MapWords
      /\ given \in 1 .. BiosCount /\ EntriesHeld(map, given) /\ ebp = 6 * given
  BY <1>1, MapRoom DEF InMap
<1>3. machine' = machine /\ BiosCount' = BiosCount /\ bios.entries = BiosCount
      /\ bios' = bios /\ bios.works
  BY <1>1 DEF next_entry, BiosCount, bios, InMap
<1>w. bios'.works
  BY <1>3, Zenon
<1> DEFINE h == given - 1
           m == [map EXCEPT ![6 * h] = Size(5)]
           s == Stored(m, 6 * given + 1)
<1>4. MapDomain(m) /\ EntriesHeld(m, given) /\ SizesHeld(m, given)
  <2>1. h \in Nat /\ 6 * h < MapWords /\ given \in Nat /\ 6 * given <= MapWords /\ h + 1 = given
    BY <1>2
  <2>2. SizesHeld(map, h)
    BY <1>1
  <2> HIDE DEF h
  <2>3. MapDomain(m) /\ EntriesHeld(m, given) /\ SizesHeld(m, h + 1)
    BY <1>1, <1>2, <2>1, <2>2, SizedHolds
  <2> QED
    BY <2>1, <2>3
<1>5. edi - 1 = 6 * h /\ edi + 6 = 6 * given + 1
  BY <1>1, <1>2
<1>6. /\ edi' = 6 * given + 1
      /\ given' = IF Carry THEN given ELSE given + 1
      /\ ebp' = IF Carry THEN ebp ELSE ebp + 6
      /\ map' = IF Carry THEN m ELSE s
      /\ stage' = IF Carry \/ Ebx0 THEN "map" ELSE stage
  <2>1. /\ edi' = edi + 6
        /\ given' = IF Carry THEN given ELSE given + 1
        /\ ebp' = IF Carry THEN ebp ELSE ebp + 6
        /\ stage' = IF Carry \/ Ebx0 THEN "map" ELSE stage
    BY Zenon DEF next_entry
  <2>2. map' = IF Carry THEN [map EXCEPT ![edi - 1] = Size(5)]
               ELSE Stored([map EXCEPT ![edi - 1] = Size(5)], edi')
    BY Zenon DEF next_entry
  <2> HIDE DEF h
  <2>3. map' = IF Carry THEN m ELSE s
    BY <1>5, <2>1, <2>2, Zenon
  <2> QED
    BY <1>5, <2>1, <2>3
<1> HIDE DEF m
<1>7. CASE Carry
  <2> HIDE DEF s
  <2>1. given' = given /\ ebp' = ebp /\ map' = m /\ stage' = "map"
    BY <1>6, <1>7
  <2>2. given = BiosCount \/ ~bios.works
    BY <1>3, <1>7 DEF Carry
  <2>3. InMap'
    BY <1>2, <1>3, <1>4, <1>w, <2>1 DEF InMap
  <2>4. edi' = 6 * given' + 1 /\ SizesHeld(map', given')
    BY <1>4, <1>6, <2>1
  <2>6. given' = BiosCount'
    BY <1>3, <2>1, <2>2
  <2> QED
    BY <1>1, <1>3, <1>4, <2>1, <2>3, <2>4, <2>6 DEF BiosInv
<1>8. CASE ~Carry
  <2>1. given' = given + 1 /\ ebp' = ebp + 6 /\ map' = s
    BY <1>6, <1>8
  <2>2. given # BiosCount
    BY <1>3, <1>8 DEF Carry
  <2>3. given + 1 \in 1 .. BiosCount /\ given \in Nat /\ 6 * (given + 1) <= MapWords
        /\ given \in 0 .. given + 1 /\ (given + 1) - 1 = given
    BY <1>2, <2>2
  <2>4. MapDomain(s) /\ EntriesHeld(s, given + 1) /\ SizesHeld(s, given)
    BY <1>2, <1>4, <2>3, StoredHolds
  <2> HIDE DEF s
  <2>5. InMap'
    BY <1>2, <1>3, <1>w, <2>1, <2>3, <2>4 DEF InMap
  <2>6. edi' = 6 * given' - 5 /\ SizesHeld(map', given' - 1)
    BY <1>2, <1>6, <2>1, <2>3, <2>4
  <2>7. CASE Ebx0
    <3>1. given' = BiosCount' /\ stage' = "map"
      BY <1>3, <1>6, <2>7 DEF Ebx0
    <3> QED
      BY <1>1, <1>3, <2>1, <2>4, <2>5, <2>6, <3>1 DEF BiosInv
  <2>8. CASE ~Ebx0
    <3>1. stage' = "next_entry"
      BY <1>1, <1>6, <1>8, <2>8
    <3> QED
      BY <1>1, <1>3, <2>1, <2>4, <2>5, <2>6, <3>1 DEF BiosInv
  <2> QED
    BY <2>7, <2>8
<1> QED
  BY <1>7, <1>8

\* The last size.
LEMMA MapDoneStep ==
  ASSUME BiosInv, MapDone
  PROVE  BiosInv'
<1>1. /\ machine \in Machines /\ MapDomain(map) /\ InMap /\ given = BiosCount
      /\ \/ edi = 6 * given - 5 /\ SizesHeld(map, given - 1)
         \/ edi = 6 * given + 1 /\ SizesHeld(map, given)
  BY DEF BiosInv, MapDone
<1>2. BiosCount \in Nat \ {0} /\ MapWords \in Nat /\ 6 * (BiosCount + 1) <= MapWords
      /\ EntriesHeld(map, BiosCount) /\ ebp = 6 * BiosCount
  BY <1>1, MapRoom DEF InMap
<1>3. machine' = machine /\ BiosCount' = BiosCount /\ bios' = bios
  BY DEF MapDone, BiosCount, bios
<1>4. info' = [flag |-> TRUE, mmap_len |-> ebp] /\ stage' = "bootmain"
      /\ map' = [map EXCEPT ![edi - 1] = Size(IF edi > ebp THEN 6 ELSE 5)]
  BY DEF MapDone
<1>5. info'.flag = TRUE /\ info'.mmap_len = 6 * BiosCount'
  BY <1>2, <1>3, <1>4
<1>6. MapDomain(map') /\ EntriesHeld(map', BiosCount) /\ SizesHeld(map', BiosCount)
  <2>1. CASE edi = 6 * given - 5 /\ SizesHeld(map, given - 1)
    <3> DEFINE h == given - 1
    <3>1. edi - 1 = 6 * h /\ ~(edi > ebp) /\ h \in Nat /\ 6 * h < MapWords
          /\ BiosCount \in Nat /\ 6 * BiosCount <= MapWords /\ h + 1 = BiosCount
      BY <1>1, <1>2, <2>1
    <3>2. SizesHeld(map, h)
      BY <2>1
    <3> HIDE DEF h
    <3>3. map' = [map EXCEPT ![6 * h] = Size(5)]
      BY <1>4, <3>1
    <3>4. /\ MapDomain([map EXCEPT ![6 * h] = Size(5)])
          /\ EntriesHeld([map EXCEPT ![6 * h] = Size(5)], BiosCount)
          /\ SizesHeld([map EXCEPT ![6 * h] = Size(5)], h + 1)
      BY <1>1, <1>2, <3>1, <3>2, SizedHolds
    <3> QED
      BY <3>1, <3>3, <3>4, Zenon
  <2>2. CASE edi = 6 * given + 1 /\ SizesHeld(map, given)
    <3> DEFINE h == BiosCount
    <3>1. edi - 1 = 6 * h /\ edi > ebp /\ h \in Nat /\ 6 * h < MapWords /\ 6 * h <= MapWords
      BY <1>1, <1>2, <2>2
    <3>2. SizesHeld(map, h) /\ EntriesHeld(map, h)
      BY <1>1, <1>2, <2>2
    <3> HIDE DEF h
    <3>3. map' = [map EXCEPT ![6 * h] = Size(6)]
      BY <1>4, <3>1
    <3>4. /\ MapDomain([map EXCEPT ![6 * h] = Size(6)])
          /\ EntriesHeld([map EXCEPT ![6 * h] = Size(6)], h)
          /\ SizesHeld([map EXCEPT ![6 * h] = Size(6)], h)
      BY <1>1, <1>2, <3>1, <3>2, SizedHolds
    <3> QED
      BY <3>3, <3>4, Zenon DEF h
  <2> QED
    BY <1>1, <2>1, <2>2
<1> QED
  BY <1>1, <1>3, <1>4, <1>5, <1>6 DEF BiosInv

\* Nothing else touches the map.
LEMMA BiosStep == BiosInv /\ [BootNext]_allVars => BiosInv'
<1> SUFFICES ASSUME BiosInv, [BootNext]_allVars PROVE BiosInv'
  OBVIOUS
<1> DEFINE Asking == {"a20cmd", "a20data", "e820", "next_entry", "map", "failed"}
<1>1. CASE do_e820 \/ next_entry \/ MapDone
  BY <1>1, FirstEntryStep, NextEntryStep, MapDoneStep
<1>2. ASSUME machine' = machine, UNCHANGED mapVars,
             \/ stage' = stage
             \/ stage \in {"a20cmd", "a20data"} /\ stage' \in {"a20data", "e820"}
             \/ stage = "failed" /\ stage' = "bootmain"
             \/ stage \notin Asking /\ stage' \notin Asking
      PROVE  BiosInv'
  <2>1. /\ map' = map /\ edi' = edi /\ ebp' = ebp /\ given' = given /\ info' = info
        /\ bios' = bios /\ BiosCount' = BiosCount /\ (InMap' <=> InMap)
    BY <1>2 DEF mapVars, bios, BiosCount, InMap
  <2>2. CASE stage' = stage
    BY <1>2, <2>1, <2>2 DEF BiosInv
  <2>3. CASE stage \in {"a20cmd", "a20data"} /\ stage' \in {"a20data", "e820"}
    BY <1>2, <2>1, <2>3 DEF BiosInv
  <2>4. CASE stage = "failed" /\ stage' = "bootmain"
    BY <1>2, <2>1, <2>4 DEF BiosInv
  <2>5. CASE stage \notin Asking /\ stage' \notin Asking
    BY <1>2, <2>1, <2>5 DEF BiosInv
  <2> QED
    BY <1>2, <2>2, <2>3, <2>4, <2>5
<1>3. CASE SetA20Command \/ SetA20Data \/ failed
  <2>1. machine' = machine /\ UNCHANGED mapVars
    BY <1>3 DEF SetA20Command, SetA20Data, failed
  <2>2. \/ stage \in {"a20cmd", "a20data"} /\ stage' \in {"a20data", "e820"}
        \/ stage = "failed" /\ stage' = "bootmain"
    BY <1>3 DEF SetA20Command, SetA20Data, failed
  <2> QED
    BY <1>2, <2>1, <2>2
<1>4. CASE Head64 \/ CallEntry \/ StoreWraps \/ RunLoader
  <2>1. machine' = machine /\ UNCHANGED mapVars
    BY <1>4 DEF Head64, verify_cpu, ClearTables, LinkTables, MapPage, PagesMapped, EnablePaging,
                CallEntry, StoreWraps, LineShut, RunLoader
  <2>2. stage \notin Asking /\ stage' \notin Asking
    BY <1>4 DEF Head64, verify_cpu, ClearTables, LinkTables, MapPage, PagesMapped, EnablePaging,
                CallEntry, StoreWraps, LineShut, RunLoader
  <2> QED
    BY <1>2, <2>1, <2>2
<1>5. CASE ControllerTakes \/ UNCHANGED bootVars
  <2>1. machine' = machine /\ UNCHANGED mapVars /\ stage' = stage
    BY <1>5 DEF ControllerTakes, bootVars
  <2> QED
    BY <1>2, <2>1
<1> QED
  BY <1>1, <1>3, <1>4, <1>5 DEF BootNext, Processor, BootSector, allVars

(* The kernel is given the BIOS's memory map entry by entry, whole and in  *)
(* order, however the BIOS says that it was the last: a reader that goes   *)
(* by the sizes, as multiboot has it, meets none of the words behind.      *)
THEOREM MapIsWhole == BootSpec => []MapWhole
<1>1. BootInit => BiosInv
  BY DEF BootInit, BootstrapInit, BiosInv, MapDomain
<1>2. BiosInv => MapWhole
  <2> SUFFICES ASSUME BiosInv, stage \in {"bootmain", "cpu", "entry", "kernel"}
               PROVE  IF info.flag
                      THEN MapEntries = [e \in 1 .. bios.entries |-> [k \in 1 .. 5 |-> <<e, k - 1>>]]
                      ELSE ~bios.works \/ ~bios.magic \/ bios.entries = 1
    BY DEF MapWhole
  <2>1. /\ machine \in Machines
        /\ IF info.flag
           THEN /\ EntriesHeld(map, BiosCount) /\ SizesHeld(map, BiosCount)
                /\ info.mmap_len = 6 * BiosCount
           ELSE ~bios.works \/ ~bios.magic \/ BiosCount = 1
    BY DEF BiosInv
  <2>2. BiosCount \in Nat /\ MapWords \in Nat /\ 6 * BiosCount <= MapWords
    BY <2>1, MapRoom
  <2>3. CASE info.flag
    <3>1. MapEntries = [e \in 1 .. BiosCount |-> [k \in 1 .. 5 |-> <<e, k - 1>>]]
      BY <2>1, <2>2, <2>3, MapRead
    <3> QED
      BY <2>3, <3>1, Zenon DEF BiosCount
  <2>4. CASE ~info.flag
    BY <2>1, <2>4, Zenon DEF BiosCount
  <2> QED
    BY <2>3, <2>4
<1> QED
  BY <1>1, <1>2, BiosStep, PTL DEF BootSpec
=============================================================================
