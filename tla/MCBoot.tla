------------------------------ MODULE MCBoot ------------------------------
(* Sectors of four bytes.  Two pairs of segments, one of them beginning in *)
(* the middle of sectors, with a BSS that ends anywhere in a sector; the   *)
(* section headers, the names and two debug sections anywhere in theirs,   *)
(* with sizes of less than a sector to more than one, and none at all.     *)
(* Pages of eight bytes, ten of them mapped.  All images on one machine,   *)
(* and one image and a bad one on all machines: maps of one to three       *)
(* entries with both kinds of end, and processors of all kinds.            *)
EXTENDS Boot

Seg(pa, off, filesz, memsz) ==
  [pa |-> pa, off |-> off, filesz |-> filesz, memsz |-> memsz]

SegPairs ==
  {<<Seg(4, 4, 3, 3), Seg(8, 8, 5, 5 + b)>> : b \in {0, 2, 3}}
  \cup {<<Seg(6, 10, 4, 4), Seg(13, 17, 2, 3)>>}

Sect(kind, off, size) == [kind |-> kind, off |-> off, size |-> size]

DebugSects == {Sect("debug", off, size) : off \in 32 .. 35, size \in {0, 1, 4, 6}}

FrameSect == [kind |-> "frame", off |-> 8, size |-> 2, addr |-> 8]

MCImages ==
  {[magic |-> TRUE, segs |-> segs, shoff |-> shoff, strndx |-> 1,
    sects |-> <<Sect("other", 26 + size, size), d, e>>] :
     segs \in SegPairs, shoff \in 20 .. 23, size \in {1, 5}, d \in DebugSects,
     e \in {Sect("debug", 43, 2), Sect("debug", 44, 5), FrameSect}}
  \cup {[magic |-> FALSE, segs |-> segs, shoff |-> 20, strndx |-> 1,
         sects |-> << >>] : segs \in SegPairs}

Bios(entries, e) == [works |-> TRUE, magic |-> TRUE, entries |-> entries, end |-> e]
BiosKinds ==
  {Bios(k, e) : k \in 1 .. 3, e \in {"zero", "carry"}}
  \cup {[Bios(2, "zero") EXCEPT !.works = FALSE], [Bios(2, "zero") EXCEPT !.magic = FALSE]}

Cpu(k) == [cpuid |-> k > 0, leaf1 |-> k > 1, ext |-> k > 2, lm |-> k > 3]

MCMachines == [bios : BiosKinds, cpu : {Cpu(k) : k \in 0 .. 4}]

Usual == [bios |-> Bios(2, "zero"), cpu |-> Cpu(4)]
OneImage == CHOOSE im \in MCImages : im.magic /\ Len(im.sects) = 3
BadImage == CHOOSE im \in MCImages : ~im.magic

MCBoots == (MCImages \X {Usual}) \cup ({OneImage, BadImage} \X MCMachines)
===========================================================================
