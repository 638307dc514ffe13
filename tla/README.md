# The JOS kernel (lab 1): models and proofs

This directory is a TLA+ development of the 64-bit JOS kernel of `src/Lab 0`:
a boot loader, a kernel that sets up its console, reads its own debug
information from the disk and runs a monitor. Paths below are relative to
`src/Lab 0`.

The kernel is one thread with interrupts off. What runs beside it are devices:
a keyboard, a serial port, a printer, a display, a disk. The hard parts are
therefore the interleaving of the kernel with its devices, buffers at their
limits, code that re-enters itself (the tab in `cga_putc()`, panics inside
monitors), state shared between calls (static buffers, the shift word) and the
arithmetic of positions, sectors and offsets.

## The system

| Component | State it keeps | Operations | Interacts with | What makes it correct |
|---|---|---|---|---|
| Console input (`kern/console.c`) | ring `cons` (`buf`, `rpos`, `wpos`), `serial_exists` | `cons_init`, `cons_intr`, `serial_intr`, `kbd_intr`, `cons_getc`, `getchar` | serial port, keyboard, `readline` | a queue; nothing lost but by an overrun; both devices served |
| Keyboard decoder (`kern/console.c`) | the static word `shift` | `kbd_proc_data` | keyboard controller, `cons_intr` | flags agree with the keys held; reset only on Ctrl-Alt-Del |
| Console output, display (`kern/console.c`) | `crt_buf`, `crt_pos` | `cputchar`, `cons_putc`, `serial_putc`, `lpt_putc`, `cga_init`, `cga_putc` | serial port, printer, display; re-enters itself on a tab | a scrolling terminal; the ports see the same bytes; always returns |
| Line editor, monitor, panic (`lib/readline.c`, `kern/monitor.c`, `kern/init.c`) | static line buffer, `panicstr`, one `argv` per command | `readline`, `runcmd`, the commands, `monitor`, `_panic` | `getchar`, `cputchar`, the debug information | the line seen is the line run; its words are its arguments |
| Boot loader (`boot/main.c`) | none | `bootmain`, `readseg`, `readsect` | disk, memory | the whole kernel arrives |
| ELF debug section reader (`kern/elf_rw.c`) | `section_info` | `read_section_headers`, `readseg`, `readsect`, `_dwarf_find_section` | disk, memory after the kernel | every section whole, nothing overwritten |
| Boot sector (`boot/boot.S`) | the memory map at `multiboot_info` | opening line 20, the E820 loop, the switch to protected mode | BIOS, keyboard controller, `bootmain` | both bytes that open the line reach the controller; the map is whole |
| Long-mode bootstrap (`kern/bootstrap.S`, `kern/entry.S`) | five page tables | `_head64`, `verify_cpu`, `entry` | processor, `i386_init` | the tables cover what the kernel touches; other processors never get there |
| Formatted output (`lib/printfmt.c`, `kern/printf.c`) | none | `vprintfmt`, `vsnprintf`, `cprintf` | `cputchar` | text is what the format says; the bound is kept |
| String library (`lib/string.c`) | none | `strlcpy`, `memmove`, `strtol`, ... | everybody | C's definitions, overlap included |
| DWARF readers (`kern/libdwarf_*.c`) | cursor in the debug sections, static register tables | LEB128, units, abbreviations, DIEs, line program, frame program | the sections above, `kdebug` | the walk stays in its unit and ends; the row found is the right one |
| Debug lookup (`kern/kdebug.c`) | none | `debuginfo_rip`, `list_func_die` | DWARF readers, backtrace | the function that contains the address, or a negative answer |
| Lists (`inc/queue.h`) | links | `LIST_*` macros | nobody in this lab | links stay consistent |

## The modules

| Module | Models | How state and actions correspond to the code |
|---|---|---|
| `LossyFifo` | abstract | the queue that console input promises: it holds `Capacity` characters and one too many empties it |
| `ConsRing` | the ring of `kern/console.c` | `Put` is the loop body of `cons_intr()`, `Get`/`GetNone` the end of `cons_getc()`, `Advance` the increment and reset of a position; `Contents` is the refinement mapping to `LossyFifo` |
| `Keyboard` | `kbd_proc_data()` and, external, a PS/2 keyboard | `Decode` is one call (prefix, release, press), the tables keep their names; the keyboard emits the bytes of presses, repeats and releases, E0 keys, fake shifts and Pause included |
| `Console` | extends both: `cons_getc()`, `getchar()`, the serial receive path and `serial_init()` | one action per call of a device's `proc_data` with what `cons_intr()` does with the answer; `pc` says where `cons_getc()` is; devices deliver between any two actions |
| `Terminal` | abstract | a page of lines with a cursor that wraps and scrolls |
| `Display` | `cga_init()`, `cga_putc()` | linear buffer and 16-bit position; `PosAfter`/`BufAfter` are the switch, `Finish` the scroll and the cursor; mapped to `Terminal` |
| `ConsoleOutput` | extends `Display`: `cputchar()`, `cons_putc()`, `serial_putc()`, `lpt_putc()` | the bounded waits are steps, ports become ready in between; a tab pushes five inner calls (`spaces`, `inTab`); `expected` is a ghost |
| `Monitor` | `readline()`, `runcmd()`, `monitor()`, `_panic()`, the backtrace's assertion | one action per branch of `readline()`, per step of the argument loop, per outcome of the lookup; `buf` is cut in place, `argv` points into it; `monitors` counts the calls on the stack |
| `Loader` | `bootmain()`, both `readseg()`s, `readsect()`, the clearing of the BSS, `read_section_headers()` | `Read` is a `readseg()` at work; `AskSector`, `DiskDone`, `TakeSector` are one `readsect()`; a byte of memory is named by its offset in the kernel's file |
| `Bootstrap` | `boot/boot.S`, `kern/bootstrap.S` and, external, the BIOS's E820 service, the keyboard controller and the processor's page walk | one action per labelled piece of code (`SetA20Command`, `do_e820`, `next_entry`, `verify_cpu`, ...); `map` is the memory at `e820_map` in words, `tables` the five tables, filled by `MapPage` a page at a time |
| `Boot` | composes `Bootstrap` and `Loader`: power-on to the debug sections | `CallEntry` is the jump through the ELF header, `RunLoader` lets `Loader`'s steps run where they belong, before `_head64` or after `entry`; `StoreWraps` is a store above a megabyte with line 20 still shut, where the model ends |
| `Strings` | `lib/string.c` | each function is an operator on the memory `mem`; a call applies it and leaves its answer in `ret`; `CallMeaning` says on sequences what each one promises |
| `Format` | `lib/printfmt.c`, `kern/printf.c` | `fmt` and `ap` are the characters and arguments of a sequence of directives; one action per case of the switch; `Put` is `sprintputch()` or the console's `putch()`; `Meant` is what the directives say |
| `Lists` | the `LIST` macros of `inc/queue.h` | `next` holds `lh_first` and every `le_next`, `le_prev` names the cell that points at an element; `list`, `due`, `gone` and `visited` are ghosts |
| `DwarfWriter` | external: how a compiler writes `.debug_info` and `.debug_abbrev` in bytes | units, abbreviations and entries to sequences of bytes, in both byte orders and both sizes of DWARF; the codes of forms and attributes are those of `kern/dwarf_define.h` |
| `DieReader` | `kern/libdwarf_rw.c` on bytes: unit headers, abbreviations, attributes, `dwarf_offdie()`, `dwarf_child()`, `dwarf_siblingof()` | the readers are operators from an offset to a value and the offset behind it; one action per unit header, per abbreviation, per attribute, per call of a client |
| `DebugLookup` | `debuginfo_rip()`, `list_func_die()` and the walk they cause, on entries | the section is a sequence of entries, an offset a place in it (`DieReader` shows that bytes read as entries); `search` holds the parameters and the level of the search at work, `die` the C structures by name with what was last read into each, `pc` what the search is for |
| `LineProgram` | `dwarf_srclines()`, `_dwarf_lineno_run_program()` and the checks on the header | `code` is the program as the assembler writes it, opcodes and operands, `p` the place in it; one action per opcode; `ln` is the one row that is kept |
| `FrameProgram` | `dwarf_get_fde_at_pc()`, `_dwarf_frame_run_inst()` and what surrounds them in `kern/libdwarf_frame.c` | `rt` and `shadow` are the two static tables; one action per entry passed and per kind of instruction; `initial` is a ghost |
| `ConsoleProofs`, `DisplayProofs`, `MonitorProofs`, `BootProofs`, `LibraryProofs`, `LookupProofs`, `LineProofs`, `FrameProofs` | proofs | of the module they are named after; `ConsoleProofs` is also about `Keyboard` and `ConsRing`, `LookupProofs` about `DebugLookup`, `LineProofs` about `LineProgram`, `FrameProofs` about `FrameProgram`, `DisplayProofs` also about `ConsoleOutput`, `BootProofs` about `Loader` and `Bootstrap` within `Boot`, `LibraryProofs` about `Strings`, `Format` and `Lists` |
| `MCConsole`, `MCConsoleOutput`, `MCMonitor`, `MCBoot`, `MCLibrary`, `MCDieReader`, `MCDebugLookup`, `MCLineProgram`, `MCFrameProgram` | instances | values of the constants for model checking |

Operators commented as "faulty variant" are not part of a model. Each is an
operation with one plausible mistake, kept next to the right one; put in its
place it makes the property listed with it under `mutants` in `PROJECT.json`
fail, which is how we know the property can tell.

## The runs

| Run | Question | Bounds, and why they are enough |
|---|---|---|
| `console_input` | With both devices delivering at any time: is the ring a queue (`FifoSpec`), is serial input in order and lost only by an overrun (`SerialInOrder`, `NothingElseLost`), are both devices served (`KeyboardServed`, `SerialServed`)? | ring of 3 slots (2 characters wait), 3 serial characters, 3 keyboard events: both positions go around, the port and the ring overrun, from either device; a port is there or not |
| `keyboard` | Do the flags follow the keys? (`NoStuckModifier`, `HeldModifierKnown`, `PrefixConsumed`, `RebootOnlyOnCtrlAltDel`) | 8 keys with all that is special about scan codes; 5 events (Ctrl, Alt, Del and two more); a keyboard buffer of 8 bytes, which overflows |
| `console_output` | Is the display a terminal (`TerminalSpec`)? Do both ports get the same bytes (`PortsInStep`)? Does a call return with dead ports (`PutcReturns`)? | page of 2 lines of 3 cells, any first position; 3 characters, so two tabs may scroll several times; one look at a port before it is given up |
| `monitor` | Is what is echoed what is stored (`EchoIsLine`)? Is a line run as its words say (`LineMeaning`)? Panics: `PanicReportedOnce`; the prompt comes back: `PromptReturns` | lines of up to 5 characters, 2 arguments, one command a prefix of another, 3 monitors on the stack; the buffer is reused without limit |
| `loader` | Do both bytes that open line 20 reach the controller (`A20Commanded`), is the memory map handed over whole (`MapWhole`)? Do the kernel, the tables and the debug sections arrive whole and stay so (`KernelIntact`, `TablesIntact`, `SectionsReadable`), and do the page tables map all of them at both addresses (`KernelMapped`)? With line 20 open in time, does loading end, and does a processor without long mode never get into the kernel (`LoadTerminates`)? | sectors of 4 bytes, pages of 8, and every residue of the segments, tables and sections modulo the sector, with sizes from 0 to more than a sector: 1540 files on one machine; two files on 40 machines: maps of 1 to 3 entries, both ways to tell the end, a BIOS without the service, processors that lack something at each stage of the check |
| `debug_lookup` | Does the walk stay on the top level of its unit (`WalkTopLevel`)? Is the function found the first that contains the address, and one found if there is one (`FunctionFound`)? Are its parameters counted (`ArgsCounted`)? Does it end (`LookupEnds`)? | one or two units, each of three types and up to two functions or variables; functions with parameters of each type, nested blocks that claim the same addresses, `DW_AT_sibling` or not; units of a version that is not known, without children, not closed; a function without a name |
| `line_program` | Does the interpreter stay on instruction boundaries (`OnInstruction`)? Is the line that of the row that covers the address, or of the last one up to it (`LineFound`)? | every program of up to three out of 15 instructions in a sequence, two sequences; headers with 3, 9 and 12 standard opcodes, with minimum lengths 1 and 2, and those that are refused; addresses before, in, between and behind |
| `frame_program` | Is the description the one that covers the address, with its own CIE (`FdeFound`)? Do the rules read as the program means them (`TableRight`)? | two CIEs, three descriptions; every program of two out of 20 instructions, with a location between or not, and states remembered around every pair; 3 registers, so that each check of a register fires; two lookups, so that what the first leaves behind is seen by the second |
| `library` | Does every string function answer and store what it means (`CallsRight`)? Is what is printed what the directives say (`Formatted`), and is a buffer never overrun and always ended (`BufferKept`)? Do the links of a list stay right (`Linked`), and does a loop visit what is in the list although its body changes it (`VisitsAll`)? | every memory of 5 cells over 3 characters and two of 8 cells, every pair of places and every length, words of 2 cells: all overlaps and alignments; every sequence of two out of 30 directives, into the console and buffers of 0, 1, 3 and 6 cells and none; 3 elements, any order of operations |
| `dwarf_reader` | Is an entry read as it was written, with its own unit's abbreviations (`DieRight`)? Do child and sibling lead where the tree says (`Navigates`)? | bytes of 4 bits and ints of 8: LEB128 numbers of one to three groups, the last cut by the int; each form at its edges, in both byte orders and both sizes; a tree of three levels with `DW_AT_sibling` in three forms and without; units whose tables differ; unknown codes, forms and versions |
| `debug_arg_sizes` | `kern/kdebug.h:17`: the sizes of the arguments; violated, see below | as `debug_lookup` |
| `frame_initial_rules` | `kern/libdwarf_frame.c:168`: a copy of the initial state; violated, see below | as `frame_program` |

`FifoSpec` and `TerminalSpec` are refinements: the abstract specification,
with the mapping of `ConsRing` and `Display`, is a property of the composed one.

`LineFound` and `TableRight` compare an interpreter that keeps little (one row,
one table, static copies) with the meaning of the whole program: a table of all
rows, a table per location with a stack of remembered ones. `FunctionFound`
compares the walk with the set of all functions of all units. `TableRight` is
stated of the programs that the static tables can serve (`Sound`: no `set_loc`,
and behind a `remember_state` no `restore`, and no second one before it is restored); what happens
to the others is the second divergence below.

`CallsRight`, `Formatted` and `DieRight` compare a loop with a definition that
knows no loop: what the function means on sequences, what a directive prints,
what the compiler was given to encode. They are stated of the uses the code is
written for: strings that end and do not overlap (`memmove()` aside), the
formats of `DirectiveOK`, the files of `FileOK`. What the code does outside is
listed below.

**Types.** The type invariants of `Monitor` and `Loader` carry assertions of the
code (`kern/elf_rw.c:152, 193, 215`, the room in `buf` and `argv`) and are
checked by their runs and proved, as are those of the ring and of the display.
`Keyboard`, `Console`, `ConsoleOutput`, `DebugLookup`, `LineProgram` and
`FrameProgram` state one to document their variables; their runs check
properties of behaviour instead.

**Fairness.** In the models of the running system it is `WF_vars(Kernel)`: one
thread, interrupts off, nothing preempts it, and `Kernel` is the disjunction of
all its steps, of which at most one kind is enabled (`Processor` in `Boot`). In
`Console` the monitor always asks for more. `DebugLookup` is one sequential
computation, so `WF_vars(Next)`; `LineProgram`, `FrameProgram`, `DieReader` and
`MCLibrary` state safety only and assume none. Devices promise nothing, with two
exceptions in `Boot`, where the code waits without limit: the disk answers
(`waitdisk()`), and the keyboard controller takes the bytes written to it
(`seta20.1`, `seta20.2`). `cons_intr()` stays with a device for as long as it
has data, so a serial line that never pauses starves the keyboard and the
reader: the two liveness properties of `Console` are stated for lines that fall
silent. `CHECK_DEADLOCK FALSE` is used where the bound on the input (characters,
monitors, lookups) or the end of the job (`Boot`, `DebugLookup`,
`LineProgram`) stops the model.

**The divergences found.**

1. `list_func_die()` follows typedefs to the size of the first parameter only
   (the loop `try_again`); from the second on (`kern/kdebug.c:154`) a typedef
   has no size of its own, and the size of the parameter before is recorded
   again, where `kern/kdebug.h:17` says "Sizes of each of function arguments"
   (`debug_arg_sizes`: `(char, size_t)` gets sizes 1 and 1).
2. `_dwarf_frame_regtable_copy()` hands out one static table for every copy.
   `DW_CFA_remember_state` therefore overwrites the copy that
   `kern/libdwarf_frame.c:168` calls "initial state", and `DW_CFA_restore`
   afterwards restores the wrong rule (`frame_initial_rules`).

Read while modelling; the models do what the code does, and no run is spent on
them:

- `boot/main.c:87` says the kernel starts at sector 3, the code (and the comment
  at `:13`) says the sector after the first.
- `boot/boot.S`: a BIOS that gives the end along with its first entry is taken
  to have failed (`:65`), so a map of one entry is dropped; the stride between
  entries leaves room for 20 bytes although 24 are asked for, and the room for
  the map, up to the boot sector, is not checked (some 125 entries).
- `boot/boot.S` does not wait for the keyboard controller to take the second byte
  (`:50`) before it goes on. Nothing but the time the BIOS and the disk take
  makes the comment at `:32` true ("addresses higher than 1MB wrap around to zero by
  default.  This code undoes this"): the run `loader` reaches a store of the
  first segment with the line shut (stage `"wrapped"`).
- `kern/bootstrap.S:148` compares the flags with `ebx` where `ecx` holds the ones
  before, so the test for `cpuid` never fails. The comments at `:38`, `:67` and
  `:73` speak of 4G, of 1G and of the 64th entry; 256M are mapped from the 32nd.
- `runcmd()` keeps a slot of `argv` for its NULL and accepts 15 arguments, then
  prints that the maximum is 16 (`kern/monitor.c:129`).
- `lib/printfmt.c`: `%d` reads a `long long` whatever was passed (`:197`), so a
  negative `int` prints as a large number if the upper half of its slot is 0;
  the sign comes before the padding (`%5d` of -1 gives `-    1`); `%-5d` pads
  with dashes; the 0 of `%.0s` is taken for a flag; E_NO_SYS has no string.
  `putch()` in `kern/printf.c:13` advances its pointer and not the count, so
  `cprintf()` answers 0.
- `kern/libdwarf_rw.c`: LEB128 numbers from 2^31 come out with a wrong sign or
  shifted out of an `int`; `DW_FORM_ref_addr` in version 4 reads no bytes, and
  what follows is misread; a name given through `DW_FORM_indirect` is not taken;
  `dwarf_offdie()` of an empty unit answers OK and leaves the structure as it was.
- `_dwarf_find_section_enhanced()` (`kern/libdwarf_rw.c:818`) always returns 0, so
  the early return of `_dwarf_lineno_init()` (`:282`) is never taken: without a
  `.debug_line` section a header is read from near address 0.
- `kern/libdwarf_lineno.c:119` resets the registers at the end of a sequence and
  appends no row, so an address in a hole between two sequences gets the last
  line before the hole. A standard opcode above the twelve known (`:185`) is
  passed without its operands, which are then run as opcodes.
- A structure for an entry keeps the name read last (`kern/libdwarf_rw.c:620`): a
  function without one, such as the copy of an inlined function, is shown
  under the name of another entry.
- `kern/console.c:334`: the left and right keys share a modifier bit, and letting
  go of one clears it while the other is held; `HeldModifierKnown` is stated for
  one key.

## What is proved

TLAPS proves, for every value of the constants that satisfies the modules'
assumptions. Each proof is an invariant that implies the property, its two
facts (it holds at first; every action keeps it), and lemmas on the operators.

**Console input.** `ConsoleProofs`:

- The ring: `RingTypeCorrect`, the positions stay in the buffer;
  `RingImplementsFifo`, `RingSpec => FifoSpec`. The inductive invariant is
  `RingTypeOK`: the mapping is defined on any two positions, so no more is
  needed. The work is in two lemmas on `ContentsOf`: `StoreAppends` (storing at
  `wpos` appends to what waits, or empties it when `wpos` comes to `rpos`) and
  `ReadTakesHead`, each by cases on how the two positions stand and wrap.
- The keyboard: `PrefixIsConsumed`, `NoModifierSticks`,
  `HeldModifiersKnown`, `OnlyCtrlAltDelReboots`. The invariant `KbdInv` says
  that what waits in the keyboard's buffer is planned: there is, for each byte,
  a mode (`idle`, behind a prefix, inside Pause) and a set of modifier keys
  such that neighbours fit (`Fits` lists what a byte of the keyboard can be), and
  the decoder stands where the plan begins (`Begins`). `DecodeKeepsUp` is the
  decoder against one byte, `MakeRuns` and `BreakRuns` the bytes of every key
  against a plan; when a key is dropped the plan stands and only what it says
  about keys is given up. It is assumed of the keys that none has scan code
  0x60, whose release would send the prefix (`KeyboardAssumption`).
- The whole: `ConsoleUsesRing` and `ConsoleUsesKeyboard`, every step of
  the composed console is a step of the ring, and of the keyboard, by itself,
  or leaves it alone. They carry the theorems above over:
  `ConsoleRingTypeCorrect`, `ConsoleImplementsFifo` (with `Char = 1 .. 255`; the
  run takes a smaller `Char` that contains all its devices can send) and
  `ConsoleFlagsFollowKeys`.
- `SerialStaysInOrder` and `NothingElseIsLost`: the
  invariant `SerialInv` relates what was returned, what waits in the ring, what
  stands in the port and what was sent. They hold while the keyboard types no
  character that the serial line sends, too (`KeysApart`, which the instance of
  the run satisfies): the properties name serial characters by their value.

**Console output.** `DisplayProofs`:

- `DisplayTypeCorrect`, the position is on the page after every character and
  no cell off it is written. It needs that the page and one more line fit in 16
  bits (`DisplayAssumption`, named with the constants), which makes the
  `uint16_t` arithmetic exact (`Fits16`), and that a page is whole lines.
- `DisplayIsTerminal`, `DisplaySpec => TerminalSpec`: with a position split into
  row and column (`Splits`), each case of the switch, with or without the scroll,
  is one action of `Terminal` on the page that the buffer holds.
- `OutputIsTerminal`, the same of console output as a whole, and `PortsAlike`. The
  invariant `OutputInv` says what each port is still to get of the call at work,
  inside a tab included (`ToSend`, `ToPrint`), so that together with what it has got
  it is what the calls amount to (`expected`, a ghost). It needs that -1 is no
  glyph.

**Monitor.** `MonitorProofs`, for every size of the buffer and of `argv` and
every line: `MonitorTypeCorrect`, `EchoCorrect`, `OnePanicReport`,
`LinesMeanTheirWords`. The last is the long one: `runcmd()` cuts the line in
place, so the invariant keeps, next to the line as it was typed, how far it is
cut (`LineCut`), that the pointers of `argv` are the starts of the first words and
each reads as its word (`ArgsAreWords`), and where `p` stands between them
(`AtPointer`). It is assumed that command names differ and that there is room for
one monitor (`MonitorAssumption`).

**Boot.** `BootProofs`, under `BootSpec`, for every sector size and every file as
the linker lays it out:

- `LoaderTypeCorrect`, `KernelStaysIntact`, `TablesStayIntact`,
  `DebugSectionsReadable`. The invariant `LoaderInv` (also checked by TLC on the
  instance) describes a `readseg()` at work: what is below its address is
  there (`ReadsTo`), how many sectors are to come and that they reach the end
  (`KernJob`; a section that begins within a sector needs one more exactly when
  `Spills`), and that everything loaded before lies below. From the image it
  needs that segments come in ascending order with sectors of their own
  (`ImageOK`), and of the memory that what is read fits in it (`InMemory`).
- `A20StaysCommanded`, by the state of the handshake with the controller (`A20Inv`):
  neither byte is written over the other. That the line is open in time is not
  claimed.
- `MapIsWhole`. `BiosInv` counts what the BIOS has given, and says that the
  words of each entry and the size before it are there (`EntriesHeld`,
  `SizesHeld`); where the loop of the next entries stands, the last size is still
  to come, and whether it comes depends on how the BIOS tells the end. That
  a reader who follows the sizes finds the entries is the lemma `MapRead`, by
  a least counterexample. It is assumed that there is room for the map and one
  entry more (`BootstrapAssumption`).
- `KernelStaysMapped`: `MapInv` says which entries the loop of `_head64` has
  filled so far (`Mapped`) and that the tables above link to them
  (`TablesLinked`). It needs that the memory fits the pages that are mapped
  (`BootAssumption`) and that a table has more than one entry.

**Formatted output.** `LibraryProofs`, for every format made of directives, any
number of them, every argument these take and every size of the buffer:
`FormatPrintsDirectives`, `FmtSpec => []Formatted`, and `SnprintfKeepsBuffer`,
`FmtSpec => []BufferKept`. One invariant serves both, `FmtInv`. It says where the
interpreter stands in the directives: in front of one or, with a part of it
printed as text, inside one that is no directive (`TextAt`); behind a % it has read
some of the fields (`EscAt`), and then the flags are those of the fields read
(`FlagsAre`) and the arguments left are those not yet taken (`ArgsFrom`). This is what keeps
fields and arguments of one directive from reaching the next. `SinkInv` says
what the buffer, its position and its counter hold of the text so far. Three kinds of
lemma carry it. Flattening: which characters and arguments belong to which directive
(`CharPlaces`, `ArgPlaces`), from a counterexample of least length, as
for the line program below. Numbers: that `printnum()`, which divides, prints the
numeral, which is made of powers of the base (`DigitsAre`), by a least number for which it
does not; that a negative argument read as an unsigned one is its two's complement
(`WordIs`); that reading the digits of a width gives the width (`NumberToIs`).
Fields: where each begins and ends among the characters of a conversion (`Spans`,
`Reads`). Assumed is what callers keep to (`DirectiveOK`: the argument is one that the
conversion takes, widths have at most two digits, pads and precisions go with
the conversions they are for), that every error text has a code below `MAXERROR`,
and that the characters include those `vprintfmt()` puts of its own
(`FormatAssumption`).

**String library.** `LibraryProofs`: `StringCallsRight`, `StrSpec => CallsRight`, for
every memory, every address and length in it, every length of a word and every `int`
that is stored or searched. It is a property of one call by itself, so it needs no
invariant, only what the guards say of areas and strings, and that what the library is
called with is a memory (`Memory`: its addresses are the numbers below its size, and
natural numbers stand in it). Where a loop that reads stops (`Stop`) is a `CHOOSE`: the lemmas on it
show that there is exactly one such place, by the least of the places at which the
condition fails. A loop that writes is a recursive function of the moves made so far;
`Moved` says what holds after k of them, and a least k for which it does not is
refuted. That the result is a copy although source and destination overlap is that no
move takes from a cell that one before it has written: upwards this is so unless the
destination begins inside the source, downwards if it does, and it is why the direction
must be decided on the areas and not on the units. That whole words may be moved
is that they cover the area exactly, which is what the alignment test of `memmove()` and
`memset()` is for (`Offsets`). For `strtol()`, the sum that the loop builds from the front (times
the base, plus a digit) is that of the digits weighted from the back (`Sums`), and of
the readings of a text (`ReadsAs`) the one that the code takes reaches furthest. Assumed is
that `c` is an integer, that a word and a byte are not empty, and that what `strtol()` is
given is a string (`StringsAssumption`).

**Lists.** `LibraryProofs`, for any set of elements: `ListsLinked`, whose
invariant is the property and that no element is in the list twice, each macro
being a cut and a join of sequences; `LoopVisitsAll`, with `LoopInv`: what has been
visited and what is still to come (`ToCome`) are, in the order of the list at the
start, all that has stayed in it.

**Frame descriptions.** `FrameProofs`: `FdeFoundCorrect`, `Spec => []FdeFound`: for
every section and any number of lookups, the description taken covers the address
and is used with the CIE it names, and "no entry" is answered only when none
covers it. The inductive invariant `Inv` adds two facts about the scan: none of
the entries passed covers the address (`NonePassed`), and the structure for a CIE
holds the last one passed (`LastCie`). The second is conditional: before the
first CIE of a scan the structure still holds one of the lookup before, and
it is the assumption that every description follows its CIE with no other
between (`SectionOK`) that keeps this from being seen.

`TableIsRight`, `Spec => []TableRight`: the rules handed out are those that the
instructions mean. The property compares two static tables with a table per
location and a stack of them; the invariant `TableInv` says how they agree while the
instructions run. The table at work holds what the instructions so far mean
(`TableSays`), the shared copy the state remembered last or, with none remembered,
the initial rules (`Remembers`): `Sound` is what keeps the copy from being asked for
more. Behind the first location past the address the rules are those at the address,
whatever is still read. Three things come from the linker and the compiler:
programs are balanced, no `restore_state` without its `remember_state` (`Depth`,
`ProgramOK`), advances and the code alignment are natural numbers, so that locations
ascend, and registers and offsets are numbers.

**Line program.** `LineProofs`: `OnInstructionAlways`, `Spec => []OnInstruction`, for
every header and every program that can be encoded under it. What an instruction
looks like is one of six shapes (`LooksLike`, `CellsLookLike`; that a special opcode
cannot be taken for a standard one is `SpecialLarge`), and each is passed by as many
cells as it has (`ReadsOne`). That the cells at the end of the first k instructions
are those of the next takes what `FlattenSeq` returns, a recursive function: that
there is one, that it is the only one and that it adds its parts one after the
other follow from a counterexample having a least length (`LeastOfNat`,
`FlattenExists`, `FlattenAgree`, `FlattenPlaces`). The assumption is that lengths,
ranges and operands are numbers, and that an instruction is of a known kind.

`LineIsFound`, `Spec => []LineFound`. The meaning of a program is the table of its
rows, a recursive function of the instructions (`Table`); `LineInv` says that the
interpreter, behind any k instructions, stands as that table does after k
(`HasRead`), and that the row it keeps (`Kept`) is the last of the rows up to the
address, the ends of sequences left out. As the rows ascend, it is the row that covers the
address if one does (`CoveredLine`). It needs that the rows of the table ascend (`InOrder`,
from the sequences being in order) and that header fields and addresses are numbers.

**Lookup of a function.** `LookupProofs`: `WalkStaysTopLevel`, `Spec =>
[]WalkTopLevel`, for every section that is well formed (`InfoOK`) and every address. The
property speaks of the calls of `list_func_die()` only; `WalkInv` adds where each
search stands by what it is for (`SearchFor`): while children are skipped, the
nesting of the entry at hand is one more than the `level` the code counts. It
rests on how the nesting changes from entry to entry (`DepthStep`, `DepthSum`),
that children which are closed are closed within the unit, so that the place
`DW_AT_sibling` gives is in it (`SiblingBehind`), and that units do not overlap
(`UnitsFollow`). The proof needs, and `InfoOK` says, that a DIE said to have children
has one in its own unit: when the search for the first child finds nothing,
`dwarf_child()` answers `DW_DLV_NO_ENTRY` (`kern/libdwarf_rw.c:810`), which is not the
`DW_DLE_NO_ENTRY` that `kern/kdebug.c:225` looks for, and `list_func_die()` is called
with what `die` held before.

`FunctionIsFound`, `Spec => []FunctionFound`: `FoundInv` says at every stage
of the walk that the functions that contain the address are still ahead (`Ahead`), or
that the first of them is the answer, under its name if it has one (`Answer`); what lies between two places of the walk is
below the top level (`ChildrenPassed`, `NullEntryPasses`), and nothing is ahead behind a unit of a version
that is not known, where the walk ends. `ArgumentsAreCounted`, `Spec => []ArgsCounted`:
`ArgsInv` says that the arguments counted are the parameters among the children before
the place of the search (`Counted`), and that a search for a type, which reuses
the structures of the walk, leaves them alone.

**Only model-checked.** The liveness properties (`KeyboardServed`,
`SerialServed`, `PutcReturns`, `PromptReturns`, `LoadTerminates`, `LookupEnds`):
they need `ENABLED`. `DieRight` and `Navigates`:
the reader's numbers are folds and its powers are `^`, of which the provers know
nothing; the model would have to state both as recursive functions, as `Format` does.

## Not modelled, and assumed

- The attribute byte of a display cell, the choice of display adapter, wording.
- Keys that behave like those modelled; the lock keys (their auto-repeat
  toggles them, and nothing says what is intended).
- What commands print. That a backtrace with debug information returns is
  assumed; that it writes through the NULL `info` of `mon_backtrace()`, to
  memory that the boot page tables map, is left out.
- `Loader`: at most 20 sections (what a longer table overwrites is up to the
  compiler); segments of an ELF file whose address and offset agree modulo the
  sector and which start on sectors of their own (`kern/kernel.ld` aligns
  them); `find_debug_sections()`, which nothing calls.
- `Bootstrap`: the BIOS stores 20 bytes per entry, and there is room for the map.
  What a store above a megabyte destroys while line 20 is shut is not modelled: the
  model ends there, and the properties of the loader are of loads that find the
  line open at each store, `LoadTerminates` included. That the page tables lie in the kernel's data, behind the bytes
  of the file, is left out of the model's memory; so are segment registers and
  descriptors, and the bits of the control registers.
- `Strings`: the C versions of `memset()` and `memmove()`, which `ASM` disables,
  and numbers that do not fit a `long`.
- `Format`: that the width of a `va_list` slot is that of the argument; `%e` of the
  smallest `int`, which the code negates; wording.
- `Monitor`: a panic inside the printing of the panic message itself.
- `Lists`: an element that the body of a loop has removed is not inserted again,
  nor another removed, before the loop goes on: the macros cannot survive it.
- `DieReader`: LEB128 numbers below 2^31, units with at least one entry; behind the
  section is no header of a known version (the code looks at one, `:355`).
- `DebugLookup`: the first unit begins with the section, and addresses are numbers; a DIE that says it has children has one in its unit; functions have
  at most 10 parameters (`struct Ripdebuginfo` has room for 10, the code
  counts on); no function begins at the address asked about, which lies behind
  a call. A unit that is not closed ends where the next one begins.
- `LineProgram`: the file has a `.debug_line` section, of the 32-bit format, and no
  more than the 12 standard opcodes of DWARF 3 (the default case at
  `kern/libdwarf_lineno.c:185` is not reached); sequences in
  ascending order of addresses, which are numbers as the header's fields are; an operand is one cell whatever its length. Of
  the registers only address and line: nobody asks for the others.
- `FrameProgram`: nothing in this lab calls the library. A lookup is assumed to
  be `dwarf_init_eh_section()`, `dwarf_get_fde_at_pc()` and
  `dwarf_get_fde_info_for_all_regs()` on the same structures. Programs restore no
  state that they have not remembered, and their locations ascend (`ProgramOK`, as
  gcc writes them; a factor of the code alignment is not negative). An entry with a
  bad length (the scan never leaves it, `kern/libdwarf_frame.c:999`) and the
  error path of the last function, which writes through a pointer that may be
  NULL, are left out; so are expressions, whose bytes are only pointed at.
- `inc/x86.h`, `inc/types.h`, `inc/stab.h`: wrappers around single instructions,
  types and constants without state; what the wrappers do is in the actions of
  the modules that use them. Build rules, grading scripts, `ex1.c` and
  `user/sendpage.c` are not part of the running system.

## Plan

Done, in this order: console input, keyboard, console output, monitor, loader;
the readers of the debug information (the lookup of a function, the line
program, the frame program); the libraries (strings, formats, lists); the
boot sector and the bootstrap, composed with the loader; the byte level of the
DWARF reader.
