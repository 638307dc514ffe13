----------------------------- MODULE DebugLookup -----------------------------
(***************************************************************************)
(* debuginfo_rip() and list_func_die() of kern/kdebug.c on top of the      *)
(* walk of kern/libdwarf_rw.c over .debug_info: which function contains an *)
(* address, what it is called and what its arguments are.                  *)
(*                                                                         *)
(* The section is a sequence of entries.  An entry stands for a DIE with   *)
(* its abbreviation and the attributes that are asked for, its offset for  *)
(* its place in the sequence; a "null" entry ends the children of a DIE.   *)
(* How entries are decoded from bytes is in DieReader.                     *)
(***************************************************************************)
EXTENDS Integers, Sequences, FiniteSets, FiniteSetsExt

CONSTANTS
  Infos,      (* the contents .debug_info may have, see InfoOK             *)
  Addrs       (* the addresses asked about                                 *)

NoName == "none"
Junk == "junk"

(* The nesting of the entry at p in the unit that begins at first.         *)
Depth(es, first, p) ==
  Cardinality({q \in first .. p - 1 : es[q].tag # "null" /\ es[q].kids})
  - Cardinality({q \in first .. p - 1 : es[q].tag = "null"})

DieEntries == [tag : STRING, name : STRING, kids : BOOLEAN, low : Nat, high : Nat,
               sib : BOOLEAN, type : Nat, size : Nat]
UnitHeaders == [first : Nat \ {0}, next : Nat, version : Nat]

(* An info: its units, one after the other from the first entry to the     *)
(* last, each with the place of its first entry and of the first entry     *)
(* behind it, and the entries.  A unit has an entry.  A DIE that is said   *)
(* to have children has some, and they are closed, unless it is the        *)
(* unit's own; functions have names and at most 10 arguments.  None begins *)
(* at an address asked about: these are behind a call or behind the        *)
(* instruction that reads rip.                                             *)
InfoOK(inf) ==
  /\ inf.units \in Seq(UnitHeaders) /\ inf.entries \in Seq(DieEntries)
  /\ IF inf.units = << >> THEN inf.entries = << >> ELSE inf.units[1].first = 1
  /\ \A u \in DOMAIN inf.units :
       LET es == inf.entries
           un == inf.units[u]
       IN  /\ un.first < un.next
           /\ un.next = IF u = Len(inf.units) THEN Len(es) + 1
                                              ELSE inf.units[u + 1].first
           /\ Depth(es, un.first, un.next) \in {0, 1}
           /\ \A p \in un.first .. un.next - 1 :
                /\ es[p].tag # "null" /\ es[p].kids =>
                     p + 1 < un.next /\ es[p + 1].tag # "null"
                /\ p > un.first => Depth(es, un.first, p) > 0
                /\ es[p].tag = "function" => es[p].low \notin Addrs

ASSUME DebugLookupAssumption ==
  /\ \A inf \in Infos : InfoOK(inf)
  /\ Addrs \subseteq Nat

VARIABLES
  info, addr,   (* the section, the address asked about                    *)
  pc,           (* "cu": before _get_next_cu(); "search": in               *)
                (* dwarf_search_die_within_cu(); "list": at a call of      *)
                (* list_func_die(); "done"; or what a search is for:       *)
                (* "cudie", "child", "sibling", and in list_func_die()     *)
                (* "firstarg", "firsttype", "nextarg", "nexttype"          *)
  unit,         (* number of the unit at work                              *)
  die,          (* the Dwarf_Die structures by name: the place last read   *)
                (* into each and its die_name, which outlives it           *)
  search,       (* the search at work: offset, level, whether for a        *)
                (* sibling, into which structure, and pc afterwards        *)
  found,        (* whether the last search found an entry                  *)
  ret_val,      (* size of an argument, kept from one to the next          *)
  result        (* the answer and *info                                    *)

vars == <<info, addr, pc, unit, die, search, found, ret_val, result>>

Entry(p) == info.entries[p]
Unit == info.units[unit]
At(d) == Entry(die[d].at)

Init ==
  /\ info \in Infos /\ addr \in Addrs
  /\ pc = "cu" /\ unit = 0
  /\ die = [d \in {"cudie", "die", "die2", "sib", "ret"} |-> [at |-> 0, name |-> Junk]]
  /\ search = [off |-> 0, level |-> 0, sibling |-> FALSE, into |-> "die", then |-> "cu"]
  /\ found = FALSE /\ ret_val = 8
  /\ result = [answer |-> -1, fn |-> 0, name |-> NoName, args |-> << >>]

---------------------------------------------------------------------------
\* A call of dwarf_search_die_within_cu().
Search(off, sibling, into, then) ==
  /\ search' = [off |-> off, level |-> 1, sibling |-> sibling,
                into |-> into, then |-> then]
  /\ pc' = "search"

Return(f) == found' = f /\ pc' = search.then

\* The place DW_AT_sibling gives: that of the entry after the children.
Sibling(p) ==
  Min({q \in p + 1 .. Unit.next : Depth(info.entries, p, q) = 0})

\* Faulty variant: never a search, the next entry is taken for the sibling.
SiblingNext(d, into, then) == Search(die[d].at + 1, FALSE, into, then)

(* dwarf_siblingof().                                                      *)
SiblingOf(d, into, then) ==
  IF At(d).kids
  THEN IF At(d).sib THEN Search(Sibling(die[d].at), FALSE, into, then)
                    ELSE Search(die[d].at + 1, TRUE, into, then)
  ELSE Search(die[d].at + 1, FALSE, into, then)

(* Reading an entry into a structure: all of it is replaced, but the name  *)
(* only if there is a DW_AT_name.                                          *)
ParseDie(d, p) ==
  die' = [die EXCEPT ![d] = [at |-> p, name |-> IF Entry(p).name = NoName
                                                THEN die[d].name ELSE Entry(p).name]]

EndOfUnit ==
  /\ pc = "search" /\ search.off >= Unit.next
  /\ Return(FALSE)
  /\ UNCHANGED <<info, addr, unit, die, search, ret_val, result>>

\* Faulty variant: the null not skipped.
NullStays ==
  /\ pc = "search" /\ search.off < Unit.next /\ Entry(search.off).tag = "null"
  /\ search.sibling
  /\ UNCHANGED vars

NullEntry ==
  /\ pc = "search" /\ search.off < Unit.next /\ Entry(search.off).tag = "null"
  /\ IF search.level = 0 \/ ~search.sibling
     THEN Return(FALSE) /\ UNCHANGED search
     ELSE /\ search' = [search EXCEPT !.off = @ + 1, !.level = @ - 1]
          /\ UNCHANGED <<pc, found>>
  /\ UNCHANGED <<info, addr, unit, die, ret_val, result>>

DieEntry ==
  /\ pc = "search" /\ search.off < Unit.next /\ Entry(search.off).tag # "null"
  /\ ParseDie(search.into, search.off)
  /\ IF search.sibling /\ search.level > 0
     THEN /\ search' = [search EXCEPT !.off = @ + 1,
                          !.level = IF Entry(search.off).kids THEN @ + 1 ELSE @]
          /\ UNCHANGED <<pc, found>>
     ELSE Return(TRUE) /\ UNCHANGED search
  /\ UNCHANGED <<info, addr, unit, ret_val, result>>

---------------------------------------------------------------------------
Finish(r) == pc' = "done" /\ result' = r

(* _get_next_cu(), and the search for the first entry of the unit.  The    *)
(* end of the section is noticed one unit late; what is read there is no   *)
(* header of a version that is known.  Nor is a later version's.           *)
GetNextCu ==
  /\ pc = "cu"
  /\ IF unit < Len(info.units) /\ info.units[unit + 1].version \in 2 .. 4
     THEN /\ unit' = unit + 1
          /\ Search(info.units[unit + 1].first, FALSE, "cudie", "cudie")
          /\ UNCHANGED result
     ELSE Finish([result EXCEPT !.answer = -1]) /\ UNCHANGED <<unit, search>>
  /\ UNCHANGED <<info, addr, die, found, ret_val>>

\* Faulty variant: a unit without entries below it ends the scan.
CuDieEnds ==
  /\ pc = "cudie"
  /\ IF found /\ At("cudie").kids
     THEN /\ Search(die["cudie"].at + 1, FALSE, "die", "child")
          /\ UNCHANGED result
     ELSE Finish([result EXCEPT !.answer = -1]) /\ UNCHANGED search
  /\ UNCHANGED <<info, addr, unit, die, found, ret_val>>

\* dwarf_child() of the unit's entry.
CuDie ==
  /\ pc = "cudie"
  /\ IF found /\ At("cudie").kids
     THEN Search(die["cudie"].at + 1, FALSE, "die", "child")
     ELSE pc' = "cu" /\ UNCHANGED search
  /\ UNCHANGED <<info, addr, unit, die, found, ret_val, result>>

Child ==
  /\ pc = "child"
  /\ pc' = "list"
  /\ UNCHANGED <<info, addr, unit, die, search, found, ret_val, result>>

NextSibling ==
  /\ pc = "sibling"
  /\ IF found THEN pc' = "list" /\ die' = [die EXCEPT !["die"] = die["die2"]]
              ELSE pc' = "cu" /\ UNCHANGED die
  /\ UNCHANGED <<info, addr, unit, search, found, ret_val, result>>

---------------------------------------------------------------------------
\* list_func_die()

ContainsAddr(e) == e.tag = "function" /\ e.low < addr /\ addr < e.high

NotHere ==
  /\ pc = "list" /\ ~ContainsAddr(At("die"))
  /\ SiblingOf("die", "die2", "sibling")
  /\ UNCHANGED <<info, addr, unit, die, found, ret_val, result>>

Here ==
  /\ pc = "list" /\ ContainsAddr(At("die"))
  /\ LET r == [answer |-> 0, fn |-> die["die"].at, name |-> die["die"].name,
               args |-> << >>]
     IN  IF At("die").kids
         THEN /\ Search(die["die"].at + 1, FALSE, "ret", "firstarg")
              /\ result' = r
         ELSE Finish(r) /\ UNCHANGED search
  /\ ret_val' = 8
  /\ die' = [die EXCEPT !["sib"] = die["die"]]
  /\ UNCHANGED <<info, addr, unit, found>>

\* Faulty variant: sib stays the argument's type.
RecordLost(size) ==
  /\ result' = [result EXCEPT !.args = Append(@, size)]
  /\ ret_val' = size
  /\ UNCHANGED die
  /\ SiblingOf("sib", "ret", "nextarg")

\* One argument recorded; sib is ret again, and its sibling comes next.
Record(size) ==
  /\ result' = [result EXCEPT !.args = Append(@, size)]
  /\ ret_val' = size
  /\ die' = [die EXCEPT !["sib"] = die["ret"]]
  /\ SiblingOf("ret", "ret", "nextarg")

Argument(this, type, size) ==
  /\ pc = this
  /\ IF ~found \/ At("ret").tag # "param"
     THEN Finish(result) /\ UNCHANGED <<die, search, ret_val>>
     ELSE IF At("ret").type # 0
     THEN /\ Search(At("ret").type, FALSE, "sib", type)
          /\ UNCHANGED <<die, ret_val, result>>
     ELSE size
  /\ UNCHANGED <<info, addr, unit, found>>

FirstArg == Argument("firstarg", "firsttype", Record(8))
NextArg == Argument("nextarg", "nexttype", Record(ret_val))

(* The type of the first argument is followed to one that has a size.      *)
FirstType ==
  /\ pc = "firsttype"
  /\ IF At("sib").size = 0 /\ At("sib").type # 0
     THEN /\ Search(At("sib").type, FALSE, "sib", "firsttype")
          /\ UNCHANGED <<die, ret_val, result>>
     ELSE Record(IF At("sib").size # 0 THEN At("sib").size ELSE ret_val)
  /\ UNCHANGED <<info, addr, unit, found>>

(* That of another is not: if it has no size, the last one is recorded.    *)
NextType ==
  /\ pc = "nexttype"
  /\ Record(IF At("sib").size # 0 THEN At("sib").size ELSE ret_val)
  /\ UNCHANGED <<info, addr, unit, found>>

Next ==
  \/ EndOfUnit \/ NullEntry \/ DieEntry
  \/ GetNextCu \/ CuDie \/ Child \/ NextSibling
  \/ NotHere \/ Here \/ FirstArg \/ NextArg \/ FirstType \/ NextType

(* The code is sequential and nothing stops it.                            *)
Spec == Init /\ [][Next]_vars /\ WF_vars(Next)

---------------------------------------------------------------------------
Places == DOMAIN info.entries

TypeOK ==
  /\ pc \in {"cu", "search", "list", "done", "cudie", "child", "sibling",
             "firstarg", "firsttype", "nextarg", "nexttype"}
  /\ unit \in 0 .. Len(info.units)
  /\ \A d \in DOMAIN die : die[d].at \in Places \cup {0}
  /\ search.level \in 0 .. Len(info.entries)
  /\ search.off \in 0 .. Len(info.entries) + 1
  /\ result.answer \in {-1, 0} /\ result.fn \in Places \cup {0}

\* The same in terms of the tree.
UnitOf(p) == CHOOSE u \in DOMAIN info.units :
               info.units[u].first <= p /\ p < info.units[u].next
Level(p) == Depth(info.entries, info.units[UnitOf(p)].first, p)
IsDie(p) == Entry(p).tag # "null"
After(p) == IF Entry(p).kids
            THEN Min({q \in p + 1 .. info.units[UnitOf(p)].next :
                        Depth(info.entries, p, q) = 0})
            ELSE p + 1
Children(p) == {q \in p + 1 .. After(p) - 1 : IsDie(q) /\ Level(q) = Level(p) + 1}

\* Units up to the first of an unknown version.
Readable(u) == \A v \in 1 .. u : info.units[v].version \in 2 .. 4

Matches ==
  {p \in Places :
     /\ IsDie(p) /\ Level(p) = 1 /\ Readable(UnitOf(p))
     /\ Entry(p).tag = "function" /\ addr \in Entry(p).low .. Entry(p).high - 1}

(* list_func_die() is called for the direct children of a unit's entry     *)
(* only, whatever lies between them: the walk never takes what is inside a *)
(* function for something next to it, nor leaves its unit.                 *)
WalkTopLevel ==
  pc = "list" => LET p == die["die"].at
                 IN  p \in Places /\ UnitOf(p) = unit /\ Level(p) = 1

(* kern/kdebug.c: "Returns 0 if information was found, and negative if     *)
(* not".  It is found exactly if a function of a readable unit contains    *)
(* the address, it is the first one, and the name is that function's and   *)
(* not one left over from an entry the search passed.  (Of a function that *)
(* has no name, such as the copy of an inlined one, nothing is said: it is *)
(* shown under the name last read into the structure.)                     *)
FunctionFound ==
  pc = "done" =>
    IF Matches = {} THEN result.answer = -1
    ELSE /\ result.answer = 0
         /\ result.fn = Min(Matches)
         /\ Entry(result.fn).name # NoName => result.name = Entry(result.fn).name

(* The arguments counted are the parameters that lead the function's       *)
(* entries, whatever was read into the structures on the way.              *)
ArgsCounted ==
  pc = "done" /\ result.answer = 0 =>
    Len(result.args) =
      Cardinality({q \in Children(result.fn) :
                     \A r \in Children(result.fn) :
                       r <= q => Entry(r).tag = "param"})

(* Every lookup ends.                                                      *)
LookupEnds == <>(pc = "done")

SizeOfType[p \in Places] ==
  IF Entry(p).size # 0 THEN Entry(p).size
  ELSE IF Entry(p).type # 0 THEN SizeOfType[Entry(p).type] ELSE 8

(* kern/kdebug.h:17 declares size_fn_arg to be the "Sizes of each of       *)
(* function arguments".                                                    *)
ArgSizesRight ==
  pc = "done" /\ result.answer = 0 =>
    \A k \in DOMAIN result.args :
      LET p == result.fn + k    \* parameters have no children
      IN  Entry(p).type # 0 => result.args[k] = SizeOfType[Entry(p).type]
=============================================================================
