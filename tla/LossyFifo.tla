---------------------------- MODULE LossyFifo ----------------------------
(***************************************************************************)
(* What the console input buffer of kern/console.c promises, seen from     *)
(* outside: a first-in first-out queue of characters that holds at most    *)
(* Capacity of them.  The code makes no room check, and what its users get *)
(* when one character too many arrives is not "the newest is dropped" nor  *)
(* "the oldest is overwritten": the whole queue is forgotten, the newcomer *)
(* included.                                                               *)
(***************************************************************************)
EXTENDS Naturals, Sequences

CONSTANTS
  Capacity,   (* how many characters can wait                            *)
  Char        (* what a character can be; 0 is the answer "none waiting" *)

VARIABLES
  queue,      (* the characters waiting, oldest first           *)
  got         (* what the last cons_getc() answered, 0 for none *)

Init == queue = << >> /\ got = 0

Put(c) ==
  /\ queue' = IF Len(queue) = Capacity THEN << >> ELSE Append(queue, c)
  /\ UNCHANGED got

Get ==
  /\ queue # << >>
  /\ got' = Head(queue)
  /\ queue' = Tail(queue)

GetNone ==
  /\ queue = << >>
  /\ got' = 0
  /\ UNCHANGED queue

Next == (\E c \in Char : Put(c)) \/ Get \/ GetNone

Spec == Init /\ [][Next]_<<queue, got>>
==========================================================================
