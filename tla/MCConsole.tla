----------------------------- MODULE MCConsole -----------------------------
(* A ring of three slots (two characters can wait in it), a keyboard with  *)
(* one letter, three serial characters: enough for both positions to go    *)
(* around and for the ring to overrun from either device or from both.     *)
EXTENDS Console

\* What these devices can send: the serial characters, FF of an absent
\* port, `a'.
MCChar == 1 .. MaxSerial \cup {97, 255}
===========================================================================
