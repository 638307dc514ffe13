----------------------------- MODULE MCMonitor -----------------------------
(* Lines of up to five characters over two letters, the blank and the two  *)
(* editing keys; up to two arguments are accepted.  The commands are       *)
(* called a, b and aa: one name is a prefix of another.                    *)
EXTENDS Monitor

MCTyped == {BS, NL, Space, DEL, 97, 98}

MCCommandName == [help |-> <<97>>, kerninfo |-> <<97, 97>>, backtrace |-> <<98>>]
===========================================================================
