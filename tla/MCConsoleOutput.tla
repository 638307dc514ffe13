-------------------------- MODULE MCConsoleOutput --------------------------
(* A page of two lines of three cells, so that a tab crosses a line end    *)
(* and may scroll twice.  The cursor starts anywhere; what the page shows  *)
(* at first is one picture, no line of which looks like another.           *)
EXTENDS ConsoleOutput

MCInit == Init /\ crt_buf = [k \in Cells |-> IF k % 2 = 0 THEN 97 ELSE 98]

MCSpec == MCInit /\ [][Next]_vars /\ WF_vars(Kernel)
===========================================================================
