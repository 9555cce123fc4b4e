--------------------------- MODULE MCLinkedQueue ----------------------------
(* An instance of LinkedQueue for TLC. *)
EXTENDS LinkedQueue

CONSTANTS t1, t2

MCThreads == {t1, t2}
MCProcs == 0 .. 2
MCAddr == 1 .. 3

(* Two processes tie. *)
MCPriorityOf == [p \in MCProcs |-> IF p = 1 THEN 4 ELSE 7]
=============================================================================
