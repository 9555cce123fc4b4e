------------------------------- MODULE MCSjf --------------------------------
(* Instances of SjfSched for TLC. *)
EXTENDS SjfSched

Line(a_time, cpu, io) == [a_time |-> a_time, cpu_burst |-> cpu, io_burst |-> io]

(* First bursts that tie and first bursts that differ, second bursts       *)
(* longer and shorter than the first, and for the last process perhaps a   *)
(* line with no burst at all, whose priority is whatever the read past the *)
(* allocation gives.                                                       *)
Bodies(p) ==
    IF p = 2 THEN { << <<>>, <<>> >>, << <<2>>, <<1>> >> }
    ELSE { << <<2>>, <<1>> >>, << <<1, 3>>, <<1>> >>, << <<2, 1>>, <<2>> >> }

MCWorkloads ==
    {[p \in Pids |-> Line(0, body[p][1], body[p][2])] :
        body \in {b \in [Pids -> UNION {Bodies(p) : p \in Pids}] : \A p \in Pids : b[p] \in Bodies(p)}}

MCGarbage == {0, 5}
=============================================================================
