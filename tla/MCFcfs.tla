------------------------------- MODULE MCFcfs -------------------------------
(* Instances of RunToCompletion with Policy = "fcfs" for TLC. *)
EXTENDS RunToCompletion

Line(a_time, cpu, io) == [a_time |-> a_time, cpu_burst |-> cpu, io_burst |-> io]

(* Every combination of three bodies per process: one CPU burst only, a    *)
(* line that ends in I/O, one with two CPU bursts, and for the first       *)
(* process also a line with an arrival time and nothing else.              *)
Bodies(p) ==
    { << <<1>>, <<>> >>, << <<2>>, <<1>> >>, << <<1, 2>>, <<2>> >> }
        \cup IF p = 0 THEN { << <<>>, <<>> >> } ELSE {}

(* The second process arrives while the first one occupies the clock, the  *)
(* third only after a gap the arrival thread has to tick through.          *)
MCArrival == <<0, 0, 4>>

MCWorkloads ==
    {[p \in Pids |-> Line(MCArrival[p + 1], body[p][1], body[p][2])] :
        body \in {b \in [Pids -> UNION {Bodies(p) : p \in Pids}] : \A p \in Pids : b[p] \in Bodies(p)}}

MCGarbage == {0, 5}
=============================================================================
