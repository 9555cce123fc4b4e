-------------------------------- MODULE MCRr --------------------------------
(* Instances of RrSched for TLC. *)
EXTENDS RrSched

Line(a_time, cpu, io) == [a_time |-> a_time, cpu_burst |-> cpu, io_burst |-> io]

(* With a quantum of 2: bursts below it, equal to it and above it, as a    *)
(* first and as a later burst; lines that end in CPU and lines that end in *)
(* I/O; a line without bursts.                                             *)
Bodies(p) ==
    IF p = 2 THEN { << <<>>, <<>> >>, << <<3>>, <<1>> >> }
    ELSE { << <<2>>, <<>> >>, << <<1, 3>>, <<1>> >>, << <<3, 1>>, <<2, 1>> >> }

MCArrival == <<0, 2, 2>>

MCWorkloads ==
    {[p \in Pids |-> Line(MCArrival[p + 1], body[p][1], body[p][2])] :
        body \in {b \in [Pids -> UNION {Bodies(p) : p \in Pids}] : \A p \in Pids : b[p] \in Bodies(p)}}

MCGarbage == {0, 5}
=============================================================================
