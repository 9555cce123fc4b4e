------------------------------- MODULE MCSrtf -------------------------------
(* Instances of SrtfSched for TLC. *)
EXTENDS SrtfSched

Line(a_time, cpu, io) == [a_time |-> a_time, cpu_burst |-> cpu, io_burst |-> io]

(* A process that comes back from I/O while a longer one runs, with work   *)
(* left and with nothing left; ties; a line without bursts.                *)
Bodies(p) ==
    CASE p = 0 -> { << <<1, 1>>, <<1>> >>, << <<2>>, <<1>> >> }
      [] p = 1 -> { << <<3>>, <<>> >>, << <<2, 1>>, <<2>> >> }
      [] p = 2 -> { << <<2, 1>>, <<2>> >>, << <<>>, <<>> >> }

MCWorkloads ==
    {[p \in Pids |-> Line(p, body[p][1], body[p][2])] :
        body \in {b \in [Pids -> UNION {Bodies(p) : p \in Pids}] : \A p \in Pids : b[p] \in Bodies(p)}}

MCGarbage == {0, 5}
=============================================================================
