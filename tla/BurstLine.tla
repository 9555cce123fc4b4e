----------------------------- MODULE BurstLine ------------------------------
(* A line of the burst file as the reader (src/file.c) hands it to the     *)
(* simulator.                                                              *)
EXTENDS Naturals, Sequences

burst_line == [a_time : Nat, cpu_burst : Seq(Nat), io_burst : Seq(Nat)]

(* CPU and I/O bursts alternate and a CPU burst comes first. *)
Alternates(line) ==
    /\ Len(line.io_burst) <= Len(line.cpu_burst)
    /\ Len(line.cpu_burst) <= Len(line.io_burst) + 1
=============================================================================
