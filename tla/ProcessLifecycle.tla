-------------------------- MODULE ProcessLifecycle --------------------------
(***************************************************************************)
(* What the simulator promises of its processes, without threads, queues,  *)
(* semaphores or a clock: one CPU, one I/O device, and every process takes *)
(* its line's CPU and I/O bursts alternately, each exactly once, before it *)
(* is terminated.  Every policy implements it.                             *)
(***************************************************************************)
EXTENDS Integers, Sequences

CONSTANTS
    Procs,       (* 0 .. n - 1, in the order of the burst file            *)
    Lines,       (* the burst files considered                            *)
    Preemptive   (* may a process lose the CPU before its burst is over?  *)

VARIABLES line, phase, cpu_done, io_done

lifecycle == <<line, phase, cpu_done, io_done>>

Phases == {"absent", "ready", "cpu", "waiting", "io", "terminated"}

LifecycleInit ==
    /\ line \in Lines
    /\ phase = [p \in Procs |-> "absent"]
    /\ cpu_done = [p \in Procs |-> 0]
    /\ io_done = [p \in Procs |-> 0]

Free(resource) == \A p \in Procs : phase[p] # resource

Move(p, from, to) == phase[p] = from /\ phase' = [phase EXCEPT ![p] = to]

Arrive(p) ==
    /\ Move(p, "absent", "ready")
    /\ \A q \in Procs : q < p => phase[q] # "absent"
    /\ UNCHANGED <<line, cpu_done, io_done>>

Dispatch(p) == Free("cpu") /\ Move(p, "ready", "cpu") /\ UNCHANGED <<line, cpu_done, io_done>>

Preempt(p) == Preemptive /\ Move(p, "cpu", "ready") /\ UNCHANGED <<line, cpu_done, io_done>>

(* The next CPU burst is due once every earlier I/O burst is done. *)
CpuBurstDone(p) ==
    /\ Move(p, "cpu", "waiting")
    /\ cpu_done[p] = io_done[p] /\ cpu_done[p] < Len(line[p].cpu_burst)
    /\ cpu_done' = [cpu_done EXCEPT ![p] = @ + 1]
    /\ UNCHANGED <<line, io_done>>

StartIo(p) == Free("io") /\ Move(p, "waiting", "io") /\ UNCHANGED <<line, cpu_done, io_done>>

IoBurstDone(p) ==
    /\ Move(p, "io", "ready")
    /\ io_done[p] + 1 = cpu_done[p] /\ io_done[p] < Len(line[p].io_burst)
    /\ io_done' = [io_done EXCEPT ![p] = @ + 1]
    /\ UNCHANGED <<line, cpu_done>>

Terminate(p) ==
    /\ Move(p, "cpu", "terminated") \/ Move(p, "io", "terminated")
    /\ cpu_done[p] = Len(line[p].cpu_burst) /\ io_done[p] = Len(line[p].io_burst)
    /\ UNCHANGED <<line, cpu_done, io_done>>

LifecycleNext ==
    \E p \in Procs :
        \/ Arrive(p) \/ Dispatch(p) \/ Preempt(p) \/ CpuBurstDone(p)
        \/ StartIo(p) \/ IoBurstDone(p) \/ Terminate(p)

LifecycleSpec == LifecycleInit /\ [][LifecycleNext]_lifecycle
=============================================================================
