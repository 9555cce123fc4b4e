-------------------------- MODULE RunToCompletion --------------------------
(***************************************************************************)
(* The _process_cpu that fcfs and sjf have in common: the dispatched       *)
(* process keeps the CPU for one whole CPU burst, charged to the clock in  *)
(* one atomic add, and then goes to the wait queue.                        *)
(***************************************************************************)
EXTENDS Simulator

(* A process with work left notes the clock; a status but NEW or READY *)
(* returns UNDEFINED and drops the process.                            *)
CpuStart ==
    /\ sched_pc = "cpu"
    /\ ~ should_terminate(running_pd)
    /\ IF pd[running_pd].status \in {"NEW", "READY"}
       THEN sched_pc' = "run" /\ start_time' = global_counter
       ELSE sched_pc' = "check" /\ UNCHANGED start_time
    /\ UNCHANGED <<pd, queues, wait_count, global_counter, TERMINATED_PROCESS, running_pd,
                   end_time, task_log>>
    /\ CpuUnchanged

(* Fault: the clock is set from the value read before the burst. *)
CpuRunStale ==
    /\ SchedStep("run", "end")
    /\ global_counter' = start_time + CpuBurst(running_pd)
    /\ pd' = [pd EXCEPT ![running_pd].cpu_time = @ + CpuBurst(running_pd),
                        ![running_pd].process_time = @ + CpuBurst(running_pd)]
    /\ UNCHANGED <<queues, wait_count, TERMINATED_PROCESS, running_pd, log>> /\ CpuUnchanged

(* The burst: a NEW process gets its first one and has its CPU time set, a *)
(* READY one gets the burst at cpu_index and has its CPU time added to.    *)
CpuRun ==
    /\ SchedStep("run", "end")
    /\ LET p == running_pd
           isNew == pd[p].status = "NEW"
           burst == IF isNew THEN process_d[p].cpu_burst[1] ELSE CpuBurst(p)
       IN  /\ global_counter' = global_counter + burst
           /\ pd' = [pd EXCEPT ![p].cpu_time = IF isNew THEN burst ELSE @ + burst,
                               ![p].process_time = @ + burst]
    /\ UNCHANGED <<queues, wait_count, TERMINATED_PROCESS, running_pd, log>> /\ CpuUnchanged

CpuEnd ==
    /\ SchedStep("end", "enqueue")
    /\ end_time' = global_counter
    /\ pd' = [pd EXCEPT ![running_pd].cpu_index = @ + 1, ![running_pd].status = "SLEEP"]
    /\ UNCHANGED <<queues, wait_count, global_counter, TERMINATED_PROCESS, running_pd,
                   start_time, task_log>>
    /\ CpuUnchanged

process_cpu ==
    \/ CpuFinished \/ CpuRetire
    \/ CpuStart \/ CpuRun \/ CpuEnd \/ CpuEnqueue \/ CpuPost \/ CpuLog
-----------------------------------------------------------------------------
TypeOK == SimTypeOK({"run", "end"})

(* The log is a timeline whose lines cover their whole bursts, although    *)
(* each is written after its process was handed over and both threads move *)
(* the clock meanwhile.                                                    *)
LogTimeline == Timeline(LAMBDA burst : burst)

(* The documented metric (README.md, process.h): a turnaround time, by the *)
(* theoretical formula.  The code sums the bursts, so that time spent      *)
(* waiting for the CPU or the I/O device does not count.                   *)
TurnaroundIsElapsed ==
    [][\A p \in Pids :
         pd[p].status # "TERMINATED" /\ pd'[p].status = "TERMINATED" =>
             pd'[p].turnaround_time = global_counter - process_d[p].a_time]_vars
-----------------------------------------------------------------------------
schedular == dispatch \/ process_cpu

Next == main \/ add_arrival \/ schedular \/ wakeUp

Spec == Init /\ [][Next]_vars

(* The threads are POSIX threads that poll and never block on each other,  *)
(* except main in pthread_join: each is scheduled again and again.         *)
Fairness == WF_vars(main) /\ WF_vars(add_arrival) /\ WF_vars(schedular) /\ WF_vars(wakeUp)

FairSpec == Spec /\ Fairness
=============================================================================
