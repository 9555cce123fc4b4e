------------------------------ MODULE RrSched -------------------------------
(***************************************************************************)
(* schedule_algorithms/rr: the threads of fcfs with a _process_cpu that    *)
(* spends the burst tick by tick and stops at the quantum.                 *)
(***************************************************************************)
EXTENDS Simulator

CONSTANT quantum

ASSUME RrAssumption == Policy = "rr"
ASSUME QuantumAssumption == quantum \in Nat \ {0}

VARIABLES time, proc_time      (* the locals of _process_cpu *)

slice == <<time, proc_time>>
rrVars == <<vars, slice>>

RrInit == Init /\ time = 0 /\ proc_time = 0

RrStart ==
    /\ SchedStep("cpu", "run")
    /\ ~ should_terminate(running_pd)
    /\ start_time' = global_counter
    /\ time' = 0
    /\ proc_time' = pd[running_pd].remaining_time
    /\ UNCHANGED <<pd, queues, wait_count, global_counter, TERMINATED_PROCESS, running_pd,
                   end_time, task_log>>
    /\ CpuUnchanged

(* One turn of the loop: a tick of the burst and a tick of the clock. *)
RrTick ==
    /\ SchedStep("run", "run")
    /\ time < proc_time /\ time < quantum
    /\ time' = time + 1
    /\ SpendTick(running_pd, time)
    /\ UNCHANGED <<queues, wait_count, TERMINATED_PROCESS, running_pd, log, proc_time>>
    /\ CpuUnchanged

(* The loop is over.  Past the quantum the code would requeue the process  *)
(* and recurse; the loop never gets past it, so "requeue" is not reached   *)
(* (RrTypeOK has no such label) and nothing is modelled beyond it.         *)
RrEnd ==
    /\ sched_pc = "run"
    /\ ~ (time < proc_time /\ time < quantum)
    /\ end_time' = global_counter
    /\ IF time > quantum
       THEN sched_pc' = "requeue" /\ UNCHANGED pd
       ELSE /\ sched_pc' = "enqueue"
            /\ pd' = [pd EXCEPT ![running_pd].cpu_index = @ + 1,
                                ![running_pd].status = "SLEEP",
                                ![running_pd].remaining_time = NextRemaining(running_pd)]
    /\ UNCHANGED <<queues, wait_count, global_counter, TERMINATED_PROCESS, running_pd,
                   start_time, task_log, slice>>
    /\ CpuUnchanged
-----------------------------------------------------------------------------
Slice(A) == A /\ UNCHANGED slice

add_arrival_process_rr == Slice(add_arrival)
process_cpu_rr ==
    \/ Slice(CpuFinished) \/ Slice(CpuRetire)
    \/ RrStart \/ RrTick \/ RrEnd
    \/ Slice(CpuEnqueue) \/ Slice(CpuPost) \/ Slice(CpuLog)
schedular_rr == Slice(dispatch) \/ process_cpu_rr
wakeUp_rr == Slice(wakeUp)
main_rr == Slice(main)

RrNext == main_rr \/ add_arrival_process_rr \/ schedular_rr \/ wakeUp_rr

RrFairness ==
    /\ WF_rrVars(main_rr) /\ WF_rrVars(add_arrival_process_rr)
    /\ WF_rrVars(schedular_rr) /\ WF_rrVars(wakeUp_rr)

RrSpec == RrInit /\ [][RrNext]_rrVars /\ RrFairness
-----------------------------------------------------------------------------
RrTypeOK == SimTypeOK({"run"}) /\ time \in Nat /\ proc_time \in Int

AtMost(n, m) == IF n < m THEN n ELSE m

(* What the code gives a process: each of its bursts once, cut at the      *)
(* quantum, and never less; the I/O bursts in full.                        *)
BurstsCutAtQuantum ==
    \A p \in Retired :
        LET cpu == process_d[p].cpu_burst
        IN  /\ pd[p].cpu_time = SumFunction([i \in DOMAIN cpu |-> AtMost(cpu[i], quantum)])
            /\ pd[p].io_time = SumFunction(process_d[p].io_burst)

(* The log is a timeline whose lines cover the part of each burst that the *)
(* quantum leaves.                                                         *)
RrLogTimeline == Timeline(LAMBDA burst : AtMost(burst, quantum))

(* The documented rule: a process whose quantum expires before its burst   *)
(* is over is preempted and queued again.  The code puts it on the wait    *)
(* queue, its burst counted as done.                                       *)
ExpiryRequeues ==
    [][sched_pc = "run" /\ sched_pc' # "run" /\ time < proc_time =>
         pd[running_pd].cpu_index' = pd[running_pd].cpu_index]_rrVars
=============================================================================
