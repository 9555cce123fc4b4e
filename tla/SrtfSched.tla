----------------------------- MODULE SrtfSched ------------------------------
(***************************************************************************)
(* schedule_algorithms/srtf: the threads of fcfs on priority queues, with  *)
(* a _process_cpu that compares its process with the front of the ready    *)
(* queue after every tick and, when that one needs less, swaps the two and *)
(* calls itself for the new one.  Each swap leaves one caller behind that  *)
(* writes its log line after the inner call returns.                       *)
(***************************************************************************)
EXTENDS Simulator

ASSUME SrtfAssumption == Policy = "srtf"

VARIABLES
    time, proc_time,       (* the locals of the innermost _process_cpu    *)
    callers                (* how many _process_cpu calls wait for it     *)

activation == <<time, proc_time, callers>>
srtfVars == <<vars, activation>>

SrtfInit == Init /\ time = 0 /\ proc_time = 0 /\ callers = 0

(* The loop bound is the whole burst, also for a process swapped back in. *)
SrtfStart ==
    /\ SchedStep("cpu", "run")
    /\ ~ should_terminate(running_pd)
    /\ start_time' = global_counter
    /\ time' = 0
    /\ proc_time' = CpuBurst(running_pd)
    /\ UNCHANGED <<pd, queues, wait_count, global_counter, TERMINATED_PROCESS, running_pd,
                   end_time, task_log, callers>>
    /\ CpuUnchanged

SrtfTick ==
    /\ SchedStep("run", "compare")
    /\ time < proc_time
    /\ time' = time + 1
    /\ SpendTick(running_pd, time)
    /\ UNCHANGED <<queues, wait_count, TERMINATED_PROCESS, running_pd, log, proc_time, callers>>
    /\ CpuUnchanged

(* _simulate_srtf, under the ready queue's mutex. *)
simulate_srtf ==
    /\ ~ isEmpty(readyQueue)
    /\ pd[Head(readyQueue).data].remaining_time < pd[running_pd].remaining_time

SrtfCompare ==
    /\ SchedStep("compare", IF simulate_srtf THEN "preempt" ELSE "run")
    /\ UNCHANGED <<pd, queues, wait_count, global_counter, TERMINATED_PROCESS, running_pd, log,
                   activation>>
    /\ CpuUnchanged

(* The swap: log the turn and file the process under what is left of it ... *)
SrtfPreempt ==
    /\ SchedStep("preempt", "requeue")
    /\ end_time' = global_counter
    /\ task_log' = Append(task_log, LogLineOf(running_pd, end_time'))
    /\ pd' = [pd EXCEPT ![running_pd].priority = pd[running_pd].remaining_time,
                        ![running_pd].status = "READY"]
    /\ UNCHANGED <<queues, wait_count, global_counter, TERMINATED_PROCESS, running_pd,
                   start_time, activation>>
    /\ CpuUnchanged

(* Fault: the commented-out sem_post is brought back. *)
SrtfRequeuePosts ==
    /\ SchedStep("requeue", "redispatch")
    /\ readyQueue' = AddTo(readyQueue, running_pd, pd[running_pd].priority)
    /\ ready_count' = ready_count + 1
    /\ UNCHANGED <<tables, waitQueue, wait_count, global_counter, TERMINATED_PROCESS,
                   running_pd, sleeping_pd, log, reported, main_pc, wake_pc, activation>>

(* Fault: enqueue for p_enqueue, the priority is not looked at. *)
SrtfRequeueAtRear ==
    /\ SchedStep("requeue", "redispatch")
    /\ readyQueue' = Append(readyQueue, node(running_pd, pd[running_pd].priority))
    /\ UNCHANGED <<pd, waitQueue, wait_count, global_counter, TERMINATED_PROCESS, running_pd,
                   log, activation>>
    /\ CpuUnchanged

SrtfRequeue ==
    /\ SchedStep("requeue", "redispatch")
    /\ readyQueue' = AddTo(readyQueue, running_pd, pd[running_pd].priority)
    /\ UNCHANGED <<pd, waitQueue, wait_count, global_counter, TERMINATED_PROCESS, running_pd,
                   log, activation>>
    /\ CpuUnchanged

(* ... then, in another critical section, take the front and recurse; the  *)
(* semaphore is left alone, one node having come and one gone.             *)
SrtfRedispatch ==
    /\ SchedStep("redispatch", "cpu")
    /\ running_pd' = dequeued(readyQueue)
    /\ readyQueue' = dequeue(readyQueue)
    /\ callers' = callers + 1
    /\ UNCHANGED <<pd, waitQueue, wait_count, global_counter, TERMINATED_PROCESS, log, time,
                   proc_time>>
    /\ CpuUnchanged

(* The loop ran to its end: as for every policy, then the next burst is    *)
(* loaded, if there is one.                                                *)
SrtfEnd ==
    /\ SchedStep("run", "enqueue")
    /\ time >= proc_time
    /\ end_time' = global_counter
    /\ LET p == running_pd
           more == pd[p].cpu_index + 1 < Len(process_d[p].cpu_burst)
       IN  pd' = [pd EXCEPT ![p].cpu_index = @ + 1,
                            ![p].status = "SLEEP",
                            ![p].remaining_time = NextRemaining(p),
                            ![p].priority = IF more THEN NextRemaining(p) ELSE @]
    /\ UNCHANGED <<queues, wait_count, global_counter, TERMINATED_PROCESS, running_pd,
                   start_time, task_log, activation>>
    /\ CpuUnchanged

(* Fault: the return from the outermost call is taken for an inner one. *)
SrtfLogUnderflow ==
    /\ SchedStep("log", IF callers <= 0 THEN "check" ELSE "log")
    /\ callers' = callers - 1
    /\ task_log' = Append(task_log, LogLineOf(running_pd, end_time))
    /\ UNCHANGED <<pd, queues, wait_count, global_counter, TERMINATED_PROCESS, running_pd,
                   start_time, end_time, time, proc_time>>
    /\ CpuUnchanged

(* Every call returns through the log: the callers read the same globals   *)
(* and repeat the innermost call's line.                                   *)
SrtfLog ==
    /\ SchedStep("log", IF callers = 0 THEN "check" ELSE "log")
    /\ callers' = IF callers = 0 THEN 0 ELSE callers - 1
    /\ task_log' = Append(task_log, LogLineOf(running_pd, end_time))
    /\ UNCHANGED <<pd, queues, wait_count, global_counter, TERMINATED_PROCESS, running_pd,
                   start_time, end_time, time, proc_time>>
    /\ CpuUnchanged

(* TERMINATED is handed from call to call and none of them logs. *)
SrtfRetire == CpuRetire /\ callers' = 0 /\ UNCHANGED <<time, proc_time>>
-----------------------------------------------------------------------------
Activation(A) == A /\ UNCHANGED activation

add_arrival_process_srtf == Activation(add_arrival)
process_cpu_srtf ==
    \/ Activation(CpuFinished) \/ SrtfRetire
    \/ SrtfStart \/ SrtfTick \/ SrtfCompare \/ SrtfEnd
    \/ SrtfPreempt \/ SrtfRequeue \/ SrtfRedispatch
    \/ Activation(CpuEnqueue) \/ Activation(CpuPost) \/ SrtfLog
schedular_srtf == Activation(dispatch) \/ process_cpu_srtf
wakeUp_srtf == Activation(wakeUp)
main_srtf == Activation(main)

SrtfNext == main_srtf \/ add_arrival_process_srtf \/ schedular_srtf \/ wakeUp_srtf

SrtfFairness ==
    /\ WF_srtfVars(main_srtf) /\ WF_srtfVars(add_arrival_process_srtf)
    /\ WF_srtfVars(schedular_srtf) /\ WF_srtfVars(wakeUp_srtf)

SrtfSpec == SrtfInit /\ [][SrtfNext]_srtfVars /\ SrtfFairness
-----------------------------------------------------------------------------
SrtfTypeOK ==
    /\ SimTypeOK({"run", "compare", "preempt", "requeue", "redispatch"})
    /\ time \in Nat /\ proc_time \in Nat /\ callers \in Nat

Redispatched == sched_pc = "redispatch" /\ sched_pc' = "cpu"

(* The swap is two critical sections and the wake-up thread may file a     *)
(* process between them: still the one taken is of the least priority      *)
(* value, never above that of the process that was just preempted.         *)
SwapTakesLeast ==
    [][Redispatched =>
         \A q \in Carried(readyQueue) : pd[running_pd'].priority <= pd[q].priority]_srtfVars

(* The documented rule (manual.txt): the preempted process is paused, so   *)
(* that over its turns it gets each burst once.  The code restarts the     *)
(* whole burst, so this fails.                                             *)
PausedNotRestarted ==
    \A p \in 0 .. T_PROCESS - 1 :
        pd[p].cpu_time <= SumFunction(process_d[p].cpu_burst)

(* The documented log (README.md): a timeline of which process ran, at     *)
(* what time.  After a swap the callers log the same turn again.           *)
NoTurnLoggedTwice ==
    \A j, k \in 1 .. Len(task_log) : j < k => task_log[j] # task_log[k]
=============================================================================
