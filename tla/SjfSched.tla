------------------------------ MODULE SjfSched ------------------------------
(***************************************************************************)
(* schedule_algorithms/sjf: a copy of the fcfs threads whose queues are    *)
(* priority queues, filed under the process's first CPU burst.             *)
(***************************************************************************)
EXTENDS RunToCompletion

(* init_scheduler was given "sjf": the processes are queued by priority.   *)
SjfInit == Policy = "sjf" /\ Init

add_arrival_process_sjf == add_arrival
process_cpu_sjf == process_cpu
schedular_sjf == dispatch \/ process_cpu_sjf
wakeUp_sjf == wakeUp

SjfNext == main \/ add_arrival_process_sjf \/ schedular_sjf \/ wakeUp_sjf

SjfFairness ==
    /\ WF_vars(main) /\ WF_vars(add_arrival_process_sjf)
    /\ WF_vars(schedular_sjf) /\ WF_vars(wakeUp_sjf)

SjfSpec == SjfInit /\ [][SjfNext]_vars /\ SjfFairness
-----------------------------------------------------------------------------
Dispatched == sched_pc = "remove" /\ sched_pc' = "cpu"

(* The scheduler takes a process of the least priority value among those   *)
(* ready, although the wake-up thread files processes between its steps.   *)
DispatchesLeastPriority ==
    [][Dispatched =>
         \A q \in Carried(readyQueue) : pd[running_pd'].priority <= pd[q].priority]_vars
=============================================================================
