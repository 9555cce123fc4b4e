------------------------------ MODULE Simulator ------------------------------
(***************************************************************************)
(* What the four scheduling policies share: the process table, the ready,  *)
(* wait and task queues, the two counting semaphores, the simulated clock, *)
(* and the threads that use them: main, the arrival thread, the dispatch   *)
(* loop of the scheduler thread and the whole wake-up (I/O) thread.  What  *)
(* a policy does with the CPU (_process_cpu) is in the modules that extend *)
(* this one.                                                               *)
(*                                                                         *)
(* A step is one access to state another thread can see: an atomic load or *)
(* add, a semaphore operation, a queue operation under its mutex.  Updates *)
(* of a process that only its current owner can touch ride on the access   *)
(* next to them.                                                           *)
(***************************************************************************)
EXTENDS Integers, Sequences, FiniteSets, SchedQueue, BurstLine

CONSTANTS
    TOTAL_PROCESS,  (* number of lines of the burst file                   *)
    Policy,         (* argv[1], as init_scheduler tells the policies apart *)
    Workloads,      (* the burst files considered: functions from Pids     *)
    Garbage         (* what reading cpu_burst[0] of an empty burst may give *)

Pids == 0 .. TOTAL_PROCESS - 1

ASSUME TotalAssumption == TOTAL_PROCESS \in Nat \ {0}
ASSUME PolicyAssumption == Policy \in {"fcfs", "sjf", "srtf", "rr"}
ASSUME GarbageAssumption == Garbage # {} /\ Garbage \subseteq Int
ASSUME WorkloadAssumption ==
    \A w \in Workloads :
        w \in [Pids -> burst_line] /\ \A p \in Pids : Alternates(w[p])

VARIABLES
    process_d,           (* the bursts of each process, fixed once read       *)
    pd,                  (* the process table                                 *)
    T_PROCESS,           (* processes created so far                          *)
    readyQueue, waitQueue, task_list,
    ready_count, wait_count,         (* the semaphores                        *)
    global_counter,      (* the simulated clock                               *)
    TERMINATED_PROCESS,
    running_pd,          (* the scheduler's current process                   *)
    sleeping_pd,         (* the wake-up thread's current process              *)
    start_time, end_time,            (* bounds of the CPU burst being logged  *)
    task_log,            (* lines of task_log.txt                             *)
    reported,            (* what write_result reads off the task list         *)
    main_pc, sched_pc, wake_pc       (* where each thread stands              *)

tables == <<process_d, pd, T_PROCESS, task_list>>
queues == <<readyQueue, waitQueue>>
semaphores == <<ready_count, wait_count>>
log == <<start_time, end_time, task_log>>
vars == <<tables, queues, semaphores, global_counter, TERMINATED_PROCESS, running_pd,
          sleeping_pd, log, reported, main_pc, sched_pc, wake_pc>>
-----------------------------------------------------------------------------
(* A process_t as calloc and create_process leave it. *)
create_process ==
    [status |-> "NEW", cpu_index |-> 0, io_index |-> 0, priority |-> 0,
     remaining_time |-> 0, cpu_time |-> 0, io_time |-> 0, process_time |-> 0,
     turnaround_time |-> 0]

(* The enqueue of the policy's *_th.c: sjf and srtf file by p->priority. *)
AddTo(q, p, priority) ==
    IF Policy \in {"sjf", "srtf"} THEN p_enqueue(q, p, priority) ELSE enqueue(q, p)

(* C indexes bursts from 0, TLA+ from 1. *)
CpuBurst(p) == process_d[p].cpu_burst[pd[p].cpu_index + 1]
IoBurst(p) == process_d[p].io_burst[pd[p].io_index + 1]

(* Fault: a process whose CPU bursts are over is not asked for I/O. *)
should_terminate_cpu_only(p) == pd[p].cpu_index >= Len(process_d[p].cpu_burst)

(* Fault: an off-by-one, <= for <. *)
should_terminate_late(p) ==
    LET c == Len(process_d[p].cpu_burst)
    IN  c = 0 \/ pd[p].cpu_index > c

should_terminate(p) ==
    LET c == Len(process_d[p].cpu_burst)
        i == Len(process_d[p].io_burst)
    IN  \/ c = 0
        \/ i = 0 /\ pd[p].cpu_index >= c
        \/ /\ i # 0
           /\ ~ (pd[p].cpu_index < c /\ pd[p].io_index <= i)
           /\ ~ (pd[p].cpu_index <= c /\ pd[p].io_index < i)

(* Fault: one process short. *)
all_terminated_early == TERMINATED_PROCESS >= TOTAL_PROCESS - 1

all_terminated == TERMINATED_PROCESS >= TOTAL_PROCESS

Init ==
    /\ process_d \in Workloads
    /\ pd = [p \in Pids |-> create_process]
    /\ T_PROCESS = 0
    /\ readyQueue = <<>> /\ waitQueue = <<>> /\ task_list = <<>>
    /\ ready_count = 0 /\ wait_count = 0
    /\ global_counter = 0 /\ TERMINATED_PROCESS = 0
    /\ running_pd = NULL /\ sleeping_pd = NULL
    /\ start_time = 0 /\ end_time = 0
    /\ task_log = <<>> /\ reported = <<>>
    /\ main_pc = "join_arrival" /\ sched_pc = "unborn" /\ wake_pc = "unborn"
-----------------------------------------------------------------------------
(* The arrival thread.  It runs alone, so one iteration of its loop is one *)
(* step.                                                                   *)

(* cpu_burst[0]: with no CPU burst the read is past the end of a zero-byte *)
(* allocation.                                                             *)
FirstBurst(line) ==
    IF line.cpu_burst = <<>> THEN Garbage ELSE {line.cpu_burst[1]}

(* The next line is due: create its process and put it on both queues; the *)
(* clock ticks unless that was the last line.                              *)
ArrivalAdmit ==
    /\ main_pc = "join_arrival"
    /\ T_PROCESS < TOTAL_PROCESS
    /\ process_d[T_PROCESS].a_time <= global_counter
    /\ \E first \in FirstBurst(process_d[T_PROCESS]) :
         LET priority == IF Policy \in {"sjf", "srtf"} THEN first ELSE 0
             remaining == IF Policy \in {"rr", "srtf"} THEN first ELSE 0
         IN  /\ pd' = [pd EXCEPT ![T_PROCESS] =
                         [create_process EXCEPT !.priority = priority,
                                                !.remaining_time = remaining]]
             /\ readyQueue' = AddTo(readyQueue, T_PROCESS, priority)
             /\ task_list' = AddTo(task_list, T_PROCESS, priority)
    /\ ready_count' = ready_count + 1
    /\ T_PROCESS' = T_PROCESS + 1
    /\ global_counter' = IF T_PROCESS' = TOTAL_PROCESS THEN global_counter ELSE global_counter + 1
    /\ UNCHANGED <<process_d, waitQueue, wait_count, TERMINATED_PROCESS, running_pd,
                   sleeping_pd, log, reported, main_pc, sched_pc, wake_pc>>

(* The next line is not due yet: the clock ticks. *)
ArrivalTick ==
    /\ main_pc = "join_arrival"
    /\ T_PROCESS < TOTAL_PROCESS
    /\ process_d[T_PROCESS].a_time > global_counter
    /\ global_counter' = global_counter + 1
    /\ UNCHANGED <<tables, queues, semaphores, TERMINATED_PROCESS, running_pd,
                   sleeping_pd, log, reported, main_pc, sched_pc, wake_pc>>

add_arrival == ArrivalAdmit \/ ArrivalTick
-----------------------------------------------------------------------------
(* main, from the join of the arrival thread on. *)
MainStep(from, to) == main_pc = from /\ main_pc' = to

CreateScheduler ==
    /\ MainStep("join_arrival", "create_wakeup")
    /\ T_PROCESS = TOTAL_PROCESS
    /\ sched_pc' = "check"
    /\ UNCHANGED <<tables, queues, semaphores, global_counter, TERMINATED_PROCESS,
                   running_pd, sleeping_pd, log, reported, wake_pc>>

CreateWakeup ==
    /\ MainStep("create_wakeup", "join_wakeup")
    /\ wake_pc' = "check"
    /\ UNCHANGED <<tables, queues, semaphores, global_counter, TERMINATED_PROCESS,
                   running_pd, sleeping_pd, log, reported, sched_pc>>

(* Fault: the wake-up thread is not joined. *)
JoinWakeupSkipped ==
    /\ MainStep("join_wakeup", "join_scheduler")
    /\ UNCHANGED <<tables, queues, semaphores, global_counter, TERMINATED_PROCESS,
                   running_pd, sleeping_pd, log, reported, sched_pc, wake_pc>>

JoinWakeup ==
    /\ MainStep("join_wakeup", "join_scheduler")
    /\ wake_pc = "exit"
    /\ UNCHANGED <<tables, queues, semaphores, global_counter, TERMINATED_PROCESS,
                   running_pd, sleeping_pd, log, reported, sched_pc, wake_pc>>

JoinScheduler ==
    /\ MainStep("join_scheduler", "write_result")
    /\ sched_pc = "exit"
    /\ UNCHANGED <<tables, queues, semaphores, global_counter, TERMINATED_PROCESS,
                   running_pd, sleeping_pd, log, reported, sched_pc, wake_pc>>

(* write_result walks the task list and reads every turnaround time. *)
write_result ==
    /\ MainStep("write_result", "done")
    /\ reported' = [i \in 1 .. Len(task_list) |->
                      LET p == task_list[i].data IN <<p, pd[p].turnaround_time>>]
    /\ UNCHANGED <<tables, queues, semaphores, global_counter, TERMINATED_PROCESS,
                   running_pd, sleeping_pd, log, sched_pc, wake_pc>>

main == CreateScheduler \/ CreateWakeup \/ JoinWakeup \/ JoinScheduler \/ write_result
-----------------------------------------------------------------------------
(* The scheduler thread: the dispatch loop of schedular_*.  The "cpu"      *)
(* label hands over to the policy's _process_cpu, which comes back to      *)
(* "check".                                                                *)
SchedStep(from, to) == sched_pc = from /\ sched_pc' = to

SchedUnchanged ==
    UNCHANGED <<tables, waitQueue, wait_count, global_counter, TERMINATED_PROCESS,
                sleeping_pd, log, reported, main_pc, wake_pc>>

SchedCheck ==
    /\ SchedStep("check", IF all_terminated THEN "exit" ELSE "done?")
    /\ UNCHANGED <<readyQueue, ready_count, running_pd>> /\ SchedUnchanged

(* all_processes_done reads the counter and the two queues one by one. *)
SchedDoneCounter ==
    /\ SchedStep("done?", IF all_terminated THEN "ready empty?" ELSE "trywait")
    /\ UNCHANGED <<readyQueue, ready_count, running_pd>> /\ SchedUnchanged

SchedDoneReady ==
    /\ SchedStep("ready empty?", IF isEmpty(readyQueue) THEN "wait empty?" ELSE "trywait")
    /\ UNCHANGED <<readyQueue, ready_count, running_pd>> /\ SchedUnchanged

SchedDoneWait ==
    /\ SchedStep("wait empty?", IF isEmpty(waitQueue) THEN "exit" ELSE "trywait")
    /\ UNCHANGED <<readyQueue, ready_count, running_pd>> /\ SchedUnchanged

(* Fault: the semaphore is decremented without a test. *)
SchedTryWaitUnchecked ==
    /\ SchedStep("trywait", "remove")
    /\ ready_count' = ready_count - 1
    /\ UNCHANGED <<readyQueue, running_pd>> /\ SchedUnchanged

SchedTryWait ==
    /\ SchedStep("trywait", IF ready_count > 0 THEN "remove" ELSE "check")
    /\ ready_count' = IF ready_count > 0 THEN ready_count - 1 ELSE ready_count
    /\ UNCHANGED <<readyQueue, running_pd>> /\ SchedUnchanged

(* Fault: the node is read and left on the queue. *)
SchedPeek ==
    /\ SchedStep("remove", IF dequeued(readyQueue) = NULL THEN "check" ELSE "cpu")
    /\ running_pd' = dequeued(readyQueue)
    /\ UNCHANGED <<readyQueue, ready_count>> /\ SchedUnchanged

SchedRemove ==
    /\ SchedStep("remove", IF dequeued(readyQueue) = NULL THEN "check" ELSE "cpu")
    /\ running_pd' = dequeued(readyQueue)
    /\ readyQueue' = dequeue(readyQueue)
    /\ UNCHANGED ready_count /\ SchedUnchanged

dispatch ==
    \/ SchedCheck \/ SchedDoneCounter \/ SchedDoneReady \/ SchedDoneWait
    \/ SchedTryWait \/ SchedRemove
-----------------------------------------------------------------------------
(* Both _process_cpu and _process_io retire a finished process the same    *)
(* way: first the shared counter, then the process itself.                 *)
retire(p) ==
    pd' = [pd EXCEPT ![p].status = "TERMINATED", ![p].turnaround_time = pd[p].process_time]

(* What every policy's _process_cpu does at its two ends.  A process with  *)
(* nothing left to do retires without using the CPU ...                    *)
CpuUnchanged ==
    UNCHANGED <<process_d, T_PROCESS, task_list, ready_count, sleeping_pd, reported,
                main_pc, wake_pc>>

CpuFinished ==
    /\ SchedStep("cpu", "retire")
    /\ should_terminate(running_pd)
    /\ TERMINATED_PROCESS' = TERMINATED_PROCESS + 1
    /\ UNCHANGED <<pd, queues, wait_count, global_counter, running_pd, log>> /\ CpuUnchanged

CpuRetire ==
    /\ SchedStep("retire", "check")
    /\ retire(running_pd)
    /\ UNCHANGED <<queues, wait_count, global_counter, TERMINATED_PROCESS, running_pd, log>>
    /\ CpuUnchanged

(* ... and one whose burst is over goes to the wait queue.                 *)
CpuEnqueue ==
    /\ SchedStep("enqueue", "post")
    /\ waitQueue' = AddTo(waitQueue, running_pd, pd[running_pd].priority)
    /\ UNCHANGED <<pd, readyQueue, wait_count, global_counter, TERMINATED_PROCESS, running_pd,
                   log>>
    /\ CpuUnchanged

(* Fault: the sem_post is left to the caller, where it is commented out. *)
CpuPostForgotten ==
    /\ SchedStep("post", "log")
    /\ UNCHANGED <<pd, queues, wait_count, global_counter, TERMINATED_PROCESS, running_pd, log>>
    /\ CpuUnchanged

CpuPost ==
    /\ SchedStep("post", "log")
    /\ wait_count' = wait_count + 1
    /\ UNCHANGED <<pd, queues, global_counter, TERMINATED_PROCESS, running_pd, log>>
    /\ CpuUnchanged

(* One tick of the loops of rr and srtf.                                   *)
Spent(p) ==
    [pd EXCEPT ![p].cpu_time = @ + 1, ![p].process_time = @ + 1, ![p].remaining_time = @ - 1]

(* Fault: the clock is set from the start of the turn. *)
SpendTickStale(p, time) == pd' = Spent(p) /\ global_counter' = start_time + time + 1

SpendTick(p, time) == pd' = Spent(p) /\ global_counter' = global_counter + 1

(* Fault: the burst that was just served is kept. *)
NextRemaining_stale(p) == pd[p].remaining_time

(* What rr and srtf leave in remaining_time when a burst is over: the next *)
(* CPU burst, if there is one.                                             *)
NextRemaining(p) ==
    LET next == pd[p].cpu_index + 1
    IN  IF next < Len(process_d[p].cpu_burst)
        THEN process_d[p].cpu_burst[next + 1]
        ELSE pd[p].remaining_time

(* Fault: start and end swapped. *)
LogLineSwapped(p, end) ==
    [pid |-> p, cpu_index |-> pd[p].cpu_index, start |-> end, end |-> start_time]

(* write_cpu_process_data: the line reads the process and the globals.     *)
LogLineOf(p, end) == [pid |-> p, cpu_index |-> pd[p].cpu_index, start |-> start_time, end |-> end]

(* The log line is written after the process was handed to the wake-up     *)
(* thread.                                                                 *)
CpuLog ==
    /\ SchedStep("log", "check")
    /\ task_log' = Append(task_log, LogLineOf(running_pd, end_time))
    /\ UNCHANGED <<pd, queues, wait_count, global_counter, TERMINATED_PROCESS, running_pd,
                   start_time, end_time>>
    /\ CpuUnchanged
-----------------------------------------------------------------------------
(* The wake-up thread: wakeUp_* and _process_io. *)
WakeStep(from, to) == wake_pc = from /\ wake_pc' = to

WakeUnchanged ==
    UNCHANGED <<process_d, T_PROCESS, task_list, running_pd, log, reported, main_pc, sched_pc>>

WakeCheck ==
    /\ WakeStep("check", IF all_terminated THEN "exit" ELSE "trywait")
    /\ UNCHANGED <<pd, queues, semaphores, global_counter, TERMINATED_PROCESS, sleeping_pd>>
    /\ WakeUnchanged

WakeTryWait ==
    /\ WakeStep("trywait", IF wait_count > 0 THEN "remove" ELSE "check")
    /\ wait_count' = IF wait_count > 0 THEN wait_count - 1 ELSE wait_count
    /\ UNCHANGED <<pd, queues, ready_count, global_counter, TERMINATED_PROCESS, sleeping_pd>>
    /\ WakeUnchanged

WakeRemove ==
    /\ WakeStep("remove", IF dequeued(waitQueue) = NULL THEN "check" ELSE "io")
    /\ sleeping_pd' = dequeued(waitQueue)
    /\ waitQueue' = dequeue(waitQueue)
    /\ UNCHANGED <<pd, readyQueue, semaphores, global_counter, TERMINATED_PROCESS>>
    /\ WakeUnchanged

(* _process_io: a process with nothing left to do retires. *)
(* Fault: the termination is not counted. *)
IoFinishedUncounted ==
    /\ WakeStep("io", "retire")
    /\ should_terminate(sleeping_pd)
    /\ UNCHANGED <<pd, queues, semaphores, global_counter, TERMINATED_PROCESS, sleeping_pd>>
    /\ WakeUnchanged

IoFinished ==
    /\ WakeStep("io", "retire")
    /\ should_terminate(sleeping_pd)
    /\ TERMINATED_PROCESS' = TERMINATED_PROCESS + 1
    /\ UNCHANGED <<pd, queues, semaphores, global_counter, sleeping_pd>> /\ WakeUnchanged

IoRetire ==
    /\ WakeStep("retire", "check")
    /\ retire(sleeping_pd)
    /\ UNCHANGED <<queues, semaphores, global_counter, TERMINATED_PROCESS, sleeping_pd>>
    /\ WakeUnchanged

(* _process_io: the next I/O burst, charged to the clock in one atomic add. *)
(* Any status but SLEEP returns UNDEFINED and drops the process.            *)
IoBurstDone ==
    /\ wake_pc = "io"
    /\ ~ should_terminate(sleeping_pd)
    /\ LET p == sleeping_pd
       IN  IF pd[p].status = "SLEEP"
           THEN /\ WakeStep("io", "enqueue")
                /\ global_counter' = global_counter + IoBurst(p)
                /\ pd' = [pd EXCEPT ![p].io_time = @ + IoBurst(p),
                                    ![p].process_time = @ + IoBurst(p),
                                    ![p].io_index = @ + 1,
                                    ![p].status = "READY"]
           ELSE /\ WakeStep("io", "check")
                /\ UNCHANGED <<global_counter, pd>>
    /\ UNCHANGED <<queues, semaphores, TERMINATED_PROCESS, sleeping_pd>> /\ WakeUnchanged

IoEnqueue ==
    /\ WakeStep("enqueue", "post")
    /\ readyQueue' = AddTo(readyQueue, sleeping_pd, pd[sleeping_pd].priority)
    /\ UNCHANGED <<pd, waitQueue, semaphores, global_counter, TERMINATED_PROCESS, sleeping_pd>>
    /\ WakeUnchanged

(* Fault: the sem_post is left to the caller, where it is commented out. *)
IoPostForgotten ==
    /\ WakeStep("post", "check")
    /\ UNCHANGED <<pd, queues, semaphores, global_counter, TERMINATED_PROCESS, sleeping_pd>>
    /\ WakeUnchanged

IoPost ==
    /\ WakeStep("post", "check")
    /\ ready_count' = ready_count + 1
    /\ UNCHANGED <<pd, queues, wait_count, global_counter, TERMINATED_PROCESS, sleeping_pd>>
    /\ WakeUnchanged

wakeUp ==
    \/ WakeCheck \/ WakeTryWait \/ WakeRemove
    \/ IoFinished \/ IoRetire \/ IoBurstDone \/ IoEnqueue \/ IoPost
-----------------------------------------------------------------------------
(* Where the processes are.                                                *)
(* The scheduler owns running_pd from the dequeue until the process is on  *)
(* the wait queue or retired; the labels not listed here are _process_cpu's. *)
OnCpu ==
    IF sched_pc \in {"unborn", "check", "done?", "ready empty?", "wait empty?", "trywait",
                     "remove", "redispatch", "post", "log", "exit"}
    THEN {} ELSE {running_pd}
OnIo == IF wake_pc \in {"io", "retire", "enqueue"} THEN {sleeping_pd} ELSE {}
Retired == {p \in Pids : pd[p].status = "TERMINATED"}

process_t ==
    [status : {"NEW", "READY", "SLEEP", "TERMINATED"}, cpu_index : Nat, io_index : Nat,
     priority : Int, remaining_time : Int, cpu_time : Nat, io_time : Nat,
     process_time : Nat, turnaround_time : Nat]

Node == [data : Pids, priority : Int]

LogLine == [pid : Pids, cpu_index : Nat, start : Nat, end : Nat]

DispatchLabels ==
    {"unborn", "check", "done?", "ready empty?", "wait empty?", "trywait", "remove", "cpu",
     "retire", "enqueue", "post", "log", "exit"}

(* The types of the variables every policy has; a policy adds its labels. *)
SimTypeOK(cpuLabels) ==
    /\ process_d \in Workloads
    /\ pd \in [Pids -> process_t]
    /\ T_PROCESS \in 0 .. TOTAL_PROCESS
    /\ readyQueue \in Seq(Node) /\ waitQueue \in Seq(Node) /\ task_list \in Seq(Node)
    /\ ready_count \in Nat /\ wait_count \in Nat
    /\ global_counter \in Nat /\ TERMINATED_PROCESS \in Nat
    /\ running_pd \in Pids \cup {NULL} /\ sleeping_pd \in Pids \cup {NULL}
    /\ start_time \in Nat /\ end_time \in Nat
    /\ task_log \in Seq(LogLine)
    /\ reported \in Seq(Pids \X Nat)
    /\ main_pc \in {"join_arrival", "create_wakeup", "join_wakeup", "join_scheduler",
                    "write_result", "done"}
    /\ sched_pc \in DispatchLabels \cup cpuLabels
    /\ wake_pc \in {"unborn", "check", "trywait", "remove", "io", "retire", "enqueue", "post",
                    "exit"}
-----------------------------------------------------------------------------
(* Properties of every policy.                                             *)

Flag(b) == IF b THEN 1 ELSE 0

(* A semaphore counts the nodes of its queue, short only of the node being *)
(* handed over: enqueued but not yet posted, or waited for but not yet     *)
(* removed.  The "BUG: No process in ... queue" branches are dead because  *)
(* of it.                                                                  *)
SemaphoresCountQueues ==
    /\ Len(readyQueue) = ready_count + Flag(sched_pc \in {"remove", "redispatch"})
                                      + Flag(wake_pc = "post")
    /\ Len(waitQueue) = wait_count + Flag(wake_pc = "remove") + Flag(sched_pc = "post")

Apart(S, T) == S \cap T = {}

(* Every created process is in exactly one place - ready, waiting, on the  *)
(* CPU, doing I/O or retired - and at most once on a queue: neither thread *)
(* loses a process or hands one over twice.                                *)
OneOwner ==
    LET ready == Carried(readyQueue)
        waiting == Carried(waitQueue)
    IN  /\ ready \cup waiting \cup OnCpu \cup OnIo \cup Retired = 0 .. T_PROCESS - 1
        /\ Apart(ready, waiting \cup OnCpu \cup OnIo \cup Retired)
        /\ Apart(waiting, OnCpu \cup OnIo \cup Retired)
        /\ Apart(OnCpu, OnIo \cup Retired)
        /\ Apart(OnIo, Retired)
        /\ NoDuplicates(readyQueue) /\ NoDuplicates(waitQueue)

(* _should_terminate keeps both threads inside the burst arrays.           *)
BurstIndexInBounds ==
    /\ sched_pc = "run" \/ (sched_pc = "cpu" /\ ~ should_terminate(running_pd)) =>
         pd[running_pd].cpu_index < Len(process_d[running_pd].cpu_burst)
    /\ wake_pc = "io" /\ ~ should_terminate(sleeping_pd) =>
         pd[sleeping_pd].io_index < Len(process_d[sleeping_pd].io_burst)

(* The counter both threads poll counts each retirement once, ahead of the *)
(* status of at most one process per thread.                               *)
CounterMatchesRetired ==
    TERMINATED_PROCESS =
        Cardinality(Retired) + Flag(sched_pc = "retire") + Flag(wake_pc = "retire")

(* A thread leaves its loop only when no process is left to serve: nothing *)
(* queued, nothing posted, every process retired or about to be.           *)
ExitDrained ==
    sched_pc = "exit" \/ wake_pc = "exit" =>
        /\ isEmpty(readyQueue) /\ isEmpty(waitQueue)
        /\ ready_count = 0 /\ wait_count = 0
        /\ Pids = Retired \cup (IF sched_pc = "retire" THEN OnCpu ELSE {})
                          \cup (IF wake_pc = "retire" THEN OnIo ELSE {})

(* The clock when the last process was admitted: one admission a tick, in  *)
(* file order, none before its arrival time.                               *)
LastAdmission ==
    LET admitted[p \in Pids] ==
          IF p = 0 THEN process_d[0].a_time
          ELSE LET due == process_d[p].a_time
                   free == admitted[p - 1] + 1
               IN  IF due > free THEN due ELSE free
    IN  admitted[TOTAL_PROCESS - 1]

(* No tick is lost or counted twice: once the arrivals are over the clock  *)
(* is the last admission plus all CPU and I/O time served, although both   *)
(* threads advance it concurrently.                                        *)
ClockAccounting ==
    main_pc # "join_arrival" =>
        global_counter = LastAdmission + SumFunction([p \in Pids |-> pd[p].process_time])

(* write_result, which takes no lock, sees the final turnaround time of    *)
(* every process exactly once: both threads have ended by then.            *)
ReportComplete ==
    main_pc = "done" =>
        /\ Len(reported) = TOTAL_PROCESS
        /\ {reported[i][1] : i \in 1 .. Len(reported)} = Pids
        /\ \A i \in 1 .. Len(reported) :
             LET line == process_d[reported[i][1]]
             IN  reported[i][2] = SumFunction(line.cpu_burst) + SumFunction(line.io_burst)

(* The CPU log is a timeline of one CPU: each line covers at least Least   *)
(* of its burst, lines do not overlap, and no burst is logged twice.       *)
Timeline(Least(_)) ==
    /\ \A k \in 1 .. Len(task_log) :
         LET line == task_log[k]
         IN  line.end - line.start >= Least(process_d[line.pid].cpu_burst[line.cpu_index])
    /\ \A j, k \in 1 .. Len(task_log) :
         j < k => /\ task_log[j].end <= task_log[k].start
                  /\ task_log[j].pid = task_log[k].pid =>
                       task_log[j].cpu_index < task_log[k].cpu_index

(* Processes filed under the same priority (all of them, for fcfs and rr)  *)
(* take turns in arrival order for as long as they live: the ready and the *)
(* wait queue together never let one overtake another.                     *)
NoOvertaking ==
    \A p, q \in (0 .. T_PROCESS - 1) \ Retired :
        p < q /\ pd[p].priority = pd[q].priority =>
            pd[p].cpu_index - pd[q].cpu_index \in {0, 1}

(* What makes the invariants above inductive.  The status of a process     *)
(* follows from where it is ...                                            *)
StatusByPlace ==
    /\ \A p \in Carried(readyQueue) : pd[p].status \in {"NEW", "READY"}
    /\ \A p \in Carried(waitQueue) : pd[p].status = "SLEEP"
    /\ sched_pc \in {"cpu", "run", "end", "compare", "preempt", "requeue"} =>
         pd[running_pd].status \in {"NEW", "READY"}
    /\ sched_pc = "enqueue" => pd[running_pd].status = "SLEEP"
    /\ wake_pc = "io" => pd[sleeping_pd].status = "SLEEP"
    /\ wake_pc = "enqueue" => pd[sleeping_pd].status = "READY"

(* ... its two burst indices follow from its status: an I/O burst is due   *)
(* exactly when the process sleeps ...                                     *)
BurstsInStep ==
    /\ \A p \in Pids :
         /\ pd[p].status \in {"NEW", "READY"} => pd[p].cpu_index = pd[p].io_index
         /\ pd[p].status = "NEW" => pd[p].cpu_index = 0
         /\ pd[p].status = "SLEEP" => pd[p].cpu_index = pd[p].io_index + 1
    /\ sched_pc \in {"run", "end", "compare", "preempt", "requeue"} =>
         pd[running_pd].cpu_index < Len(process_d[running_pd].cpu_burst)

(* ... and no thread runs before main creates it.                          *)
ThreadsStarted ==
    /\ main_pc = "join_arrival" => sched_pc = "unborn"
    /\ main_pc \in {"join_arrival", "create_wakeup"} => wake_pc = "unborn"
    /\ sched_pc \in {"post", "log"} => running_pd \in Pids

(* ... and whoever leaves a loop has seen the counter at its limit, where  *)
(* it stays.                                                               *)
ExitCounted ==
    sched_pc \in {"ready empty?", "wait empty?", "exit"} \/ wake_pc = "exit" => all_terminated

SimInv == SemaphoresCountQueues /\ OneOwner /\ StatusByPlace /\ BurstsInStep /\ ThreadsStarted

(* What the two threads keep up between them under every policy, whatever  *)
(* the interleaving: hand-overs, bursts in bounds, the counter, the exit.  *)
ThreadsInv ==
    SimInv /\ BurstIndexInBounds /\ CounterMatchesRetired /\ ExitDrained /\ ExitCounted

(* The refinement of ProcessLifecycle.  A burst counts once its process    *)
(* has left for the next queue, one step after the code moves the index.   *)
PhaseOf(p) ==
    CASE p \in Retired -> "terminated"
      [] p \in OnCpu -> "cpu"
      [] p \in OnIo -> "io"
      [] p \in Carried(readyQueue) -> "ready"
      [] p \in Carried(waitQueue) -> "waiting"
      [] OTHER -> "absent"

Lifecycle ==
    INSTANCE ProcessLifecycle WITH
        Procs <- Pids, Lines <- Workloads, Preemptive <- (Policy = "srtf"),
        line <- process_d,
        phase <- [p \in Pids |-> PhaseOf(p)],
        cpu_done <- [p \in Pids |-> pd[p].cpu_index
                                      - Flag(sched_pc = "enqueue" /\ p = running_pd)],
        io_done <- [p \in Pids |-> pd[p].io_index
                                     - Flag(wake_pc = "enqueue" /\ p = sleeping_pd)]

(* The threads together do what ProcessLifecycle promises: no interleaving *)
(* makes a process skip or repeat a burst, put two on the CPU or terminate *)
(* one early.                                                              *)
Implements == Lifecycle!LifecycleSpec

(* The program ends: both polling threads leave their loops and main       *)
(* writes the result.                                                      *)
ProgramExits == <>(main_pc = "done")
=============================================================================
