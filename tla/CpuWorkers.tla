----------------------------- MODULE CpuWorkers -----------------------------
(***************************************************************************)
(* proc_ex.c: main files processes in an array, NCPU worker threads take   *)
(* them from it and run them.  The queue's mutex is held for no longer     *)
(* than a critical section without a wait in it, or up to the              *)
(* pthread_cond_wait that gives it up, so each of these is one step.       *)
(***************************************************************************)
EXTENDS Integers, Sequences, FiniteSets

CONSTANTS
    NCPU,
    ProcessCount    (* processes main adds, 5 in the code, at most 100     *)

Cpus == 0 .. NCPU - 1
Idle == -1                          (* NULL in cpu_task and p *)

VARIABLES
    ready_queue, front, rear,
    cpu_task,               (* what each CPU is running                    *)
    p,                      (* the process each worker has dequeued        *)
    finished,               (* processes freed, in order                   *)
    pc

workerVars == <<ready_queue, front, rear, cpu_task, p, finished, pc>>

Init ==
    /\ ready_queue = <<>>
    /\ front = 0 /\ rear = 0
    /\ cpu_task = [c \in Cpus |-> Idle]
    /\ p = [c \in Cpus |-> Idle]
    /\ finished = <<>>
    /\ pc = [c \in Cpus |-> "lock"]
-----------------------------------------------------------------------------
Goto(c, from, to) == pc[c] = from /\ pc' = [pc EXCEPT ![c] = to]
Waiting == {c \in Cpus : pc[c] = "cond_wait"}

(* Fault: nobody is told of the new process. *)
EnqueueUnsignalled ==
    /\ rear < ProcessCount
    /\ ready_queue' = Append(ready_queue, rear)
    /\ rear' = rear + 1
    /\ UNCHANGED <<front, cpu_task, p, finished, pc>>

(* main adds process number rear and signals, which wakes one of the       *)
(* workers that wait, if there is one.                                     *)
Enqueue ==
    /\ rear < ProcessCount
    /\ ready_queue' = Append(ready_queue, rear)
    /\ rear' = rear + 1
    /\ \/ Waiting = {} /\ UNCHANGED pc
       \/ \E c \in Waiting : pc' = [pc EXCEPT ![c] = "lock"]
    /\ UNCHANGED <<front, cpu_task, p, finished>>

Wait(c) ==
    /\ Goto(c, "lock", "cond_wait")
    /\ front = rear
    /\ UNCHANGED <<ready_queue, front, rear, cpu_task, p, finished>>

(* A wait may end by itself; the loop then tests again. *)
SpuriousWakeup(c) ==
    /\ Goto(c, "cond_wait", "lock")
    /\ UNCHANGED <<ready_queue, front, rear, cpu_task, p, finished>>

Dequeue(c) ==
    /\ Goto(c, "lock", "set_task")
    /\ front < rear
    /\ p' = [p EXCEPT ![c] = ready_queue[front + 1]]
    /\ front' = front + 1
    /\ UNCHANGED <<ready_queue, rear, cpu_task, finished>>

SetTask(c) ==
    /\ Goto(c, "set_task", "run")
    /\ cpu_task' = [cpu_task EXCEPT ![c] = p[c]]
    /\ UNCHANGED <<ready_queue, front, rear, p, finished>>

(* The burst is over; the slot is cleared and the process freed. *)
ClearTask(c) ==
    /\ Goto(c, "run", "lock")
    /\ cpu_task' = [cpu_task EXCEPT ![c] = Idle]
    /\ finished' = Append(finished, p[c])
    /\ p' = [p EXCEPT ![c] = Idle]
    /\ UNCHANGED <<ready_queue, front, rear>>

cpu_worker(c) == Wait(c) \/ Dequeue(c) \/ SetTask(c) \/ ClearTask(c)

Next == Enqueue \/ \E c \in Cpus : cpu_worker(c) \/ SpuriousWakeup(c)

Spec == Init /\ [][Next]_workerVars
-----------------------------------------------------------------------------
(* Every process main files has been run to its end once.                  *)
Finished ==
    /\ Len(finished) = ProcessCount
    /\ {finished[n] : n \in 1 .. ProcessCount} = 0 .. ProcessCount - 1
=============================================================================
