----------------------------- MODULE Experiments -----------------------------
(***************************************************************************)
(* The code beside the simulator: the programs of thread_ex.c and          *)
(* proc_ex.c and the list of src/linkedList.c.  They share nothing, not    *)
(* even a process: whoever starts one runs it alone.                       *)
(***************************************************************************)
EXTENDS Integers, Sequences

CONSTANTS
    BUF_SIZE, ItemCount,        (* thread_ex.c                             *)
    NCPU, ProcessCount,         (* proc_ex.c; its queue has 100 places     *)
    Addr, Values                (* linkedList.c                            *)

ASSUME RingAssumption == BUF_SIZE \in Nat \ {0} /\ ItemCount \in Nat
ASSUME WorkersAssumption == NCPU \in Nat \ {0} /\ ProcessCount \in 0 .. 100
ASSUME AddrAssumption == 0 \notin Addr

VARIABLES
    program,
    buffer, in, out, wait_count, ready_count, mutex, item, i, consumed, ring_pc,
    ready_queue, front, rear, cpu_task, p, finished, worker_pc,
    list_front, list_rear, data, next, allocated, content, owed

Ring == INSTANCE BoundedBuffer WITH pc <- ring_pc
Workers == INSTANCE CpuWorkers WITH pc <- worker_pc
List == INSTANCE IntList WITH front <- list_front, rear <- list_rear

ringVars == <<buffer, in, out, wait_count, ready_count, mutex, item, i, consumed, ring_pc>>
workerVars == <<ready_queue, front, rear, cpu_task, p, finished, worker_pc>>
listVars == <<list_front, list_rear, data, next, allocated, content, owed>>

Init ==
    /\ program \in {"thread_ex", "proc_ex", "linkedList"}
    /\ Ring!Init /\ Workers!Init /\ List!Init
-----------------------------------------------------------------------------
Only(name, others) == program = name /\ UNCHANGED <<program, others>>

producer == Ring!producer /\ Only("thread_ex", <<workerVars, listVars>>)
consumer == Ring!consumer /\ Only("thread_ex", <<workerVars, listVars>>)

main_proc == Workers!Enqueue /\ Only("proc_ex", <<ringVars, listVars>>)
cpu_worker(c) == Workers!cpu_worker(c) /\ Only("proc_ex", <<ringVars, listVars>>)
SpuriousWakeup(c) == Workers!SpuriousWakeup(c) /\ Only("proc_ex", <<ringVars, listVars>>)

list_calls == List!Next /\ Only("linkedList", <<ringVars, workerVars>>)

Next ==
    \/ producer \/ consumer
    \/ main_proc \/ \E c \in Workers!Cpus : cpu_worker(c) \/ SpuriousWakeup(c)
    \/ list_calls

experimentVars == <<program, ringVars, workerVars, listVars>>

(* The threads are scheduled; a spurious wake-up need not happen.  Weak    *)
(* fairness is enough for the mutex of the ring too: a thread that waits   *)
(* for it soon stops the other one, by the semaphore it does not post.     *)
Fairness ==
    /\ WF_experimentVars(producer) /\ WF_experimentVars(consumer)
    /\ WF_experimentVars(main_proc)
    /\ \A c \in Workers!Cpus : WF_experimentVars(cpu_worker(c))

Spec == Init /\ [][Next]_experimentVars /\ Fairness
-----------------------------------------------------------------------------
(* The ring buffer, its mutex and its two semaphores are a bounded FIFO    *)
(* channel: no item is overwritten before it is read, or read twice.       *)
ImplementsChannel == Ring!ImplementsChannel

(* No wake-up is lost: both threads of thread_ex.c get through all items,  *)
(* in order, and the workers of proc_ex.c run every process just once.     *)
ExperimentsFinish ==
    /\ program = "thread_ex" ~> Ring!Consumed
    /\ program = "proc_ex" => <>[]Workers!Finished

(* What validate_list compares, as far as the code keeps it: the list      *)
(* holds the integers added and not removed, in order; no node leaks and   *)
(* rear is right where there is more than one node.  After a removal at    *)
(* the end of a list of one node it holds one too many, until next empty.  *)
HoldsContent == List!HoldsContent
=============================================================================
