---------------------------- MODULE SharedQueue -----------------------------
(***************************************************************************)
(* What a process queue promises the threads that share it: every call is  *)
(* one step on the sequence of nodes, and a process is either on the queue *)
(* or in the hands of the thread that took it off.  No nodes, no mutex.    *)
(***************************************************************************)
EXTENDS Integers, Sequences, SchedQueue

CONSTANTS
    Threads, Procs,
    PriorityOf      (* the priority field of each process                  *)

VARIABLES
    sorted,         (* is the queue filed by priority (sjf, srtf)?         *)
    queue, owned

sharedQueue == <<sorted, queue, owned>>

Put(t, p) ==
    /\ p \in owned[t]
    /\ owned' = [owned EXCEPT ![t] = @ \ {p}]
    /\ queue' = IF sorted THEN p_enqueue(queue, p, PriorityOf[p]) ELSE enqueue(queue, p)

Take(t) ==
    /\ ~ isEmpty(queue)
    /\ owned' = [owned EXCEPT ![t] = @ \cup {dequeued(queue)}]
    /\ queue' = dequeue(queue)

(* The process asked for leaves from where it is; asked for the rear one   *)
(* of several, the code takes the front one.  That is what its callers     *)
(* get, so it is promised here; what the call is for, that it removes the  *)
(* process asked for, is RemovesAsked of LinkedQueue, and does not hold.   *)
TakeByPid(t, pid) ==
    \E k \in 1 .. Len(queue) :
        /\ queue[k].data = pid
        /\ IF k = Len(queue) /\ k > 1
           THEN Take(t)
           ELSE /\ owned' = [owned EXCEPT ![t] = @ \cup {pid}]
                /\ queue' = RemoveAt(queue, k)

SharedInit ==
    /\ sorted \in BOOLEAN
    /\ queue = <<>>
    /\ owned \in [Threads -> SUBSET Procs]
    /\ \A p \in Procs : \E t \in Threads : p \in owned[t]
    /\ \A t, u \in Threads : t # u => owned[t] \cap owned[u] = {}

SharedNext ==
    /\ \E t \in Threads : \/ Take(t)
                          \/ \E p \in Procs : Put(t, p) \/ TakeByPid(t, p)
    /\ UNCHANGED sorted

SharedSpec == SharedInit /\ [][SharedNext]_sharedQueue
=============================================================================
