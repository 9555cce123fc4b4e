----------------------------- MODULE SchedQueue -----------------------------
(***************************************************************************)
(* The process queues (src/queue.c, src/priority_queue.c) at the level of  *)
(* values: a queue is the sequence of its nodes from front to rear.  The   *)
(* simulator modules use these operators inside one atomic step, because   *)
(* every wrapper of schedule_algorithms/*/*_th.c holds the queue's mutex   *)
(* around the call.                                                        *)
(***************************************************************************)
EXTENDS Integers, Sequences, SequencesExt

(* The NULL process pointer; process ids are never negative. *)
NULL == -1

(* A queue node: the process it carries and the priority it was filed under. *)
node(pid, priority) == [data |-> pid, priority |-> priority]

(* len == 0; every operation below keeps len equal to the number of nodes. *)
isEmpty(q) == q = <<>>

(* Fault: the new node goes to the front. *)
enqueue_at_front(q, pid) == <<node(pid, 0)>> \o q

(* calloc leaves the node's priority field 0, and the node goes to the rear. *)
enqueue(q, pid) == Append(q, node(pid, 0))

(* The pointer dequeue returns, and the queue it leaves behind. *)
dequeued(q) == IF isEmpty(q) THEN NULL ELSE Head(q).data
dequeue(q) == IF isEmpty(q) THEN q ELSE Tail(q)

(* Fault: >= for >, a newcomer passes its equals. *)
p_enqueue_unstable(q, pid, priority) ==
    LET larger == {i \in 1 .. Len(q) : q[i].priority >= priority}
    IN  InsertAt(q, Min(larger \cup {Len(q) + 1}), node(pid, priority))

(* Fault: only the front is compared. *)
p_enqueue_front_only(q, pid, priority) ==
    IF q # <<>> /\ Head(q).priority > priority
    THEN <<node(pid, priority)>> \o q
    ELSE Append(q, node(pid, priority))

(* Fault: the new node's next is not set, the nodes behind it are lost. *)
p_enqueue_unlinked(q, pid, priority) ==
    Append(SelectSeq(q, LAMBDA n : n.priority <= priority), node(pid, priority))

(* The new node goes in front of the first node of strictly larger priority, *)
(* so that nodes of equal priority stay in order of insertion.               *)
p_enqueue(q, pid, priority) ==
    LET larger == {i \in 1 .. Len(q) : q[i].priority > priority}
    IN  InsertAt(q, Min(larger \cup {Len(q) + 1}), node(pid, priority))

(* The processes on a queue, and that none is on it twice. *)
Carried(q) == {n.data : n \in ToSet(q)}
NoDuplicates(q) == \A i, j \in 1 .. Len(q) : q[i].data = q[j].data => i = j
=============================================================================
