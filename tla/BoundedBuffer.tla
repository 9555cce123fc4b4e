--------------------------- MODULE BoundedBuffer ----------------------------
(***************************************************************************)
(* The producer and the consumer of thread_ex.c: a ring buffer under one   *)
(* mutex, two counting semaphores for its free and its filled slots.  A    *)
(* step is a semaphore operation, the lock, or the critical section.       *)
(***************************************************************************)
EXTENDS Integers, Sequences

CONSTANTS
    BUF_SIZE,
    ItemCount       (* how often each of the two loops, 10 in the code      *)

NoThread == "none"

VARIABLES
    buffer, in, out,
    wait_count, ready_count,    (* free and filled slots                   *)
    mutex,                      (* the thread that holds it                *)
    item, i,                    (* loop counters of producer and consumer  *)
    consumed,                   (* the items printed by the consumer       *)
    pc

ring == <<buffer, in, out>>
semaphores == <<wait_count, ready_count>>
bufferVars == <<ring, semaphores, mutex, item, i, consumed, pc>>

Threads == {"producer", "consumer"}

Init ==
    /\ buffer = [k \in 0 .. BUF_SIZE - 1 |-> 0]
    /\ in = 0 /\ out = 0
    /\ wait_count = BUF_SIZE /\ ready_count = 0
    /\ mutex = NoThread
    /\ item = 0 /\ i = 0 /\ consumed = <<>>
    /\ pc = [t \in Threads |-> "sem_wait"]
-----------------------------------------------------------------------------
Goto(t, from, to) == pc[t] = from /\ pc' = [pc EXCEPT ![t] = to]

(* Fault: the producer does not wait for a free slot. *)
ProducerWaitSkipped ==
    /\ Goto("producer", "sem_wait", "lock") /\ item < ItemCount
    /\ UNCHANGED <<ring, semaphores, mutex, item, i, consumed>>

ProducerWait ==
    /\ Goto("producer", "sem_wait", "lock") /\ item < ItemCount
    /\ wait_count > 0
    /\ wait_count' = wait_count - 1
    /\ UNCHANGED <<ring, ready_count, mutex, item, i, consumed>>

ConsumerWait ==
    /\ Goto("consumer", "sem_wait", "lock") /\ i < ItemCount
    /\ ready_count > 0
    /\ ready_count' = ready_count - 1
    /\ UNCHANGED <<ring, wait_count, mutex, item, i, consumed>>

Lock(t) ==
    /\ Goto(t, "lock", "critical")
    /\ mutex = NoThread
    /\ mutex' = t
    /\ UNCHANGED <<ring, semaphores, item, i, consumed>>

Produce ==
    /\ Goto("producer", "critical", "post")
    /\ buffer' = [buffer EXCEPT ![in] = item]
    /\ in' = (in + 1) % BUF_SIZE
    /\ mutex' = NoThread
    /\ UNCHANGED <<out, semaphores, item, i, consumed>>

Consume ==
    /\ Goto("consumer", "critical", "post")
    /\ consumed' = Append(consumed, buffer[out])
    /\ out' = (out + 1) % BUF_SIZE
    /\ mutex' = NoThread
    /\ UNCHANGED <<buffer, in, semaphores, item, i>>

ProducerPost ==
    /\ Goto("producer", "post", "sem_wait")
    /\ ready_count' = ready_count + 1
    /\ item' = item + 1
    /\ UNCHANGED <<ring, wait_count, mutex, i, consumed>>

(* Fault: the consumer does not give the slot back. *)
ConsumerPostForgotten ==
    /\ Goto("consumer", "post", "sem_wait")
    /\ i' = i + 1
    /\ UNCHANGED <<ring, semaphores, mutex, item, consumed>>

ConsumerPost ==
    /\ Goto("consumer", "post", "sem_wait")
    /\ wait_count' = wait_count + 1
    /\ i' = i + 1
    /\ UNCHANGED <<ring, ready_count, mutex, item, consumed>>

producer == ProducerWait \/ Lock("producer") \/ Produce \/ ProducerPost
consumer == ConsumerWait \/ Lock("consumer") \/ Consume \/ ConsumerPost

Next == producer \/ consumer

Spec == Init /\ [][Next]_bufferVars
-----------------------------------------------------------------------------
Written == IF pc["producer"] = "post" THEN item + 1 ELSE item

(* What has been written and not consumed is still in the ring, in order.  *)
Pending == [k \in 1 .. Written - Len(consumed) |-> buffer[(out + k - 1) % BUF_SIZE]]

(* The two loops are a bounded FIFO channel. *)
Fifo == INSTANCE Channel WITH Capacity <- BUF_SIZE, inFlight <- Pending,
                              sent <- Written, received <- consumed
ImplementsChannel == Fifo!ChannelSpec

(* Both threads finish, so main's two joins return, and every item has     *)
(* been consumed, in order.                                                *)
Consumed == item = ItemCount /\ i = ItemCount /\ consumed = [k \in 1 .. ItemCount |-> k - 1]
=============================================================================
