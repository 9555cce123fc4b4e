------------------------- MODULE ExperimentsProofs --------------------------
(***************************************************************************)
(* Of the programs beside the simulator: that the ring of thread_ex.c is a *)
(* bounded FIFO channel, whatever its size and the number of items, and    *)
(* that the list of linkedList.c holds what its callers put there.         *)
(***************************************************************************)
EXTENDS Experiments, DataProofs

(***************************************************************************)
(* The ring.                                                               *)
(***************************************************************************)
Stations == {"sem_wait", "lock", "critical", "post"}

(* A thread that has waited and not posted, and one that has done its      *)
(* critical section and not posted.                                        *)
Busy(t) == IF ring_pc[t] = "sem_wait" THEN 0 ELSE 1
Through(t) == IF ring_pc[t] = "post" THEN 1 ELSE 0

(* The place so many behind out. *)
Place(o, k) == IF o + k < BUF_SIZE THEN o + k ELSE o + k - BUF_SIZE

RingType ==
    /\ buffer \in [0 .. BUF_SIZE - 1 -> Nat]
    /\ in \in 0 .. BUF_SIZE - 1 /\ out \in 0 .. BUF_SIZE - 1
    /\ wait_count \in Nat /\ ready_count \in Nat
    /\ item \in Nat /\ i \in Nat /\ consumed \in Seq(Nat)
    /\ ring_pc \in [Ring!Threads -> Stations]

(* The semaphores count what is free and what is filled, but for what the  *)
(* two threads have in hand; in is as far behind out as there are items    *)
(* written and not consumed.                                               *)
RingCounts ==
    /\ wait_count = BUF_SIZE + i - (item + Busy("producer"))
    /\ ready_count = item - (i + Busy("consumer"))
    /\ Len(consumed) = i + Through("consumer")
    /\ ring_pc["producer"] # "sem_wait" => item < ItemCount

Lag == Ring!Written - Len(consumed)

RingInv == RingType /\ RingCounts /\ in = Place(out, Lag)

(* The remainder in the code is one subtraction at most.                   *)
LEMMA ModOnce ==
    ASSUME NEW n \in Nat \ {0}, NEW x \in Nat, x < n + n
    PROVE  x % n = IF x < n THEN x ELSE x - n
  OBVIOUS

LEMMA PlaceFacts ==
    ASSUME NEW o \in 0 .. BUF_SIZE - 1, NEW k \in 0 .. BUF_SIZE
    PROVE  /\ Place(o, k) \in 0 .. BUF_SIZE - 1 /\ (o + k) % BUF_SIZE = Place(o, k)
           /\ (Place(o, k) + 1) % BUF_SIZE = IF k = BUF_SIZE THEN Place(o, 1) ELSE Place(o, k + 1)
           /\ k < BUF_SIZE => Place(Place(o, 1), k) = Place(o, k + 1)
           /\ \A l \in 0 .. BUF_SIZE - 1 : l < k /\ k < BUF_SIZE => Place(o, l) # Place(o, k)
<1>1. BUF_SIZE \in Nat \ {0}
  BY RingAssumption
<1>2. o + k \in Nat /\ o + k < BUF_SIZE + BUF_SIZE
  BY <1>1
<1>3. Place(o, k) \in 0 .. BUF_SIZE - 1 /\ (o + k) % BUF_SIZE = Place(o, k)
  <2>1. PICK n \in Nat \ {0} : n = BUF_SIZE
    BY <1>1
  <2>2. PICK x \in Nat : x = o + k /\ x < n + n
    BY <1>2, <2>1
  <2>3. x % n = IF x < n THEN x ELSE x - n
    BY <2>2, ModOnce
  <2>4. (o + k) % BUF_SIZE = Place(o, k)
    BY <2>1, <2>2, <2>3 DEF Place
  <2> QED  BY <1>1, <2>4 DEF Place
<1>4. (Place(o, k) + 1) % BUF_SIZE = IF Place(o, k) + 1 < BUF_SIZE THEN Place(o, k) + 1 ELSE Place(o, k) + 1 - BUF_SIZE
  <2>1. PICK n \in Nat \ {0} : n = BUF_SIZE
    BY <1>1
  <2>2. PICK x \in Nat : x = Place(o, k) + 1 /\ x < n + n
    BY <1>1, <1>3, <2>1
  <2>3. x % n = IF x < n THEN x ELSE x - n
    BY <2>2, ModOnce
  <2> QED  BY <1>1, <1>3, <2>1, <2>2, <2>3
<1>5. (Place(o, k) + 1) % BUF_SIZE = IF k = BUF_SIZE THEN Place(o, 1) ELSE Place(o, k + 1)
  BY <1>1, <1>4 DEF Place
<1>6. k < BUF_SIZE => Place(Place(o, 1), k) = Place(o, k + 1)
  BY <1>1 DEF Place
<1>7. \A l \in 0 .. BUF_SIZE - 1 : l < k /\ k < BUF_SIZE => Place(o, l) # Place(o, k)
  BY <1>1 DEF Place
<1> QED  BY <1>3, <1>5, <1>6, <1>7

(* How many items there can be between the two threads.                    *)
LEMMA LagFacts ==
    ASSUME RingType, RingCounts
    PROVE  /\ Lag \in 0 .. BUF_SIZE /\ Len(consumed) \in Nat
           /\ ring_pc["producer"] = "critical" => Lag < BUF_SIZE
           /\ ring_pc["consumer"] = "critical" => Lag > 0
<1>1. /\ BUF_SIZE \in Nat \ {0} /\ item \in Nat /\ i \in Nat /\ wait_count \in Nat /\ ready_count \in Nat
      /\ ring_pc["producer"] \in Stations /\ ring_pc["consumer"] \in Stations
  BY RingAssumption DEF RingType, Ring!Threads
<1>2. Len(consumed) \in Nat
  BY LenProperties DEF RingType
<1> QED  BY <1>1, <1>2 DEF RingCounts, Lag, Ring!Written, Busy, Through, Stations

(* The items on their way, without the remainders.                         *)
OnTheirWay(b, o, n) == [k \in 1 .. n |-> b[Place(o, k - 1)]]

LEMMA PendingFacts ==
    ASSUME NEW b \in [0 .. BUF_SIZE - 1 -> Nat], NEW o \in 0 .. BUF_SIZE - 1, NEW n \in 0 .. BUF_SIZE
    PROVE  /\ [k \in 1 .. n |-> b[(o + k - 1) % BUF_SIZE]] = OnTheirWay(b, o, n)
           /\ OnTheirWay(b, o, n) \in Seq(Nat) /\ Len(OnTheirWay(b, o, n)) = n
           /\ \A k \in 1 .. n : OnTheirWay(b, o, n)[k] = b[Place(o, k - 1)]
<1>1. BUF_SIZE \in Nat \ {0}
  BY RingAssumption
<1>2. \A k \in 1 .. n : (o + k - 1) % BUF_SIZE = Place(o, k - 1) /\ Place(o, k - 1) \in 0 .. BUF_SIZE - 1
  <2> SUFFICES ASSUME NEW k \in 1 .. n
               PROVE  (o + k - 1) % BUF_SIZE = Place(o, k - 1) /\ Place(o, k - 1) \in 0 .. BUF_SIZE - 1
    OBVIOUS
  <2>1. k - 1 \in 0 .. BUF_SIZE /\ o + (k - 1) = o + k - 1
    BY <1>1
  <2> QED  BY <1>1, <2>1, PlaceFacts
<1>3. OnTheirWay(b, o, n) \in [1 .. n -> Nat]
  BY <1>2 DEF OnTheirWay
<1>4. OnTheirWay(b, o, n) \in Seq(Nat) /\ Len(OnTheirWay(b, o, n)) = n
  BY <1>3, SeqDef, LenProperties
<1>5. [k \in 1 .. n |-> b[(o + k - 1) % BUF_SIZE]] = OnTheirWay(b, o, n)
  BY <1>2 DEF OnTheirWay
<1> QED  BY <1>4, <1>5 DEF OnTheirWay

(* A step that writes and reads nothing is none of the channel. *)
RingStep == Ring!Fifo!Send \/ Ring!Fifo!Receive \/ UNCHANGED Ring!Fifo!channel

LEMMA RingIdles ==
    ASSUME UNCHANGED <<buffer, out, consumed>>, Ring!Written' = Ring!Written
    PROVE  RingStep /\ Lag' = Lag
<1>1. Lag' = Lag
  BY DEF Lag
<1>2. Ring!Pending' = Ring!Pending
  BY DEF Ring!Pending
<1> QED  BY <1>1, <1>2 DEF RingStep, Ring!Fifo!channel

LEMMA ProducerWaits ==
    ASSUME RingInv, Ring!ProducerWait
    PROVE  RingInv' /\ RingStep
<1> USE DEF RingInv, Ring!ProducerWait, Ring!Goto, Ring!ring, Ring!semaphores
<1>1. RingType'
  <2>1. wait_count' \in Nat /\ ready_count' \in Nat /\ item' \in Nat /\ i' \in Nat
    BY DEF RingType
  <2>2. ring_pc' \in [Ring!Threads -> Stations]
    BY DEF RingType, Stations
  <2> QED  BY <2>1, <2>2 DEF RingType
<1>2. RingCounts'
  BY RingAssumption DEF RingType, RingCounts, Busy, Through, Ring!Threads
<1>3. UNCHANGED <<buffer, in, out, consumed>> /\ Ring!Written' = Ring!Written
  BY DEF RingType, Ring!Written, Ring!Threads
<1> QED  BY <1>1, <1>2, <1>3, RingIdles DEF Place

LEMMA ConsumerWaits ==
    ASSUME RingInv, Ring!ConsumerWait
    PROVE  RingInv' /\ RingStep
<1> USE DEF RingInv, Ring!ConsumerWait, Ring!Goto, Ring!ring, Ring!semaphores
<1>1. RingType'
  <2>1. wait_count' \in Nat /\ ready_count' \in Nat /\ item' \in Nat /\ i' \in Nat
    BY DEF RingType
  <2>2. ring_pc' \in [Ring!Threads -> Stations]
    BY DEF RingType, Stations
  <2> QED  BY <2>1, <2>2 DEF RingType
<1>2. RingCounts'
  BY RingAssumption DEF RingType, RingCounts, Busy, Through, Ring!Threads
<1>3. UNCHANGED <<buffer, in, out, consumed>> /\ Ring!Written' = Ring!Written
  BY DEF RingType, Ring!Written, Ring!Threads
<1> QED  BY <1>1, <1>2, <1>3, RingIdles DEF Place

LEMMA RingLocks ==
    ASSUME RingInv, NEW t \in Ring!Threads, Ring!Lock(t)
    PROVE  RingInv' /\ RingStep
<1> USE DEF RingInv, Ring!Lock, Ring!Goto, Ring!ring, Ring!semaphores
<1>1. RingType'
  BY DEF RingType, Stations
<1>2. RingCounts'
  BY DEF RingType, RingCounts, Busy, Through, Ring!Threads
<1>3. UNCHANGED <<buffer, in, out, consumed>> /\ Ring!Written' = Ring!Written
  BY DEF RingType, Ring!Written, Ring!Threads
<1> QED  BY <1>1, <1>2, <1>3, RingIdles DEF Place

LEMMA ProducerPosts ==
    ASSUME RingInv, Ring!ProducerPost
    PROVE  RingInv' /\ RingStep
<1> USE DEF RingInv, Ring!ProducerPost, Ring!Goto, Ring!ring, Ring!semaphores
<1>1. RingType'
  <2>1. wait_count' \in Nat /\ ready_count' \in Nat /\ item' \in Nat /\ i' \in Nat
    BY DEF RingType
  <2>2. ring_pc' \in [Ring!Threads -> Stations]
    BY DEF RingType, Stations
  <2> QED  BY <2>1, <2>2 DEF RingType
<1>2. RingCounts'
  BY RingAssumption DEF RingType, RingCounts, Busy, Through, Ring!Threads
<1>3. UNCHANGED <<buffer, in, out, consumed>> /\ Ring!Written' = Ring!Written
  BY DEF RingType, Ring!Written, Ring!Threads
<1> QED  BY <1>1, <1>2, <1>3, RingIdles DEF Place

LEMMA ConsumerPosts ==
    ASSUME RingInv, Ring!ConsumerPost
    PROVE  RingInv' /\ RingStep
<1> USE DEF RingInv, Ring!ConsumerPost, Ring!Goto, Ring!ring, Ring!semaphores
<1>1. RingType'
  <2>1. wait_count' \in Nat /\ ready_count' \in Nat /\ item' \in Nat /\ i' \in Nat
    BY DEF RingType
  <2>2. ring_pc' \in [Ring!Threads -> Stations]
    BY DEF RingType, Stations
  <2> QED  BY <2>1, <2>2 DEF RingType
<1>2. RingCounts'
  BY RingAssumption DEF RingType, RingCounts, Busy, Through, Ring!Threads
<1>3. UNCHANGED <<buffer, in, out, consumed>> /\ Ring!Written' = Ring!Written
  BY DEF RingType, Ring!Written, Ring!Threads
<1> QED  BY <1>1, <1>2, <1>3, RingIdles DEF Place

(* Written behind the others, in a place that is free. *)
LEMMA RingProduces ==
    ASSUME RingInv, Ring!Produce
    PROVE  RingInv' /\ RingStep
<1> USE DEF RingInv
<1>1. /\ ring_pc["producer"] = "critical" /\ ring_pc' = [ring_pc EXCEPT !["producer"] = "post"]
      /\ buffer' = [buffer EXCEPT ![in] = item] /\ in' = (in + 1) % BUF_SIZE
      /\ UNCHANGED <<out, wait_count, ready_count, item, i, consumed>>
  BY DEF Ring!Produce, Ring!Goto, Ring!semaphores
<1>2. PICK n \in 0 .. BUF_SIZE - 1 : n = Lag
  BY <1>1, LagFacts, RingAssumption
<1>3. /\ BUF_SIZE \in Nat \ {0} /\ item \in Nat /\ out \in 0 .. BUF_SIZE - 1 /\ in = Place(out, n)
      /\ n \in 0 .. BUF_SIZE /\ n + 1 \in 0 .. BUF_SIZE /\ n # BUF_SIZE
      /\ item < ItemCount /\ Len(consumed) \in Nat
  BY <1>1, <1>2, LagFacts, RingAssumption DEF RingType, RingCounts
<1>4. Ring!Written = item /\ Ring!Written' = item + 1 /\ Lag' = n + 1
  <2>1. Ring!Written = item /\ Ring!Written' = item + 1
    BY <1>1 DEF RingType, Ring!Written, Ring!Threads
  <2> QED  BY <1>1, <1>2, <1>3, <2>1 DEF Lag
<1>5. in' = Place(out, n + 1) /\ in' \in 0 .. BUF_SIZE - 1
  <2>1. (Place(out, n) + 1) % BUF_SIZE = Place(out, n + 1)
    BY <1>3, PlaceFacts
  <2>2. Place(out, n + 1) \in 0 .. BUF_SIZE - 1
    BY <1>3, PlaceFacts
  <2> QED  BY <1>1, <1>3, <2>1, <2>2
<1>6. RingType'
  BY <1>1, <1>3, <1>5 DEF RingType, Stations
<1>7. RingCounts'
  BY <1>1 DEF RingType, RingCounts, Busy, Through, Ring!Threads
<1>8. PICK s : s = OnTheirWay(buffer, out, n)
  OBVIOUS
<1>9. PICK s2 : s2 = OnTheirWay(buffer', out, n + 1)
  OBVIOUS
<1>10. /\ Ring!Pending = s /\ s \in Seq(Nat) /\ Len(s) = n
       /\ \A k \in 1 .. n : s[k] = buffer[Place(out, k - 1)]
  <2>1. Ring!Pending = [k \in 1 .. n |-> buffer[(out + k - 1) % BUF_SIZE]]
    BY <1>2 DEF Ring!Pending, Lag
  <2>2. buffer \in [0 .. BUF_SIZE - 1 -> Nat]
    BY DEF RingType
  <2> QED  BY <1>3, <1>8, <2>1, <2>2, PendingFacts
<1>11. /\ Ring!Pending' = s2 /\ s2 \in Seq(Nat) /\ Len(s2) = n + 1
       /\ \A k \in 1 .. n + 1 : s2[k] = buffer'[Place(out, k - 1)]
  <2>1. buffer' \in [0 .. BUF_SIZE - 1 -> Nat] /\ out' = out
    BY <1>1, <1>6 DEF RingType
  <2>2. Ring!Pending' = [k \in 1 .. n + 1 |-> buffer'[(out + k - 1) % BUF_SIZE]]
    BY <1>4, <2>1 DEF Ring!Pending, Lag
  <2>3. PICK m \in 0 .. BUF_SIZE : m = n + 1
    BY <1>3
  <2> QED  BY <1>3, <1>9, <2>1, <2>2, <2>3, PendingFacts
<1>12. \A k \in 1 .. n : s2[k] = s[k]
  <2> SUFFICES ASSUME NEW k \in 1 .. n PROVE s2[k] = s[k]
    OBVIOUS
  <2>1. k - 1 \in 0 .. BUF_SIZE - 1 /\ k - 1 \in 0 .. BUF_SIZE /\ k - 1 < n /\ n < BUF_SIZE /\ k \in 1 .. n + 1
    BY <1>2, <1>3
  <2>2. Place(out, k - 1) # in /\ Place(out, k - 1) \in 0 .. BUF_SIZE - 1
    <3>1. PICK l \in 0 .. BUF_SIZE - 1 : l = k - 1 /\ l \in 0 .. BUF_SIZE /\ l < n /\ n < BUF_SIZE
      BY <2>1
    <3>2. Place(out, l) # Place(out, n) /\ Place(out, l) \in 0 .. BUF_SIZE - 1
      BY <1>3, <3>1, PlaceFacts
    <3> QED  BY <1>3, <3>1, <3>2
  <2>3. buffer'[Place(out, k - 1)] = buffer[Place(out, k - 1)]
    BY <1>1, <2>2 DEF RingType
  <2> QED  BY <1>10, <1>11, <2>1, <2>3
<1>13. s2[n + 1] = item
  <2>1. n + 1 \in 1 .. n + 1 /\ (n + 1) - 1 = n
    BY <1>3
  <2>2. buffer'[in] = item
    BY <1>1 DEF RingType
  <2> QED  BY <1>3, <1>11, <2>1, <2>2
<1>14. s2 = Append(s, item)
  <2>1. Append(s, item) \in Seq(Nat) /\ Len(Append(s, item)) = n + 1
    BY <1>3, <1>10
  <2>2. \A k \in 1 .. n + 1 : Append(s, item)[k] = IF k = n + 1 THEN item ELSE s[k]
    BY <1>3, <1>10
  <2>3. \A k \in 1 .. n + 1 : k \in 1 .. n \/ k = n + 1
    BY <1>3
  <2>4. \A k \in 1 .. Len(s2) : s2[k] = Append(s, item)[k]
    BY <1>3, <1>11, <1>12, <1>13, <2>2, <2>3
  <2> QED  BY <1>11, <2>1, <2>4, SeqEqual
<1>15. Ring!Fifo!Send
  BY <1>1, <1>2, <1>3, <1>4, <1>10, <1>11, <1>14 DEF Ring!Fifo!Send
<1> QED  BY <1>1, <1>4, <1>5, <1>6, <1>7, <1>15 DEF RingStep, Place

(* Read from the front, whose place is out. *)
LEMMA RingConsumes ==
    ASSUME RingInv, Ring!Consume
    PROVE  RingInv' /\ RingStep
<1> USE DEF RingInv
<1>1. /\ ring_pc["consumer"] = "critical" /\ ring_pc' = [ring_pc EXCEPT !["consumer"] = "post"]
      /\ consumed' = Append(consumed, buffer[out]) /\ out' = (out + 1) % BUF_SIZE
      /\ UNCHANGED <<buffer, in, wait_count, ready_count, item, i>>
  BY DEF Ring!Consume, Ring!Goto, Ring!semaphores
<1>2. PICK n \in 1 .. BUF_SIZE : n = Lag
  BY <1>1, LagFacts, RingAssumption
<1>3. PICK m \in 0 .. BUF_SIZE - 1 : m = n - 1 /\ m + 1 = n
  BY RingAssumption
<1>4. /\ BUF_SIZE \in Nat \ {0} /\ out \in 0 .. BUF_SIZE - 1 /\ in = Place(out, n)
      /\ n \in 0 .. BUF_SIZE /\ m \in 0 .. BUF_SIZE /\ m < BUF_SIZE /\ 1 \in 0 .. BUF_SIZE
      /\ Len(consumed) \in Nat /\ consumed \in Seq(Nat) /\ buffer[out] \in Nat
  BY <1>2, <1>3, LagFacts, RingAssumption DEF RingType
<1>5. /\ consumed' \in Seq(Nat) /\ Len(consumed') = Len(consumed) + 1
  BY <1>1, <1>4
<1>6. Ring!Written' = Ring!Written /\ Lag' = m
  <2>1. Ring!Written' = Ring!Written /\ Ring!Written \in Nat
    BY <1>1 DEF RingType, Ring!Written, Ring!Threads
  <2> QED  BY <1>2, <1>3, <1>4, <1>5, <2>1 DEF Lag
<1>7. /\ out' = Place(out, 1) /\ out' \in 0 .. BUF_SIZE - 1
      /\ \A k \in 0 .. BUF_SIZE - 1 : Place(out', k) = Place(out, k + 1)
  <2>1. out' = Place(out, 1) /\ out' \in 0 .. BUF_SIZE - 1
    BY <1>1, <1>4, PlaceFacts
  <2>2. \A k \in 0 .. BUF_SIZE - 1 : k \in 0 .. BUF_SIZE /\ k < BUF_SIZE
    BY <1>4
  <2>3. \A k \in 0 .. BUF_SIZE - 1 : Place(Place(out, 1), k) = Place(out, k + 1)
    BY <1>4, <2>2, PlaceFacts
  <2> QED  BY <2>1, <2>3
<1>8. in' = Place(out', m)
  BY <1>1, <1>3, <1>4, <1>7
<1>9. RingType'
  <2>1. ring_pc' \in [Ring!Threads -> Stations]
    BY <1>1 DEF RingType, Stations
  <2> QED  BY <1>1, <1>5, <1>7, <2>1 DEF RingType
<1>10. RingCounts'
  <2>1. i \in Nat
    BY DEF RingType
  <2> QED  BY <1>1, <1>4, <1>5, <2>1 DEF RingType, RingCounts, Busy, Through, Ring!Threads
<1>11. PICK s : s = OnTheirWay(buffer, out, n)
  OBVIOUS
<1>12. PICK s2 : s2 = OnTheirWay(buffer, out', m)
  OBVIOUS
<1>13. buffer \in [0 .. BUF_SIZE - 1 -> Nat]
  BY DEF RingType
<1>14. /\ Ring!Pending = s /\ s \in Seq(Nat) /\ Len(s) = n
       /\ \A k \in 1 .. n : s[k] = buffer[Place(out, k - 1)]
  <2>1. Ring!Pending = [k \in 1 .. n |-> buffer[(out + k - 1) % BUF_SIZE]]
    BY <1>2 DEF Ring!Pending, Lag
  <2> QED  BY <1>4, <1>11, <1>13, <2>1, PendingFacts
<1>15. /\ Ring!Pending' = s2 /\ s2 \in Seq(Nat) /\ Len(s2) = m
       /\ \A k \in 1 .. m : s2[k] = buffer[Place(out', k - 1)]
  <2>1. Ring!Pending' = [k \in 1 .. m |-> buffer[(out' + k - 1) % BUF_SIZE]]
    BY <1>1, <1>6 DEF Ring!Pending, Lag
  <2>2. PICK o \in 0 .. BUF_SIZE - 1 : o = out'
    BY <1>7
  <2> QED  BY <1>4, <1>12, <1>13, <2>1, <2>2, PendingFacts
<1>16. \A k \in 1 .. m : s2[k] = s[k + 1]
  <2> SUFFICES ASSUME NEW k \in 1 .. m PROVE s2[k] = s[k + 1]
    OBVIOUS
  <2>1. k - 1 \in 0 .. BUF_SIZE - 1 /\ (k - 1) + 1 = k /\ k + 1 \in 1 .. n /\ (k + 1) - 1 = k
    BY <1>3, <1>4
  <2>2. Place(out', k - 1) = Place(out, k)
    BY <1>7, <2>1
  <2> QED  BY <1>14, <1>15, <2>1, <2>2
<1>17. s # <<>> /\ Head(s) = buffer[out] /\ Tail(s) = s2
  <2>1. n > 0 /\ 1 \in 1 .. n /\ 1 - 1 = 0 /\ n - 1 = m
    BY <1>2, <1>3
  <2>2. s # <<>> /\ Head(s) = s[1]
    BY <1>14, <2>1
  <2>3. Place(out, 0) = out
    BY <1>4 DEF Place
  <2>4. s[1] = buffer[out]
    BY <1>14, <2>1, <2>3
  <2>5. Tail(s) \in Seq(Nat) /\ Len(Tail(s)) = m /\ \A k \in 1 .. m : Tail(s)[k] = s[k + 1]
    BY <1>14, <2>1, <2>2, HeadTailProperties
  <2>6. Tail(s) = s2
    BY <1>15, <1>16, <2>5, SeqEqual
  <2> QED  BY <2>2, <2>4, <2>6
<1>18. Ring!Fifo!Receive
  BY <1>1, <1>6, <1>14, <1>15, <1>17 DEF Ring!Fifo!Receive
<1> QED  BY <1>6, <1>8, <1>9, <1>10, <1>18 DEF RingStep

LEMMA RingInitHolds ==
    ASSUME Ring!Init
    PROVE  RingInv /\ Ring!Fifo!ChannelInit
<1> USE RingAssumption DEF Ring!Init
<1>1. RingType
  BY DEF RingType, Stations
<1>2. Len(consumed) = 0 /\ Ring!Written = 0
  BY DEF Ring!Written, Ring!Threads
<1>3. RingCounts
  <2>1. ring_pc["producer"] = "sem_wait" /\ ring_pc["consumer"] = "sem_wait"
    BY DEF Ring!Threads
  <2>2. Busy("producer") = 0 /\ Busy("consumer") = 0 /\ Through("consumer") = 0
    BY <2>1 DEF Busy, Through
  <2> QED  BY <1>2, <2>1, <2>2 DEF RingCounts
<1>4. Lag = 0
  BY <1>2 DEF Lag
<1>5. in = Place(out, Lag)
  BY <1>4 DEF Place
<1>6. Ring!Pending = <<>>
  BY <1>2 DEF Ring!Pending
<1> QED  BY <1>1, <1>2, <1>3, <1>5, <1>6 DEF RingInv, Ring!Fifo!ChannelInit

LEMMA RingStutters ==
    ASSUME RingInv, UNCHANGED ringVars
    PROVE  RingInv' /\ RingStep
<1> USE DEF ringVars
<1>1. Ring!Written' = Ring!Written
  BY DEF Ring!Written
<1>2. RingStep /\ Lag' = Lag
  BY <1>1, RingIdles
<1>3. RingType' /\ RingCounts'
  BY DEF RingInv, RingType, RingCounts, Busy, Through
<1> QED  BY <1>2, <1>3 DEF RingInv, Place

LEMMA RingSteps ==
    ASSUME RingInv, [Next]_experimentVars
    PROVE  RingInv' /\ RingStep
<1>1. CASE producer
  <2>1. Ring!producer
    BY <1>1 DEF producer
  <2>2. "producer" \in Ring!Threads
    BY DEF Ring!Threads
  <2> QED  BY <2>1, <2>2, ProducerWaits, RingLocks, RingProduces, ProducerPosts DEF Ring!producer
<1>2. CASE consumer
  <2>1. Ring!consumer
    BY <1>2 DEF consumer
  <2>2. "consumer" \in Ring!Threads
    BY DEF Ring!Threads
  <2> QED  BY <2>1, <2>2, ConsumerWaits, RingLocks, RingConsumes, ConsumerPosts DEF Ring!consumer
<1>3. CASE ~ producer /\ ~ consumer
  <2>1. UNCHANGED ringVars
    BY <1>3 DEF Next, main_proc, cpu_worker, SpuriousWakeup, list_calls, Only, experimentVars
  <2> QED  BY <2>1, RingStutters
<1> QED  BY <1>1, <1>2, <1>3

(* The ring buffer, its mutex and its two semaphores are a FIFO channel of *)
(* BUF_SIZE places, for any size and any number of items: thread_ex.c      *)
(* overwrites no item that has not been read and reads none twice.         *)
THEOREM RingImplements == Spec => ImplementsChannel
<1>1. Init => RingInv /\ Ring!Fifo!ChannelInit
  BY RingInitHolds DEF Init
<1>2. RingInv /\ [Next]_experimentVars => RingInv' /\ [Ring!Fifo!Send \/ Ring!Fifo!Receive]_Ring!Fifo!channel
  BY RingSteps DEF RingStep
<1> QED  BY <1>1, <1>2, PTL DEF Spec, ImplementsChannel, Ring!ImplementsChannel, Ring!Fifo!ChannelSpec
-----------------------------------------------------------------------------
(***************************************************************************)
(* The list.                                                               *)
(***************************************************************************)
(* The list of n nodes is s: as HoldsContent has it, by position.          *)
Strung(s, n) ==
    /\ IF n = 0 THEN list_front = 0 ELSE list_front = s[1] /\ next[s[n]] = 0
    /\ \A k \in 1 .. n - 1 : next[s[k]] = s[k + 1]
    /\ n > 1 => list_rear = s[n]
    /\ \A k \in 1 .. Len(content) : data[s[k + owed]] = content[k]
    /\ \A a : a \in allocated <=> \E k \in 1 .. n : a = s[k]
    /\ \A k, l \in 1 .. n : s[k] = s[l] => k = l

(* A node that is free has no link: the loops of the list end everywhere.  *)
ListType ==
    /\ content \in Seq(Values) /\ owed \in {0, 1}
    /\ next \in [Addr -> Addr \cup {0}] /\ data \in [Addr -> Values \cup {0}]
    /\ \A a \in Addr \ allocated : next[a] = 0

ListInv == ListType /\ \E s \in [1 .. List!nodes -> Addr] : Strung(s, List!nodes)

LEMMA NodesCounted ==
    ASSUME ListType
    PROVE  List!nodes \in Nat /\ Len(content) \in Nat /\ List!nodes = Len(content) + owed
  BY LenProperties DEF ListType, List!nodes

LEMMA ListHolds ==
    ASSUME ListInv
    PROVE  HoldsContent
<1>1. PICK n \in Nat : n = List!nodes /\ n = Len(content) + owed /\ Len(content) \in Nat
  BY NodesCounted DEF ListInv
<1>2. PICK s \in [1 .. n -> Addr] : Strung(s, n)
  BY <1>1 DEF ListInv
<1>4. allocated = {s[k] : k \in 1 .. n}
  BY <1>2 DEF Strung
<1>5. List!IsInjective(s)
  BY <1>2 DEF Strung, List!IsInjective
<1>6. List!Chain(s)
  BY <1>1, <1>2, <1>4, <1>5 DEF Strung, List!Chain, List!NULL
<1>7. owed \in {0, 1}
  BY DEF ListInv, ListType
<1> QED  BY <1>1, <1>2, <1>6, <1>7 DEF HoldsContent, List!HoldsContent

LEMMA ListInitHolds ==
    ASSUME List!Init
    PROVE  ListInv
<1>1. /\ content = <<>> /\ list_front = 0 /\ allocated = {} /\ Len(content) = 0
      /\ owed = 0 /\ List!nodes = 0
  BY DEF List!Init, List!NULL, List!nodes
<1>2. ListType
  BY <1>1 DEF List!Init, List!NULL, ListType
<1>3. PICK s : s = [k \in 1 .. 0 |-> CHOOSE a \in Addr : TRUE]
  OBVIOUS
<1>4. s \in [1 .. 0 -> Addr]
  BY <1>3
<1>5. Strung(s, 0)
  BY <1>1 DEF Strung
<1> QED  BY <1>1, <1>2, <1>4, <1>5 DEF ListInv

(* The recursive function of TraverseUntil.                                *)
Halts(h, nx, stops) ==
    h = [a \in Addr |-> IF nx[a] \in stops \cup {0} THEN a ELSE h[nx[a]]]

(* From the first node of a chain it is at the m-th that the loop stops,   *)
(* when it goes on at the nodes before it and nowhere else: by choosing a  *)
(* last node from which it is not.                                         *)
Leads(s, m, nx, stops) ==
    /\ \A k \in 1 .. m - 1 : nx[s[k]] = s[k + 1] /\ s[k + 1] \notin stops \cup {0}
    /\ nx[s[m]] \in stops \cup {0}
    /\ \A a \in Addr : nx[a] \in stops \cup {0} \/ \E k \in 1 .. m - 1 : a = s[k]

LEMMA LoopExists ==
    ASSUME NEW nx, NEW stops, NEW n \in Nat, NEW s \in [1 .. n -> Addr], NEW m \in 1 .. n,
           Leads(s, m, nx, stops)
    PROVE  \E h : Halts(h, nx, stops)
<1>1. PICK h : h = [a \in Addr |-> IF nx[a] \in stops \cup {0} THEN a ELSE s[m]]
  OBVIOUS
<1>2. \A a \in Addr : h[a] = IF nx[a] \in stops \cup {0} THEN a ELSE h[nx[a]]
  <2> SUFFICES ASSUME NEW a \in Addr, nx[a] \notin stops \cup {0}
               PROVE  h[a] = h[nx[a]]
    BY <1>1
  <2>1. PICK k \in 1 .. m - 1 : a = s[k]
    BY DEF Leads
  <2>2. k + 1 \in 1 .. n /\ k + 1 \in 1 .. m /\ (k + 1 = m \/ k + 1 \in 1 .. m - 1)
    OBVIOUS
  <2>3. nx[a] = s[k + 1] /\ s[k + 1] \in Addr
    BY <2>1, <2>2 DEF Leads
  <2>4. h[s[k + 1]] = s[m]
    <3>1. CASE k + 1 = m
      BY <1>1, <2>3, <3>1 DEF Leads
    <3>2. CASE k + 1 \in 1 .. m - 1
      BY <1>1, <2>3, <3>2 DEF Leads
    <3> QED  BY <2>2, <3>1, <3>2
  <2> QED  BY <1>1, <2>3, <2>4
<1>3. h = [a \in Addr |-> h[a]]
  BY <1>1
<1>4. Halts(h, nx, stops)
  BY <1>2, <1>3 DEF Halts
<1> QED  BY <1>4

LEMMA LoopStops ==
    ASSUME NEW nx, NEW stops, NEW n \in Nat, NEW s \in [1 .. n -> Addr], NEW m \in 1 .. n,
           Leads(s, m, nx, stops)
    PROVE  (CHOOSE h : Halts(h, nx, stops))[s[1]] = s[m]
<1>1. PICK h : h = CHOOSE g : Halts(g, nx, stops)
  OBVIOUS
<1>2. Halts(h, nx, stops)
  BY <1>1, LoopExists
<1>3. \A a \in Addr : h[a] = IF nx[a] \in stops \cup {0} THEN a ELSE h[nx[a]]
  BY <1>2 DEF Halts
<1> DEFINE B == {j \in 0 .. m - 1 : h[s[m - j]] # s[m]}
<1>4. B = {}
  <2> SUFFICES ASSUME B # {} PROVE FALSE
    OBVIOUS
  <2>1. B \in SUBSET Nat
    OBVIOUS
  <2>2. PICK j \in B : \A l \in B : j <= l
    <3> HIDE DEF B
    <3> QED  BY <2>1, LeastNatural
  <2>3. h[s[m]] = s[m] /\ m - 0 = m
    BY <1>3 DEF Leads
  <2>4. j \in 1 .. m - 1
    BY <2>2, <2>3
  <2>5. j - 1 \in 0 .. m - 1 /\ j - 1 \notin B
    <3>1. j - 1 \in 0 .. m - 1 /\ ~ (j <= j - 1)
      BY <2>4
    <3> HIDE DEF B
    <3> QED  BY <2>2, <3>1
  <2>6. PICK k \in 1 .. m - 1 : k = m - j /\ k + 1 = m - (j - 1) /\ k + 1 \in 1 .. n
    BY <2>4
  <2>7. h[s[k + 1]] = s[m]
    BY <2>5, <2>6
  <2>8. s[k] \in Addr /\ nx[s[k]] = s[k + 1] /\ s[k + 1] \notin stops \cup {0}
    BY <2>6 DEF Leads
  <2>9. h[s[k]] = s[m]
    BY <1>3, <2>7, <2>8
  <2> QED  BY <2>2, <2>6, <2>9
<1>5. m - 1 \in 0 .. m - 1 /\ m - (m - 1) = 1
  OBVIOUS
<1>6. h[s[1]] = s[m]
  BY <1>4, <1>5
<1> QED  BY <1>1, <1>6

(* So the loop ends at the last node, or with the break at the one before. *)
LEMMA TraversesList ==
    ASSUME NEW n \in Nat \ {0}, NEW s \in [1 .. n -> Addr], ListType, Strung(s, n)
    PROVE  /\ List!TraverseUntil(list_front, {}) = s[n]
           /\ n > 1 => List!TraverseUntil(list_front, {a \in allocated : next[a] = 0}) = s[n - 1]
<1> USE AddrAssumption
<1>1. list_front = s[1] /\ next[s[n]] = 0 /\ 1 \in 1 .. n /\ n \in 1 .. n
  BY DEF Strung
<1>2. \A k \in 1 .. n - 1 : k \in 1 .. n /\ k + 1 \in 1 .. n /\ next[s[k]] = s[k + 1] /\ s[k + 1] # 0
  BY DEF Strung
<1>3. \A a \in Addr : next[a] = 0 \/ \E k \in 1 .. n - 1 : a = s[k]
  <2> SUFFICES ASSUME NEW a \in Addr, next[a] # 0 PROVE \E k \in 1 .. n - 1 : a = s[k]
    OBVIOUS
  <2>1. PICK k \in 1 .. n : a = s[k]
    BY DEF ListType, Strung
  <2>2. k # n
    BY <1>1, <2>1
  <2> QED  BY <2>1, <2>2
<1>4. List!TraverseUntil(list_front, {}) = s[n]
  <2>1. Leads(s, n, next, {})
    BY <1>1, <1>2, <1>3 DEF Leads
  <2>2. (CHOOSE h : Halts(h, next, {}))[s[1]] = s[n]
    BY <1>1, <2>1, LoopStops
  <2> QED  BY <1>1, <2>2 DEF List!TraverseUntil, List!NULL, Halts
<1>5. ASSUME n > 1
      PROVE  List!TraverseUntil(list_front, {a \in allocated : next[a] = 0}) = s[n - 1]
  <2>1. PICK stops : stops = {a \in allocated : next[a] = 0}
    OBVIOUS
  <2>2. stops = {s[n]}
    <3>1. s[n] \in stops
      BY <1>1, <2>1 DEF Strung
    <3>2. \A a \in stops : a = s[n]
      <4> SUFFICES ASSUME NEW a \in stops PROVE a = s[n]
        OBVIOUS
      <4>1. PICK k \in 1 .. n : a = s[k]
        BY <2>1 DEF Strung
      <4>2. k \notin 1 .. n - 1
        BY <1>2, <2>1, <4>1
      <4> QED  BY <4>1, <4>2
    <3> QED  BY <3>1, <3>2
  <2>3. PICK m \in 1 .. n : m = n - 1 /\ m + 1 = n
    BY <1>5
  <2>4. \A k \in 1 .. m - 1 : next[s[k]] = s[k + 1] /\ s[k + 1] \notin stops \cup {0}
    <3> SUFFICES ASSUME NEW k \in 1 .. m - 1
                 PROVE  next[s[k]] = s[k + 1] /\ s[k + 1] \notin stops \cup {0}
      OBVIOUS
    <3>1. k \in 1 .. n - 1 /\ k + 1 \in 1 .. n /\ k + 1 # n
      BY <2>3
    <3>2. s[k + 1] # s[n]
      BY <1>1, <3>1 DEF Strung
    <3> QED  BY <1>2, <2>2, <3>1, <3>2
  <2>5. next[s[m]] \in stops \cup {0}
    <3>1. m \in 1 .. n - 1
      BY <2>3, <1>5
    <3> QED  BY <1>2, <2>2, <2>3, <3>1
  <2>6. \A a \in Addr : next[a] \in stops \cup {0} \/ \E k \in 1 .. m - 1 : a = s[k]
    <3> SUFFICES ASSUME NEW a \in Addr, next[a] \notin stops \cup {0}
                 PROVE  \E k \in 1 .. m - 1 : a = s[k]
      OBVIOUS
    <3>1. PICK k \in 1 .. n - 1 : a = s[k]
      BY <1>3
    <3>2. k # m
      BY <2>5, <3>1
    <3> QED  BY <2>3, <3>1, <3>2
  <2>7. Leads(s, m, next, stops)
    BY <2>4, <2>5, <2>6 DEF Leads
  <2>8. (CHOOSE h : Halts(h, next, stops))[s[1]] = s[m]
    BY <2>7, LoopStops
  <2> QED  BY <1>1, <2>1, <2>3, <2>8 DEF List!TraverseUntil, List!NULL, Halts
<1> QED  BY <1>4, <1>5

(* A step of the list is from one string of nodes to another.              *)
LEMMA ListAdds ==
    ASSUME ListInv, NEW a \in Addr, NEW v \in Values, List!list_add(a, v)
    PROVE  ListInv'
<1> USE AddrAssumption
<1>1. PICK n \in Nat : n = List!nodes /\ n = Len(content) + owed /\ Len(content) \in Nat
  BY NodesCounted DEF ListInv
<1>2. PICK s \in [1 .. n -> Addr] : Strung(s, n)
  BY <1>1 DEF ListInv
<1>3. PICK z : z = [k \in 1 .. n + 1 |-> IF k = n + 1 THEN a ELSE s[k]]
  OBVIOUS
<1>4. z \in [1 .. n + 1 -> Addr] /\ z[n + 1] = a /\ \A k \in 1 .. n : k \in 1 .. n + 1 /\ z[k] = s[k]
  BY <1>3
<1>5. /\ a \notin allocated /\ allocated' = allocated \cup {a}
      /\ data' = [data EXCEPT ![a] = v] /\ content' = Append(content, v) /\ owed' = owed
  BY DEF List!list_add
<1>6. next[a] = 0 /\ \A k \in 1 .. n : s[k] # a
  BY <1>2, <1>5 DEF ListInv, ListType, Strung
<1>7. PICK c \in Nat : /\ c = Len(content) /\ owed \in {0, 1} /\ n = c + owed
                       /\ \A k \in 1 .. c : k + owed \in 1 .. n
  <2>1. owed \in {0, 1}
    BY DEF ListInv, ListType
  <2> QED  BY <1>1, <2>1
<1>16. /\ content' \in Seq(Values) /\ Len(content') = c + 1 /\ List!nodes' = n + 1
       /\ content'[c + 1] = v /\ \A k \in 1 .. c : content'[k] = content[k]
  <2>1. /\ content' \in Seq(Values) /\ Len(content') = c + 1
        /\ content'[c + 1] = v /\ \A k \in 1 .. c : content'[k] = content[k]
    BY <1>5, <1>7 DEF ListInv, ListType
  <2> QED  BY <1>5, <1>7, <2>1 DEF List!nodes
<1>8. /\ data' \in [Addr -> Values \cup {0}]
      /\ \A k \in 1 .. Len(content') : data'[z[k + owed']] = content'[k]
  <2>1. data' \in [Addr -> Values \cup {0}] /\ data'[a] = v /\ \A b \in Addr \ {a} : data'[b] = data[b]
    BY <1>5 DEF ListInv, ListType
  <2>2. \A k \in 1 .. c : data[s[k + owed]] = content[k]
    BY <1>2, <1>7 DEF Strung
  <2>4. ASSUME NEW k \in 1 .. c PROVE data'[z[k + owed]] = content'[k]
    <3>1. z[k + owed] = s[k + owed] /\ s[k + owed] \in Addr \ {a}
      BY <1>4, <1>6, <1>7
    <3> QED  BY <1>16, <2>1, <2>2, <3>1
  <2>5. data'[z[(c + 1) + owed]] = content'[c + 1]
    <3>1. (c + 1) + owed = n + 1
      BY <1>7
    <3> QED  BY <1>4, <1>16, <2>1, <3>1
  <2>3. \A k \in 1 .. c + 1 : k \in 1 .. c \/ k = c + 1
    OBVIOUS
  <2> QED  BY <1>5, <1>16, <2>1, <2>3, <2>4, <2>5
<1>9. \A k, l \in 1 .. n + 1 : z[k] = z[l] => k = l
  <2> SUFFICES ASSUME NEW k \in 1 .. n + 1, NEW l \in 1 .. n + 1, z[k] = z[l] PROVE k = l
    OBVIOUS
  <2>1. (k \in 1 .. n \/ k = n + 1) /\ (l \in 1 .. n \/ l = n + 1)
    OBVIOUS
  <2> QED  BY <1>2, <1>4, <1>6, <2>1 DEF Strung
<1>10. \A b : b \in allocated' <=> \E k \in 1 .. n + 1 : b = z[k]
  <2>1. \A k \in 1 .. n + 1 : k \in 1 .. n \/ k = n + 1
    OBVIOUS
  <2>2. n + 1 \in 1 .. n + 1
    OBVIOUS
  <2> QED  BY <1>2, <1>4, <1>5, <2>1, <2>2 DEF Strung
<1>11. /\ list_front' = z[1] /\ next' \in [Addr -> Addr \cup {0}] /\ next'[a] = 0
       /\ \A k \in 1 .. n : next'[z[k]] = z[k + 1]
       /\ \A b \in Addr \ allocated' : next'[b] = 0
  <2>1. CASE n = 0
    <3>1. list_front' = a /\ next' = [next EXCEPT ![a] = 0]
      BY <1>2, <2>1 DEF List!list_add, List!NULL, Strung
    <3>2. next' \in [Addr -> Addr \cup {0}] /\ \A b \in Addr : next'[b] = next[b]
      BY <1>6, <3>1 DEF ListInv, ListType
    <3>3. \A b \in Addr \ allocated' : next'[b] = 0
      BY <1>5, <3>2 DEF ListInv, ListType
    <3> QED  BY <1>4, <1>6, <2>1, <3>1, <3>2, <3>3
  <2>2. CASE n > 0
    <3>1. list_front = s[1] /\ s[1] # 0 /\ 1 \in 1 .. n /\ n \in 1 .. n /\ n # 0
      BY <1>2, <2>2 DEF Strung
    <3>2. List!TraverseUntil(list_front, {}) = s[n]
      BY <1>2, <3>1, TraversesList DEF ListInv
    <3>3. list_front' = list_front /\ next' = [next EXCEPT ![a] = 0, ![s[n]] = a]
      BY <3>1, <3>2 DEF List!list_add, List!NULL
    <3>4. /\ next' \in [Addr -> Addr \cup {0}] /\ next'[s[n]] = a /\ next'[a] = 0
          /\ \A b \in Addr : b # s[n] => next'[b] = next[b]
      BY <1>6, <3>1, <3>3 DEF ListInv, ListType
    <3>5. \A k \in 1 .. n : next'[z[k]] = z[k + 1]
      <4> SUFFICES ASSUME NEW k \in 1 .. n PROVE next'[s[k]] = z[k + 1]
        BY <1>4
      <4>1. CASE k = n
        BY <1>4, <3>4, <4>1
      <4>2. CASE k # n
        <5>1. k \in 1 .. n - 1 /\ k + 1 \in 1 .. n
          BY <4>2
        <5>2. s[k] # s[n] /\ next[s[k]] = s[k + 1]
          BY <1>2, <3>1, <4>2, <5>1 DEF Strung
        <5> QED  BY <1>4, <3>4, <5>1, <5>2
      <4> QED  BY <4>1, <4>2
    <3>6. s[n] \in allocated
      BY <1>2, <3>1 DEF Strung
    <3>7. \A b \in Addr \ allocated' : next'[b] = 0
      BY <1>5, <3>4, <3>6 DEF ListInv, ListType
    <3> QED  BY <1>4, <3>1, <3>3, <3>4, <3>5, <3>7
  <2> QED  BY <2>1, <2>2
<1>12. Strung(z, n + 1)'
  <2>1. (n + 1) - 1 = n /\ n + 1 # 0
    OBVIOUS
  <2>2. n + 1 > 1 => list_rear' = a
    <3> SUFFICES ASSUME n + 1 > 1 PROVE list_rear' = a
      OBVIOUS
    <3>1. n # 0 /\ 1 \in 1 .. n
      OBVIOUS
    <3>2. list_front # 0
      BY <1>2, <3>1 DEF Strung
    <3> QED  BY <3>2 DEF List!list_add, List!NULL
  <2> QED  BY <1>4, <1>8, <1>9, <1>10, <1>11, <2>1, <2>2 DEF Strung
<1>13. ListType'
  BY <1>5, <1>7, <1>8, <1>11, <1>16 DEF ListType
<1> QED  BY <1>4, <1>12, <1>13, <1>16 DEF ListInv

LEMMA ListRemovesLast ==
    ASSUME ListInv, List!list_RemoveFromEnd
    PROVE  ListInv'
<1> USE AddrAssumption
<1>1. PICK n \in Nat : n = List!nodes /\ n = Len(content) + owed /\ Len(content) \in Nat
  BY NodesCounted DEF ListInv
<1>2. PICK s \in [1 .. n -> Addr] : Strung(s, n)
  BY <1>1 DEF ListInv
<1>3. /\ list_front # 0 /\ list_front' = list_front
      /\ content' = SubSeq(content, 1, Len(content) - 1)
  BY DEF List!list_RemoveFromEnd, List!AskLast, List!NULL
<1>4. n # 0 /\ list_front = s[1] /\ 1 \in 1 .. n /\ n \in 1 .. n /\ next[s[n]] = 0
  BY <1>2, <1>3 DEF Strung
<1>5. CASE n = 1
  <2>1. UNCHANGED <<list_front, data, next, allocated>> /\ owed' = 1
    BY <1>4, <1>5 DEF List!list_RemoveFromEnd, List!NULL
  <2>2. content' \in Seq(Values) /\ Len(content') = 0
    <3>1. content \in Seq(Values) /\ owed \in {0, 1}
      BY DEF ListInv, ListType
    <3>4. PICK c \in Nat : c = Len(content) /\ 1 = c + owed
      BY <1>1, <1>5
    <3>2. c - 1 <= 0 /\ c - 1 \in Int
      BY <3>1, <3>4
    <3>3. content' = <<>>
      BY <1>3, <3>1, <3>2, <3>4
    <3> QED  BY <3>3
  <2>3. List!nodes' = n
    BY <1>5, <2>1, <2>2 DEF List!nodes
  <2>4. ListType'
    BY <2>1, <2>2 DEF ListInv, ListType
  <2>5. Strung(s, n)'
    BY <1>2, <1>5, <2>1, <2>2 DEF Strung
  <2> QED  BY <2>3, <2>4, <2>5 DEF ListInv
<1>6. CASE n > 1
  <2>1. PICK m \in 1 .. n - 1 : m = n - 1 /\ m + 1 = n /\ m \in Nat
    BY <1>6
  <2>2. next[s[1]] = s[2] /\ s[2] \in Addr /\ next[s[m]] = s[n] /\ m \in 1 .. n
    <3>1. 1 \in 1 .. n - 1 /\ 1 + 1 = 2 /\ 2 \in 1 .. n
      BY <1>6
    <3> QED  BY <1>2, <2>1, <3>1 DEF Strung
  <2>3. List!TraverseUntil(list_front, {a \in allocated : next[a] = 0}) = s[m]
    BY <1>2, <1>4, <1>6, <2>1, TraversesList DEF ListInv
  <2>4. next[list_front] # 0
    BY <1>4, <2>2
  <2>5. /\ next' = [next EXCEPT ![s[m]] = 0] /\ allocated' = allocated \ {s[n]}
        /\ data' = [data EXCEPT ![s[n]] = 0] /\ owed' = owed /\ list_rear' = s[m]
    BY <2>2, <2>3, <2>4 DEF List!list_RemoveFromEnd, List!Freed, List!NULL
  <2>6. PICK z : z = [k \in 1 .. m |-> s[k]]
    OBVIOUS
  <2>7. z \in [1 .. m -> Addr] /\ \A k \in 1 .. m : k \in 1 .. n /\ k # n /\ z[k] = s[k] /\ s[k] # s[n]
    BY <1>2, <1>4, <2>1, <2>6 DEF Strung
  <2>17. PICK c \in Nat : c + 1 = Len(content) /\ c = Len(content) - 1 /\ owed \in {0, 1} /\ m = c + owed
    <3>1. owed \in {0, 1}
      BY DEF ListInv, ListType
    <3> QED  BY <1>1, <1>6, <2>1, <3>1
  <2>8. /\ content' \in Seq(Values) /\ Len(content') = c /\ \A k \in 1 .. c : content'[k] = content[k]
        /\ List!nodes' = m
    <3>1. content \in Seq(Values) /\ content' = SubSeq(content, 1, c) /\ c \in 0 .. Len(content)
      BY <1>3, <2>17 DEF ListInv, ListType
    <3>2. content' \in Seq(Values) /\ Len(content') = c /\ \A k \in 1 .. c : content'[k] = content[k]
      BY <2>17, <3>1
    <3> QED  BY <2>5, <2>17, <3>2 DEF List!nodes
  <2>9. /\ data' \in [Addr -> Values \cup {0}]
        /\ \A k \in 1 .. Len(content') : data'[z[k + owed']] = content'[k]
    <3>1. data' \in [Addr -> Values \cup {0}] /\ \A b \in Addr : b # s[n] => data'[b] = data[b]
      BY <1>4, <2>5 DEF ListInv, ListType
    <3>2. \A k \in 1 .. c : k \in 1 .. Len(content) /\ k + owed \in 1 .. m
      BY <2>17
    <3>3. \A k \in 1 .. c : data[s[k + owed]] = content[k]
      BY <1>2, <3>2 DEF Strung
    <3>4. \A k \in 1 .. c : data'[z[k + owed]] = data[s[k + owed]]
      BY <2>7, <3>1, <3>2
    <3> QED  BY <2>5, <2>8, <3>1, <3>3, <3>4
  <2>10. \A k, l \in 1 .. m : z[k] = z[l] => k = l
    BY <1>2, <2>7 DEF Strung
  <2>11. \A b : b \in allocated' <=> \E k \in 1 .. m : b = z[k]
    <3>1. \A k \in 1 .. n : k = n \/ k \in 1 .. m
      BY <2>1
    <3>2. \A b : b \in allocated <=> \E k \in 1 .. n : b = s[k]
      BY <1>2 DEF Strung
    <3>3. \A b : b \in allocated /\ b # s[n] => \E k \in 1 .. m : b = z[k]
      BY <2>7, <3>1, <3>2
    <3>4. \A k \in 1 .. m : z[k] \in allocated /\ z[k] # s[n]
      BY <2>7, <3>2
    <3> QED  BY <2>5, <3>3, <3>4
  <2>12. /\ next' \in [Addr -> Addr \cup {0}] /\ next'[s[m]] = 0
         /\ \A b \in Addr : b # s[m] => next'[b] = next[b]
    BY <2>2, <2>5 DEF ListInv, ListType
  <2>13. \A k \in 1 .. m - 1 : next'[z[k]] = z[k + 1]
    <3> SUFFICES ASSUME NEW k \in 1 .. m - 1 PROVE next'[z[k]] = z[k + 1]
      OBVIOUS
    <3>1. k \in 1 .. m /\ k + 1 \in 1 .. m /\ k # m /\ k \in 1 .. n - 1 /\ m \in 1 .. m
      BY <2>1
    <3>2. z[k] = s[k] /\ z[k + 1] = s[k + 1] /\ s[k] # s[m] /\ s[k] \in Addr
      BY <2>7, <2>10, <3>1
    <3> QED  BY <1>2, <2>12, <3>1, <3>2 DEF Strung
  <2>14. \A b \in Addr \ allocated' : next'[b] = 0
    BY <1>4, <2>5, <2>12 DEF ListInv, ListType
  <2>15. Strung(z, m)'
    <3>1. 1 \in 1 .. m /\ m \in 1 .. m /\ m # 0
      BY <2>1
    <3>2. list_front' = z[1] /\ next'[z[m]] = 0
      BY <1>3, <1>4, <2>7, <2>12, <3>1
    <3>3. list_rear' = z[m]
      BY <2>5, <2>7, <3>1
    <3> QED  BY <2>9, <2>10, <2>11, <2>13, <3>1, <3>2, <3>3 DEF Strung
  <2>16. ListType'
    BY <2>5, <2>8, <2>9, <2>12, <2>14, <2>17 DEF ListType
  <2> QED  BY <2>7, <2>8, <2>15, <2>16 DEF ListInv
<1> QED  BY <1>4, <1>5, <1>6

LEMMA ListRemovesFirst ==
    ASSUME ListInv, List!list_RemoveFromFront
    PROVE  ListInv'
<1> USE AddrAssumption
<1>1. PICK n \in Nat : n = List!nodes /\ n = Len(content) + owed /\ Len(content) \in Nat
  BY NodesCounted DEF ListInv
<1>2. PICK s \in [1 .. n -> Addr] : Strung(s, n)
  BY <1>1 DEF ListInv
<1>3. /\ list_front # 0 /\ list_front' = next[list_front]
      /\ next' = [next EXCEPT ![list_front] = 0] /\ allocated' = allocated \ {list_front}
      /\ data' = [data EXCEPT ![list_front] = 0] /\ content' = SubSeq(content, 2, Len(content))
      /\ owed' = (IF content = <<>> THEN 0 ELSE owed) /\ list_rear' = list_rear
  BY DEF List!list_RemoveFromFront, List!AskFirst, List!Freed, List!NULL
<1>4. n # 0 /\ list_front = s[1] /\ 1 \in 1 .. n /\ n \in 1 .. n /\ next[s[n]] = 0
  BY <1>2, <1>3 DEF Strung
<1>5. PICK m \in Nat : m = n - 1 /\ m + 1 = n
  BY <1>4
<1>6. PICK z : z = [k \in 1 .. m |-> s[k + 1]]
  OBVIOUS
<1>7. z \in [1 .. m -> Addr] /\ \A k \in 1 .. m : z[k] = s[k + 1] /\ k + 1 \in 1 .. n /\ s[k + 1] # s[1]
  BY <1>2, <1>4, <1>5, <1>6 DEF Strung
<1>17. content \in Seq(Values) /\ owed \in {0, 1} /\ (content = <<>> <=> Len(content) = 0)
  BY EmptySeq DEF ListInv, ListType
<1>8. /\ content' \in Seq(Values) /\ owed' \in {0, 1} /\ List!nodes' = m
      /\ \A k \in 1 .. Len(content') :
             /\ content'[k] = content[k + 1] /\ k + 1 \in 1 .. Len(content)
             /\ owed' = owed /\ k + owed \in 1 .. m
  <2>1. CASE content = <<>>
    <3>1. content' = <<>> /\ Len(content') = 0 /\ owed' = 0
      BY <1>3, <1>17, <2>1
    <3>2. m = 0
      BY <1>1, <1>4, <1>5, <1>17, <2>1
    <3> QED  BY <3>1, <3>2 DEF List!nodes
  <2>2. CASE content # <<>>
    <3>7. PICK d \in Nat : d = Len(content) /\ d # 0
      BY <1>1, <1>17, <2>2
    <3>1. PICK c \in Nat : c + 1 = Len(content) /\ c = Len(content) - 1
      <4>1. d - 1 \in Nat /\ (d - 1) + 1 = d
        BY <3>7
      <4> QED  BY <3>7, <4>1
    <3>2. content' = SubSeq(content, 2, c + 1) /\ owed' = owed
      BY <1>3, <2>2, <3>1
    <3>3. /\ content' \in Seq(Values) /\ Len(content') = c
          /\ \A k \in 1 .. c : content'[k] = content[k + 1]
      <4>1. \A k \in 2 .. c + 1 : content[k] \in Values
        BY <1>17, <3>1, ElementOfSeq
      <4>2. /\ content' \in Seq(Values) /\ Len(content') = (c + 1) - 2 + 1
            /\ \A k \in 1 .. (c + 1) - 2 + 1 : content'[k] = content[2 + k - 1]
        BY <1>17, <3>1, <3>2, <4>1, SubSeqProperties
      <4>3. (c + 1) - 2 + 1 = c /\ \A k \in 1 .. c : 2 + k - 1 = k + 1
        OBVIOUS
      <4> QED  BY <4>2, <4>3
    <3>4. m = c + owed
      BY <1>1, <1>5, <1>17, <3>1
    <3>5. \A k \in 1 .. c : k + 1 \in 1 .. Len(content) /\ k + owed \in 1 .. m
      BY <1>17, <3>1, <3>4
    <3>6. List!nodes' = m
      BY <3>2, <3>3, <3>4 DEF List!nodes
    <3> QED  BY <1>17, <3>2, <3>3, <3>5, <3>6
  <2> QED  BY <2>1, <2>2
<1>9. /\ data' \in [Addr -> Values \cup {0}]
      /\ \A k \in 1 .. Len(content') : data'[z[k + owed']] = content'[k]
  <2>1. data' \in [Addr -> Values \cup {0}] /\ \A b \in Addr : b # s[1] => data'[b] = data[b]
    BY <1>3, <1>4 DEF ListInv, ListType
  <2>2. ASSUME NEW k \in 1 .. Len(content') PROVE data'[z[k + owed']] = content'[k]
    <3>1. k \in Int /\ owed \in Int /\ k + owed \in 1 .. m /\ k + 1 \in 1 .. Len(content)
      BY <1>8, <1>17
    <3>2. data[s[(k + 1) + owed]] = content[k + 1]
      BY <1>2, <3>1 DEF Strung
    <3>3. (k + 1) + owed = (k + owed) + 1
      BY <3>1
    <3>4. data'[z[k + owed]] = data[s[(k + owed) + 1]]
      BY <1>7, <2>1, <3>1
    <3> QED  BY <1>8, <3>2, <3>3, <3>4
  <2> QED  BY <2>1, <2>2
<1>10. \A k, l \in 1 .. m : z[k] = z[l] => k = l
  <2> SUFFICES ASSUME NEW k \in 1 .. m, NEW l \in 1 .. m, z[k] = z[l] PROVE k = l
    OBVIOUS
  <2>1. k + 1 = l + 1
    BY <1>2, <1>7 DEF Strung
  <2> QED  BY <2>1
<1>11. \A b : b \in allocated' <=> \E k \in 1 .. m : b = z[k]
  <2>1. \A k \in 1 .. n : k # 1 => k - 1 \in 1 .. m /\ (k - 1) + 1 = k
    BY <1>5
  <2>2. \A k \in 1 .. n : k # 1 => \E l \in 1 .. m : s[k] = z[l]
    BY <1>7, <2>1
  <2>3. \A b : b \in allocated <=> \E k \in 1 .. n : b = s[k]
    BY <1>2 DEF Strung
  <2>4. \A b : b \in allocated /\ b # s[1] => \E k \in 1 .. m : b = z[k]
    BY <2>2, <2>3
  <2>5. \A k \in 1 .. m : z[k] \in allocated /\ z[k] # s[1]
    BY <1>7, <2>3
  <2> QED  BY <1>3, <1>4, <2>4, <2>5
<1>12. /\ next' \in [Addr -> Addr \cup {0}] /\ next'[s[1]] = 0
       /\ \A b \in Addr : b # s[1] => next'[b] = next[b]
  BY <1>3, <1>4 DEF ListInv, ListType
<1>13. \A k \in 1 .. m - 1 : next'[z[k]] = z[k + 1]
  <2> SUFFICES ASSUME NEW k \in 1 .. m - 1 PROVE next'[z[k]] = z[k + 1]
    OBVIOUS
  <2>1. k \in 1 .. m /\ k + 1 \in 1 .. m /\ k + 1 \in 1 .. n - 1
    BY <1>5
  <2>2. z[k] = s[k + 1] /\ z[k + 1] = s[(k + 1) + 1] /\ s[k + 1] # s[1] /\ s[k + 1] \in Addr
    BY <1>7, <2>1
  <2> QED  BY <1>2, <1>12, <2>1, <2>2 DEF Strung
<1>14. \A b \in Addr \ allocated' : next'[b] = 0
  BY <1>3, <1>4, <1>12 DEF ListInv, ListType
<1>15. Strung(z, m)'
  <2>1. CASE m = 0
    <3>1. n = 1
      BY <1>5, <2>1
    <3>2. list_front' = 0
      BY <1>3, <1>4, <3>1
    <3> QED  BY <1>9, <1>10, <1>11, <1>13, <2>1, <3>2 DEF Strung
  <2>2. CASE m # 0
    <3>1. 1 \in 1 .. m /\ m \in 1 .. m /\ 1 \in 1 .. n - 1
      BY <1>5, <2>2
    <3>2. list_front' = z[1]
      BY <1>2, <1>3, <1>4, <1>7, <3>1 DEF Strung
    <3>3. next'[z[m]] = 0
      BY <1>4, <1>5, <1>7, <1>12, <3>1
    <3>4. m > 1 => list_rear' = z[m]
      <4>1. z[m] = s[n] /\ n > 1
        BY <1>5, <1>7, <3>1
      <4> QED  BY <1>2, <1>3, <4>1 DEF Strung
    <3> QED  BY <1>9, <1>10, <1>11, <1>13, <2>2, <3>2, <3>3, <3>4 DEF Strung
  <2> QED  BY <2>1, <2>2
<1>16. ListType'
  BY <1>8, <1>9, <1>12, <1>14 DEF ListType
<1> QED  BY <1>7, <1>8, <1>15, <1>16 DEF ListInv

(* After any calls the list holds the integers added and not removed, in   *)
(* the order added, behind at most one that a list of one node failed to   *)
(* give up at the end; no node leaks, and rear is the last of two or more: *)
(* whatever the integers, and however many nodes there are.                *)
THEOREM ListCorrect == Spec => []HoldsContent
<1>1. Init => ListInv
  BY ListInitHolds DEF Init
<1>2. ListInv /\ [Next]_experimentVars => ListInv'
  <2> SUFFICES ASSUME ListInv, [Next]_experimentVars PROVE ListInv'
    OBVIOUS
  <2>1. CASE list_calls
    BY <2>1, ListAdds, ListRemovesLast, ListRemovesFirst DEF list_calls, List!Next
  <2>2. CASE ~ list_calls
    <3>1. UNCHANGED listVars
      BY <2>2 DEF Next, producer, consumer, main_proc, cpu_worker, SpuriousWakeup, Only, experimentVars
    <3> QED  BY <3>1 DEF listVars, ListInv, ListType, Strung, List!nodes
  <2> QED  BY <2>1, <2>2
<1>3. ListInv => HoldsContent
  BY ListHolds
<1> QED  BY <1>1, <1>2, <1>3, PTL DEF Spec
=============================================================================
