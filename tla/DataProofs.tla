----------------------------- MODULE DataProofs -----------------------------
(***************************************************************************)
(* What the operators on data return, for data of any size: the facts the  *)
(* proofs about threads and processes cite instead of their bodies.  First *)
(* the queue operations, on queues of any length; then SumFunctionOnSet of *)
(* the community modules, on finite sets of any size, which folds by a     *)
(* recursive function on the subsets of the set: where the argument is an  *)
(* induction, it is made by choosing a least counterexample.               *)
(***************************************************************************)
EXTENDS SchedQueue, Functions, SequenceTheorems, FiniteSetTheorems, WellFoundedInduction, TLAPS

(* A non-empty set of naturals has a least element.                        *)
LEMMA LeastNatural ==
    ASSUME NEW T \in SUBSET Nat, T # {}
    PROVE  \E n \in T : \A m \in T : n <= m
<1> DEFINE R == OpToRel(<, Nat)
<1>1. PICK n \in T : \A m \in T : ~ (<<m, n>> \in R)
  <2> HIDE DEF R
  <2> QED  BY WFMin, NatLessThanWellFounded DEF R
<1>2. \A m \in T : n <= m
  <2> SUFFICES ASSUME NEW m \in T PROVE n <= m
    OBVIOUS
  <2>1. m \in Nat /\ n \in Nat
    OBVIOUS
  <2>2. ~ (m < n)
    BY <1>1, <2>1 DEF OpToRel
  <2> QED  BY <2>1, <2>2
<1> QED  BY <1>2
-----------------------------------------------------------------------------
(* Queue nodes, for processes from any set.                                *)
NodeOf(S) == [data : S, priority : Int]

(* A node filed at position k of a queue that keeps its other nodes in     *)
(* order: both enqueue and p_enqueue return such a queue.                  *)
Inserted(q, r, k, n) ==
    /\ k \in 1 .. Len(q) + 1
    /\ Len(r) = Len(q) + 1
    /\ \A i \in 1 .. Len(r) :
         r[i] = IF i < k THEN q[i] ELSE IF i = k THEN n ELSE q[i - 1]

(* The set of carried processes in terms of positions. *)
LEMMA CarriedByIndex ==
    ASSUME NEW S, NEW q \in Seq(NodeOf(S))
    PROVE  Carried(q) = {q[i].data : i \in 1 .. Len(q)}
<1>1. DOMAIN q = 1 .. Len(q)
  BY LenProperties
<1>2. ToSet(q) = {q[i] : i \in 1 .. Len(q)}
  BY <1>1 DEF ToSet
<1> QED  BY <1>2 DEF Carried

(* Inserting a node adds exactly its process, and keeps the queue free of  *)
(* duplicates when the process was not on it.                              *)
LEMMA InsertedFacts ==
    ASSUME NEW S, NEW q \in Seq(NodeOf(S)), NEW r \in Seq(NodeOf(S)),
           NEW k, NEW n \in NodeOf(S), Inserted(q, r, k, n)
    PROVE  /\ Carried(r) = Carried(q) \cup {n.data}
           /\ NoDuplicates(q) /\ n.data \notin Carried(q) => NoDuplicates(r)
<1>1. Len(q) \in Nat /\ Len(r) = Len(q) + 1 /\ k \in 1 .. Len(q) + 1
  BY LenProperties DEF Inserted
<1>0. \A i \in 1 .. Len(q) + 1 :
        /\ i < k => i \in 1 .. Len(q) /\ r[i] = q[i]
        /\ i = k => r[i] = n
        /\ i > k => i - 1 \in 1 .. Len(q) /\ r[i] = q[i - 1]
  BY <1>1 DEF Inserted
<1>2. Carried(q) = {q[i].data : i \in 1 .. Len(q)} /\ Carried(r) = {r[i].data : i \in 1 .. Len(r)}
  BY CarriedByIndex
<1>3. Carried(r) \subseteq Carried(q) \cup {n.data}
  <2> SUFFICES ASSUME NEW i \in 1 .. Len(r)
               PROVE  r[i].data \in Carried(q) \cup {n.data}
    BY <1>2
  <2>1. i \in Int /\ k \in Int /\ i \in 1 .. Len(q) + 1
    BY <1>1
  <2>2. CASE i < k
    BY <1>0, <1>2, <2>1, <2>2
  <2>3. CASE i = k
    BY <1>0, <2>1, <2>3
  <2>4. CASE i > k
    BY <1>0, <1>2, <2>1, <2>4
  <2> QED  BY <2>1, <2>2, <2>3, <2>4
<1>4. n.data \in Carried(r)
  <2>1. k \in 1 .. Len(r) /\ r[k] = n
    BY <1>1 DEF Inserted
  <2> QED  BY <1>2, <2>1
<1>5. Carried(q) \subseteq Carried(r)
  <2> SUFFICES ASSUME NEW i \in 1 .. Len(q)
               PROVE  q[i].data \in Carried(r)
    BY <1>2
  <2>1. CASE i < k
    <3>1. i \in 1 .. Len(r) /\ r[i] = q[i]
      BY <1>1, <2>1 DEF Inserted
    <3> QED  BY <1>2, <3>1
  <2>2. CASE i >= k
    <3>1. i + 1 \in 1 .. Len(r) /\ r[i + 1] = q[i]
      BY <1>1, <2>2 DEF Inserted
    <3> QED  BY <1>2, <3>1
  <2> QED  BY <1>1, <2>1, <2>2 DEF Inserted
<1>6. ASSUME NoDuplicates(q), n.data \notin Carried(q)
      PROVE  NoDuplicates(r)
  <2> SUFFICES ASSUME NEW i \in 1 .. Len(r), NEW j \in 1 .. Len(r), r[i].data = r[j].data
               PROVE  i = j
    BY DEF NoDuplicates
  <2>1. \A m \in 1 .. Len(q) : q[m].data # n.data
    BY <1>2, <1>6
  <2>2. \A m, l \in 1 .. Len(q) : q[m].data = q[l].data => m = l
    BY <1>6 DEF NoDuplicates
  <2>3. i \in Int /\ j \in Int /\ k \in Int /\ i \in 1 .. Len(q) + 1 /\ j \in 1 .. Len(q) + 1
    BY <1>1
  <2> DEFINE Q(m) == q[m].data
             R(m) == r[m].data
  <2>4. \A m \in 1 .. Len(q) + 1 :
          /\ m < k => m \in 1 .. Len(q) /\ R(m) = Q(m)
          /\ m = k => R(m) = n.data
          /\ m > k => m - 1 \in 1 .. Len(q) /\ R(m) = Q(m - 1)
    BY <1>0
  <2>5. \A m \in 1 .. Len(q) : Q(m) # n.data
    BY <2>1
  <2>6. \A m, l \in 1 .. Len(q) : Q(m) = Q(l) => m = l
    BY <2>2
  <2>7. R(i) = R(j)
    OBVIOUS
  <2> HIDE DEF Q, R
  <2>8. (i = k) = (j = k)
    BY <2>3, <2>4, <2>5, <2>7
  <2>9. CASE i # k /\ j # k
    BY <2>3, <2>4, <2>6, <2>7, <2>9
  <2> QED  BY <2>8, <2>9
<1> QED  BY <1>3, <1>4, <1>5, <1>6

(* Min chooses the least element of a set of naturals.                     *)
LEMMA MinOfNaturals ==
    ASSUME NEW T \in SUBSET Nat, T # {}
    PROVE  Min(T) \in T /\ \A x \in T : Min(T) <= x
  BY LeastNatural DEF Min

(* Appending inserts at the end.                                           *)
LEMMA AppendInserts ==
    ASSUME NEW S, NEW q \in Seq(NodeOf(S)), NEW n \in NodeOf(S)
    PROVE  Append(q, n) \in Seq(NodeOf(S)) /\ Inserted(q, Append(q, n), Len(q) + 1, n)
  BY LenProperties DEF Inserted

(* InsertAt inserts at any position up to the one behind the last.         *)
LEMMA InsertAtInserts ==
    ASSUME NEW S, NEW q \in Seq(NodeOf(S)), NEW n \in NodeOf(S), NEW k \in 1 .. Len(q) + 1
    PROVE  InsertAt(q, k, n) \in Seq(NodeOf(S)) /\ Inserted(q, InsertAt(q, k, n), k, n)
<1> DEFINE front == SubSeq(q, 1, k - 1)
           back == SubSeq(q, k, Len(q))
           head == front \o <<n>>
<1>1. Len(q) \in Nat /\ k \in Int
  BY LenProperties
<1>2. /\ front \in Seq(NodeOf(S)) /\ Len(front) = k - 1
      /\ \A i \in 1 .. k - 1 : front[i] = q[i]
  <2>1. \A i \in 1 .. k - 1 : q[i] \in NodeOf(S)
    BY <1>1, ElementOfSeq
  <2>2. /\ front \in Seq(NodeOf(S))
        /\ Len(front) = IF 1 <= k - 1 THEN k - 1 - 1 + 1 ELSE 0
        /\ \A i \in 1 .. k - 1 - 1 + 1 : front[i] = q[1 + i - 1]
    BY <1>1, <2>1, SubSeqProperties
  <2> QED  BY <1>1, <2>2
<1>3. /\ back \in Seq(NodeOf(S)) /\ Len(back) = Len(q) - k + 1
      /\ \A i \in 1 .. Len(q) - k + 1 : back[i] = q[k + i - 1]
  <2>1. \A i \in k .. Len(q) : q[i] \in NodeOf(S)
    BY <1>1, ElementOfSeq
  <2>2. /\ back \in Seq(NodeOf(S))
        /\ Len(back) = IF k <= Len(q) THEN Len(q) - k + 1 ELSE 0
        /\ \A i \in 1 .. Len(q) - k + 1 : back[i] = q[k + i - 1]
    BY <1>1, <2>1, SubSeqProperties
  <2> QED  BY <1>1, <2>2
<1>4. /\ <<n>> \in Seq(NodeOf(S)) /\ Len(<<n>>) = 1 /\ <<n>>[1] = n
  OBVIOUS
<1> HIDE DEF front, back
<1>5. /\ head \in Seq(NodeOf(S)) /\ Len(head) = k
      /\ \A i \in 1 .. k : head[i] = IF i <= k - 1 THEN front[i] ELSE n
  <2>1. /\ head \in Seq(NodeOf(S))
        /\ Len(head) = Len(front) + Len(<<n>>)
        /\ \A i \in 1 .. Len(front) + Len(<<n>>) :
             head[i] = IF i <= Len(front) THEN front[i] ELSE <<n>>[i - Len(front)]
    BY <1>2, <1>4, ConcatProperties
  <2> QED  BY <1>1, <1>2, <1>4, <2>1
<1> HIDE DEF head
<1>6. /\ head \o back \in Seq(NodeOf(S)) /\ Len(head \o back) = Len(q) + 1
      /\ \A i \in 1 .. Len(q) + 1 :
           (head \o back)[i] = IF i <= k THEN head[i] ELSE back[i - k]
  <2>1. /\ head \o back \in Seq(NodeOf(S))
        /\ Len(head \o back) = Len(head) + Len(back)
        /\ \A i \in 1 .. Len(head) + Len(back) :
             (head \o back)[i] = IF i <= Len(head) THEN head[i] ELSE back[i - Len(head)]
    BY <1>3, <1>5, ConcatProperties
  <2> QED  BY <1>1, <1>3, <1>5, <2>1
<1>7. InsertAt(q, k, n) = head \o back
  BY DEF InsertAt, head, front, back
<1>8. \A i \in 1 .. Len(q) + 1 :
        (head \o back)[i] = IF i < k THEN q[i] ELSE IF i = k THEN n ELSE q[i - 1]
  <2> SUFFICES ASSUME NEW i \in 1 .. Len(q) + 1
               PROVE  (head \o back)[i] = IF i < k THEN q[i] ELSE IF i = k THEN n ELSE q[i - 1]
    OBVIOUS
  <2>1. CASE i <= k
    BY <1>1, <1>2, <1>5, <1>6, <2>1
  <2>2. CASE i > k
    <3>1. i - k \in 1 .. Len(q) - k + 1 /\ k + (i - k) - 1 = i - 1
      BY <1>1, <2>2
    <3> QED  BY <1>1, <1>3, <1>6, <2>2, <3>1
  <2>3. i <= k \/ i > k
    BY <1>1
  <2> QED  BY <2>1, <2>2, <2>3, Zenon
<1> QED  BY <1>1, <1>6, <1>7, <1>8 DEF Inserted
-----------------------------------------------------------------------------
(* enqueue and p_enqueue of a process that is not on the queue add exactly *)
(* that process, and keep the queue free of duplicates.                    *)
LEMMA EnqueueFacts ==
    ASSUME NEW S, NEW q \in Seq(NodeOf(S)), NEW p \in S, NEW priority \in Int,
           NEW r, r = enqueue(q, p) \/ r = p_enqueue(q, p, priority)
    PROVE  /\ r \in Seq(NodeOf(S))
           /\ Len(r) = Len(q) + 1
           /\ Carried(r) = Carried(q) \cup {p}
           /\ NoDuplicates(q) /\ p \notin Carried(q) => NoDuplicates(r)
<1>1. node(p, 0) \in NodeOf(S) /\ node(p, priority) \in NodeOf(S)
  BY DEF node, NodeOf
<1>2. node(p, 0).data = p /\ node(p, priority).data = p
  BY DEF node
<1> DEFINE K == {i \in 1 .. Len(q) : q[i].priority > priority} \cup {Len(q) + 1}
<1>3. Min(K) \in 1 .. Len(q) + 1
  <2>1. Len(q) \in Nat
    BY LenProperties
  <2>2. K \in SUBSET Nat /\ K # {} /\ K \subseteq 1 .. Len(q) + 1
    BY <2>1
  <2> HIDE DEF K
  <2>3. Min(K) \in K
    BY <2>2, MinOfNaturals
  <2> QED  BY <2>2, <2>3
<1>4. \E k, n : /\ n \in NodeOf(S) /\ n.data = p
               /\ r \in Seq(NodeOf(S)) /\ Inserted(q, r, k, n)
  <2>1. CASE r = enqueue(q, p)
    BY <1>1, <1>2, <2>1, AppendInserts DEF enqueue
  <2>2. CASE r = p_enqueue(q, p, priority)
    <3>1. r = InsertAt(q, Min(K), node(p, priority))
      BY <2>2 DEF p_enqueue
    <3> HIDE DEF K
    <3> QED  BY <1>1, <1>2, <1>3, <3>1, InsertAtInserts
  <2> QED  BY <2>1, <2>2
<1>5. PICK k, n : /\ n \in NodeOf(S) /\ n.data = p
                  /\ r \in Seq(NodeOf(S)) /\ Inserted(q, r, k, n)
  BY <1>4
<1>6. Len(r) = Len(q) + 1
  BY <1>5 DEF Inserted
<1>7. /\ Carried(r) = Carried(q) \cup {n.data}
      /\ NoDuplicates(q) /\ n.data \notin Carried(q) => NoDuplicates(r)
  BY <1>5, InsertedFacts
<1> QED  BY <1>5, <1>6, <1>7

(* dequeue of a non-empty queue takes exactly one process off it, which is *)
(* no longer on it if it was there once; of an empty one, NULL.            *)
LEMMA DequeueFacts ==
    ASSUME NEW S, NEW q \in Seq(NodeOf(S))
    PROVE  /\ dequeue(q) \in Seq(NodeOf(S))
           /\ Len(q) = 0 <=> isEmpty(q)
           /\ isEmpty(q) => Carried(q) = {} /\ dequeued(q) = NULL
           /\ ~ isEmpty(q) =>
                /\ dequeued(q) \in S
                /\ Len(dequeue(q)) = Len(q) - 1
                /\ Carried(q) = Carried(dequeue(q)) \cup {dequeued(q)}
                /\ NoDuplicates(q) =>
                     NoDuplicates(dequeue(q)) /\ dequeued(q) \notin Carried(dequeue(q))
<1>1. Len(q) \in Nat /\ (Len(q) = 0 <=> q = <<>>)
  BY LenProperties, EmptySeq
<1>2. Carried(q) = {q[i].data : i \in 1 .. Len(q)}
  BY CarriedByIndex
<1>3. CASE q = <<>>
  BY <1>1, <1>2, <1>3 DEF dequeue, dequeued, isEmpty
<1>4. CASE q # <<>>
  <2> DEFINE r == Tail(q)
             Q(i) == q[i].data
             R(i) == r[i].data
  <2>1. /\ Head(q) \in NodeOf(S) /\ Head(q) = q[1] /\ r \in Seq(NodeOf(S))
        /\ Len(r) = Len(q) - 1 /\ \A i \in 1 .. Len(r) : r[i] = q[i + 1]
    BY <1>4, HeadTailProperties
  <2>2. Carried(r) = {R(i) : i \in 1 .. Len(r)} /\ Carried(q) = {Q(i) : i \in 1 .. Len(q)}
    <3>1. Carried(r) = {r[i].data : i \in 1 .. Len(r)}
      BY <2>1, CarriedByIndex
    <3> QED  BY <1>2, <3>1
  <2>3. dequeued(q) = Q(1) /\ dequeue(q) = r /\ Head(q).data \in S
    BY <1>4, <2>1 DEF dequeued, dequeue, isEmpty, NodeOf
  <2>4. Q(1) \in S
    BY <2>1 DEF NodeOf
  <2>5. \A i \in 1 .. Len(r) : R(i) = Q(i + 1)
    BY <2>1
  <2>6. /\ NoDuplicates(q) => \A i, j \in 1 .. Len(q) : Q(i) = Q(j) => i = j
        /\ (\A i, j \in 1 .. Len(r) : R(i) = R(j) => i = j) => NoDuplicates(r)
    BY DEF NoDuplicates
  <2> HIDE DEF Q, R, r
  <2>7. Carried(q) = Carried(r) \cup {Q(1)}
    <3>1. \A i \in 1 .. Len(r) : i + 1 \in 1 .. Len(q)
      BY <1>1, <2>1
    <3>2. \A i \in 1 .. Len(q) : i = 1 \/ (i - 1 \in 1 .. Len(r) /\ (i - 1) + 1 = i)
      BY <1>1, <2>1
    <3>3. 1 \in 1 .. Len(q)
      BY <1>1, <1>4
    <3> QED  BY <2>2, <2>5, <3>1, <3>2, <3>3
  <2>8. ASSUME NoDuplicates(q)
        PROVE  NoDuplicates(r) /\ Q(1) \notin Carried(r)
    <3>1. \A i \in 1 .. Len(r) : i \in Int /\ i + 1 \in 1 .. Len(q) /\ i + 1 # 1
      BY <1>1, <2>1
    <3>2. 1 \in 1 .. Len(q)
      BY <1>1, <1>4
    <3>3. Q(1) \notin Carried(r)
      BY <2>2, <2>5, <2>6, <2>8, <3>1, <3>2
    <3>4. \A i, j \in 1 .. Len(r) : R(i) = R(j) => i = j
      BY <2>5, <2>6, <2>8, <3>1
    <3> QED  BY <2>6, <3>3, <3>4
  <2> QED  BY <1>1, <1>4, <2>1, <2>3, <2>4, <2>7, <2>8 DEF isEmpty
<1> QED  BY <1>3, <1>4
-----------------------------------------------------------------------------
(* A priority queue: no node is in front of one of smaller priority.       *)
Ordered(q) == \A i, j \in 1 .. Len(q) : i < j => q[i].priority <= q[j].priority

(* p_enqueue keeps a queue ordered, leaves the other nodes as they were,   *)
(* and passes only nodes of strictly larger priority value.                *)
LEMMA PEnqueueOrders ==
    ASSUME NEW S, NEW q \in Seq(NodeOf(S)), NEW p \in S, NEW priority \in Int, Ordered(q)
    PROVE  LET r == p_enqueue(q, p, priority)
           IN  /\ r \in Seq(NodeOf(S)) /\ Ordered(r)
               /\ \E k \in 1 .. Len(q) + 1 :
                    /\ Inserted(q, r, k, node(p, priority))
                    /\ \A i \in k .. Len(q) : q[i].priority > priority
<1> DEFINE K == {i \in 1 .. Len(q) : q[i].priority > priority} \cup {Len(q) + 1}
           k == Min(K)
           r == p_enqueue(q, p, priority)
           P(i) == q[i].priority
           R(i) == r[i].priority
<1>1. Len(q) \in Nat
  BY LenProperties
<1>2. k \in K /\ \A x \in K : k <= x
  <2>1. K \in SUBSET Nat /\ K # {}
    BY <1>1
  <2> HIDE DEF K
  <2> QED  BY <2>1, MinOfNaturals
<1>3. /\ k \in 1 .. Len(q) + 1
      /\ \A i \in 1 .. Len(q) : i < k => ~ (P(i) > priority)
      /\ k \in 1 .. Len(q) => P(k) > priority
  <2>1. k \in 1 .. Len(q) + 1
    BY <1>1, <1>2
  <2>2. ASSUME NEW i \in 1 .. Len(q), i < k PROVE ~ (P(i) > priority)
    <3>1. i \in Int /\ k \in Int
      BY <1>1, <2>1
    <3>2. i \notin K
      <4> HIDE DEF K
      <4> QED  BY <1>2, <2>2, <3>1
    <3> QED  BY <3>2
  <2>3. k \in 1 .. Len(q) => P(k) > priority
    <3>1. k \in 1 .. Len(q) => k # Len(q) + 1
      BY <1>1
    <3> HIDE DEF k
    <3> QED  BY <1>2, <3>1
  <2> QED  BY <2>1, <2>2, <2>3
<1>4. node(p, priority) \in NodeOf(S) /\ node(p, priority).priority = priority
  BY DEF node, NodeOf
<1>5. r = InsertAt(q, k, node(p, priority))
  BY DEF p_enqueue
<1> HIDE DEF K, k, r
<1>6. r \in Seq(NodeOf(S)) /\ Inserted(q, r, k, node(p, priority))
  BY <1>3, <1>4, <1>5, InsertAtInserts
<1>7. /\ Len(r) = Len(q) + 1 /\ R(k) = priority
      /\ \A i \in 1 .. Len(r) : i < k => i \in 1 .. Len(q) /\ R(i) = P(i)
      /\ \A i \in 1 .. Len(r) : i > k => i - 1 \in 1 .. Len(q) /\ R(i) = P(i - 1)
  BY <1>1, <1>3, <1>4, <1>6 DEF Inserted
<1>8. \A i \in 1 .. Len(q) : P(i) \in Int
  <2>1. \A i \in 1 .. Len(q) : q[i] \in NodeOf(S)
    BY <1>1, ElementOfSeq
  <2> QED  BY <2>1 DEF NodeOf
<1>9. \A i, j \in 1 .. Len(q) : i < j => P(i) <= P(j)
  BY DEF Ordered
<1> HIDE DEF P, R
<1>10. \A i \in 1 .. Len(q) : i < k => P(i) <= priority
  BY <1>3, <1>8
<1>11. \A i \in 1 .. Len(q) : i >= k => priority <= P(i)
  <2> TAKE i \in 1 .. Len(q)
  <2> HAVE i >= k
  <2>1. k \in 1 .. Len(q) /\ (i = k \/ k < i)
    BY <1>1, <1>3
  <2>2. P(k) > priority /\ P(k) \in Int /\ P(i) \in Int
    BY <1>3, <1>8, <2>1
  <2>3. P(k) <= P(i)
    BY <1>9, <2>1, <2>2
  <2> QED  BY <2>2, <2>3
<1>12. \A i, j \in 1 .. Len(r) : i < j => R(i) <= R(j)
  <2> TAKE i, j \in 1 .. Len(r)
  <2> HAVE i < j
  <2>0. i \in Int /\ j \in Int /\ k \in Int
    BY <1>1, <1>3, <1>7
  <2>1. CASE j < k
    BY <1>7, <1>9, <2>0, <2>1
  <2>2. CASE j = k
    BY <1>7, <1>10, <2>0, <2>2
  <2>3. CASE j > k /\ i = k
    <3>1. j - 1 \in 1 .. Len(q) /\ R(j) = P(j - 1) /\ j - 1 >= k
      BY <1>7, <2>0, <2>3
    <3> QED  BY <1>7, <1>11, <2>3, <3>1
  <2>4. CASE j > k /\ i < k
    <3>1. j - 1 \in 1 .. Len(q) /\ R(j) = P(j - 1) /\ i < j - 1
      BY <1>7, <2>0, <2>4
    <3>2. i \in 1 .. Len(q) /\ R(i) = P(i)
      BY <1>7, <2>4
    <3> QED  BY <1>9, <3>1, <3>2
  <2>5. CASE j > k /\ i > k
    <3>1. j - 1 \in 1 .. Len(q) /\ R(j) = P(j - 1) /\ i - 1 < j - 1
      BY <1>7, <2>0, <2>5
    <3>2. i - 1 \in 1 .. Len(q) /\ R(i) = P(i - 1)
      BY <1>7, <2>5
    <3> QED  BY <1>9, <3>1, <3>2
  <2> QED  BY <2>0, <2>1, <2>2, <2>3, <2>4, <2>5
<1>13. Ordered(r)
  BY <1>12 DEF Ordered, R
<1>14. \A i \in k .. Len(q) : P(i) > priority
  <2> TAKE i \in k .. Len(q)
  <2>1. k \in 1 .. Len(q) /\ i \in 1 .. Len(q) /\ (i = k \/ k < i)
    BY <1>1, <1>3
  <2>2. P(k) > priority /\ P(k) \in Int /\ P(i) \in Int
    BY <1>3, <1>8, <2>1
  <2>3. P(k) <= P(i)
    BY <1>9, <2>1, <2>2
  <2> QED  BY <2>2, <2>3
<1>15. r \in Seq(NodeOf(S)) /\ Ordered(r)
       /\ \E n \in 1 .. Len(q) + 1 :
            /\ Inserted(q, r, n, node(p, priority))
            /\ \A i \in n .. Len(q) : q[i].priority > priority
  BY <1>3, <1>6, <1>13, <1>14 DEF P
<1> QED  BY <1>15 DEF r

(* The front of an ordered queue is of the least priority value, and what  *)
(* dequeue leaves is ordered.                                              *)
LEMMA DequeueOrdered ==
    ASSUME NEW S, NEW q \in Seq(NodeOf(S)), Ordered(q), ~ isEmpty(q)
    PROVE  /\ dequeued(q) = q[1].data
           /\ \A i \in 1 .. Len(q) : q[1].priority <= q[i].priority
           /\ Ordered(dequeue(q))
           /\ Len(dequeue(q)) = Len(q) - 1
           /\ \A i \in 1 .. Len(q) - 1 : dequeue(q)[i] = q[i + 1]
<1>1. Len(q) \in Nat /\ Len(q) # 0
  BY LenProperties, EmptySeq DEF isEmpty
<1>2. /\ Head(q) = q[1] /\ Len(Tail(q)) = Len(q) - 1
      /\ \A i \in 1 .. Len(q) - 1 : Tail(q)[i] = q[i + 1]
  BY HeadTailProperties DEF isEmpty
<1>3. dequeue(q) = Tail(q) /\ dequeued(q) = q[1].data
  BY <1>2 DEF dequeue, dequeued
<1>4. \A i \in 1 .. Len(q) : q[1].priority <= q[i].priority
  <2> TAKE i \in 1 .. Len(q)
  <2>1. q[1].priority \in Int
    <3>1. 1 \in 1 .. Len(q)
      BY <1>1
    <3>2. q[1] \in NodeOf(S)
      BY <3>1, ElementOfSeq
    <3> QED  BY <3>2 DEF NodeOf
  <2>2. i = 1 \/ 1 < i
    BY <1>1
  <2> QED  BY <1>1, <2>1, <2>2 DEF Ordered
<1>5. Ordered(Tail(q))
  <2> SUFFICES ASSUME NEW i \in 1 .. Len(q) - 1, NEW j \in 1 .. Len(q) - 1, i < j
               PROVE  Tail(q)[i].priority <= Tail(q)[j].priority
    BY <1>2 DEF Ordered
  <2>1. i + 1 \in 1 .. Len(q) /\ j + 1 \in 1 .. Len(q) /\ i + 1 < j + 1
    BY <1>1
  <2> QED  BY <1>2, <2>1 DEF Ordered
<1> QED  BY <1>2, <1>3, <1>4, <1>5
-----------------------------------------------------------------------------
(* The order on a queue: some node of a is in front of one of b.           *)
Before(q, a, b) == \E i, j \in 1 .. Len(q) : i < j /\ q[i].data = a /\ q[j].data = b

LEMMA BeforeIsCarried ==
    ASSUME NEW S, NEW q \in Seq(NodeOf(S)), NEW a, NEW b, Before(q, a, b)
    PROVE  a \in Carried(q) /\ b \in Carried(q) /\ (NoDuplicates(q) => a # b)
<1>1. Carried(q) = {q[i].data : i \in 1 .. Len(q)} /\ Len(q) \in Nat
  BY CarriedByIndex, LenProperties
<1>2. PICK i, j \in 1 .. Len(q) : i < j /\ q[i].data = a /\ q[j].data = b
  BY DEF Before
<1>3. i # j
  BY <1>1, <1>2
<1> QED  BY <1>1, <1>2, <1>3 DEF NoDuplicates

LEMMA BeforeIsTotal ==
    ASSUME NEW S, NEW q \in Seq(NodeOf(S)), NEW a \in Carried(q), NEW b \in Carried(q), a # b
    PROVE  Before(q, a, b) \/ Before(q, b, a)
<1>1. Carried(q) = {q[i].data : i \in 1 .. Len(q)} /\ Len(q) \in Nat
  BY CarriedByIndex, LenProperties
<1>2. PICK i \in 1 .. Len(q) : q[i].data = a
  BY <1>1
<1>3. PICK j \in 1 .. Len(q) : q[j].data = b
  BY <1>1
<1>4. i < j \/ j < i
  BY <1>1, <1>2, <1>3
<1> QED  BY <1>2, <1>3, <1>4 DEF Before

(* dequeue takes who was in front of all, and leaves the others in order.  *)
LEMMA DequeuedIsBefore ==
    ASSUME NEW S, NEW q \in Seq(NodeOf(S)), ~ isEmpty(q), NEW a, NEW b
    PROVE  /\ Before(dequeue(q), a, b) => Before(q, a, b)
           /\ b \in Carried(dequeue(q)) => Before(q, dequeued(q), b)
<1> DEFINE r == Tail(q)
<1>1. dequeue(q) = r /\ dequeued(q) = Head(q).data
  BY DEF dequeue, dequeued
<1>2. /\ Head(q) = q[1] /\ r \in Seq(NodeOf(S)) /\ Len(r) = Len(q) - 1
      /\ \A i \in 1 .. Len(r) : r[i] = q[i + 1]
  BY HeadTailProperties DEF isEmpty
<1>3. Len(q) \in Nat /\ Len(q) # 0
  BY LenProperties, EmptySeq DEF isEmpty
<1>4. Carried(r) = {r[i].data : i \in 1 .. Len(r)}
  BY <1>2, CarriedByIndex
<1> HIDE DEF r
<1>5. \A i \in 1 .. Len(r) : i \in Int /\ i + 1 \in 1 .. Len(q) /\ 1 < i + 1 /\ 1 \in 1 .. Len(q)
  BY <1>2, <1>3
<1>6. Before(r, a, b) => Before(q, a, b)
  <2> SUFFICES ASSUME NEW i \in 1 .. Len(r), NEW j \in 1 .. Len(r), i < j,
                      r[i].data = a, r[j].data = b
               PROVE  Before(q, a, b)
    BY DEF Before
  <2>1. /\ i + 1 \in 1 .. Len(q) /\ j + 1 \in 1 .. Len(q) /\ i + 1 < j + 1
        /\ q[i + 1].data = a /\ q[j + 1].data = b
    BY <1>2, <1>5
  <2> QED  BY <2>1 DEF Before
<1>7. b \in Carried(r) => Before(q, q[1].data, b)
  <2> SUFFICES ASSUME NEW i \in 1 .. Len(r), r[i].data = b
               PROVE  Before(q, q[1].data, b)
    BY <1>4
  <2>1. i + 1 \in 1 .. Len(q) /\ 1 \in 1 .. Len(q) /\ 1 < i + 1 /\ q[i + 1].data = b
    BY <1>2, <1>5
  <2> QED  BY <2>1 DEF Before
<1> QED  BY <1>1, <1>2, <1>6, <1>7

(* A newcomer is inserted behind all it does not pass, and passes only     *)
(* nodes of strictly larger priority value.                                *)
LEMMA InsertedBehind ==
    ASSUME NEW S, NEW q \in Seq(NodeOf(S)), NEW r, NEW p, NEW k, NEW n, n.data = p,
           Inserted(q, r, k, n), p \notin Carried(q), NEW a, NEW b, Before(r, a, b)
    PROVE  /\ a # p /\ b # p => Before(q, a, b)
           /\ b = p => a \in Carried(q)
           /\ a = p => \E j \in k .. Len(q) : q[j].data = b
<1>1. Len(q) \in Nat /\ Len(r) = Len(q) + 1 /\ k \in 1 .. Len(q) + 1
  BY LenProperties DEF Inserted
<1>2. \A i \in 1 .. Len(q) + 1 :
        /\ i < k => i \in 1 .. Len(q) /\ r[i] = q[i]
        /\ i = k => r[i] = n
        /\ i > k => i - 1 \in k .. Len(q) /\ r[i] = q[i - 1]
  BY <1>1 DEF Inserted
<1>3. Carried(q) = {q[i].data : i \in 1 .. Len(q)}
  BY CarriedByIndex
<1>4. PICK i, j \in 1 .. Len(q) + 1 : i < j /\ r[i].data = a /\ r[j].data = b
  BY <1>1 DEF Before
<1>5. i \in Int /\ j \in Int /\ k \in Int /\ \A m \in k .. Len(q) : m \in 1 .. Len(q)
  BY <1>1, <1>4
<1>6. \A m \in 1 .. Len(q) : q[m].data # p
  BY <1>3
<1>7. \A m \in 1 .. Len(q) + 1 : r[m].data = p => m = k
  <2> SUFFICES ASSUME NEW m \in 1 .. Len(q) + 1, m # k PROVE r[m].data # p
    OBVIOUS
  <2>1. m < k \/ m > k
    BY <1>1
  <2> QED  BY <1>2, <1>5, <1>6, <2>1
<1>8. ASSUME a # p, b # p
      PROVE  Before(q, a, b)
  <2>1. i # k /\ j # k
    BY <1>2, <1>4, <1>8
  <2>2. CASE j < k
    BY <1>2, <1>4, <1>5, <2>2 DEF Before
  <2>3. CASE i < k /\ j > k
    <3>1. i \in 1 .. Len(q) /\ j - 1 \in 1 .. Len(q) /\ i < j - 1
          /\ q[i].data = a /\ q[j - 1].data = b
      BY <1>2, <1>4, <1>5, <2>3
    <3> QED  BY <3>1 DEF Before
  <2>4. CASE i > k
    <3>1. i - 1 \in 1 .. Len(q) /\ j - 1 \in 1 .. Len(q) /\ i - 1 < j - 1
          /\ q[i - 1].data = a /\ q[j - 1].data = b
      BY <1>2, <1>4, <1>5, <2>4
    <3> QED  BY <3>1 DEF Before
  <2>5. j < k \/ (i < k /\ j > k) \/ i > k
    BY <1>5, <2>1
  <2> QED  BY <2>2, <2>3, <2>4, <2>5
<1>9. CASE b = p
  <2>1. j = k /\ i < k
    BY <1>4, <1>7, <1>9
  <2>2. i \in 1 .. Len(q) /\ q[i].data = a
    BY <1>2, <1>4, <2>1
  <2>3. a # p /\ a \in Carried(q)
    BY <1>3, <1>6, <2>2
  <2> QED  BY <1>9, <2>3
<1>10. CASE a = p /\ b # p
  <2>1. i = k /\ j > k
    BY <1>4, <1>5, <1>7, <1>10
  <2>2. j - 1 \in k .. Len(q) /\ q[j - 1].data = b
    BY <1>2, <1>4, <2>1
  <2> QED  BY <1>10, <2>2
<1> QED  BY <1>8, <1>9, <1>10

(* A queue filed by priority: sorted, and every node carries the priority  *)
(* f gives its process.                                                    *)
FiledBy(q, f) == Ordered(q) /\ \A i \in 1 .. Len(q) : q[i].priority = f[q[i].data]

LEMMA FiledByAgrees ==
    ASSUME NEW S, NEW q \in Seq(NodeOf(S)), NEW f, NEW g, FiledBy(q, f),
           \A p \in Carried(q) : g[p] = f[p]
    PROVE  FiledBy(q, g)
<1>1. Carried(q) = {q[i].data : i \in 1 .. Len(q)}
  BY CarriedByIndex
<1> QED  BY <1>1 DEF FiledBy

LEMMA DequeueFiled ==
    ASSUME NEW S, NEW q \in Seq(NodeOf(S)), NEW f, FiledBy(q, f)
    PROVE  FiledBy(dequeue(q), f)
<1>1. CASE isEmpty(q)
  BY <1>1 DEF dequeue
<1>2. CASE ~ isEmpty(q)
  <2>1. /\ Ordered(dequeue(q)) /\ Len(dequeue(q)) = Len(q) - 1
        /\ \A i \in 1 .. Len(q) - 1 : dequeue(q)[i] = q[i + 1]
    BY <1>2, DequeueOrdered DEF FiledBy
  <2>2. \A i \in 1 .. Len(q) - 1 : i + 1 \in 1 .. Len(q)
    BY LenProperties
  <2> QED  BY <2>1, <2>2 DEF FiledBy
<1> QED  BY <1>1, <1>2

LEMMA PEnqueueFiled ==
    ASSUME NEW S, NEW q \in Seq(NodeOf(S)), NEW f, NEW p \in S, f[p] \in Int, FiledBy(q, f)
    PROVE  FiledBy(p_enqueue(q, p, f[p]), f)
<1> DEFINE r == p_enqueue(q, p, f[p])
<1>1. Ordered(r) /\ \E k \in 1 .. Len(q) + 1 : Inserted(q, r, k, node(p, f[p]))
  BY PEnqueueOrders DEF FiledBy
<1> HIDE DEF r
<1>2. PICK k \in 1 .. Len(q) + 1 : Inserted(q, r, k, node(p, f[p]))
  BY <1>1
<1>3. Len(q) \in Nat /\ Len(r) = Len(q) + 1
  BY <1>2, LenProperties DEF Inserted
<1>4. ASSUME NEW i \in 1 .. Len(r)
      PROVE  r[i].priority = f[r[i].data]
  <2>1. CASE i < k
    <3>1. i \in 1 .. Len(q) /\ r[i] = q[i]
      BY <1>2, <1>3, <2>1 DEF Inserted
    <3> QED  BY <3>1 DEF FiledBy
  <2>2. CASE i = k
    BY <1>2, <2>2 DEF Inserted, node
  <2>3. CASE i > k
    <3>1. i - 1 \in 1 .. Len(q) /\ r[i] = q[i - 1]
      BY <1>2, <1>3, <2>3 DEF Inserted
    <3> QED  BY <3>1 DEF FiledBy
  <2> QED  BY <1>3, <2>1, <2>2, <2>3
<1>5. FiledBy(r, f)
  BY <1>1, <1>4 DEF FiledBy
<1> QED  BY <1>5 DEF r

(* Among processes of one priority both enqueues put a newcomer last.      *)
LEMMA NewcomerIsLast ==
    ASSUME NEW S, NEW q \in Seq(NodeOf(S)), NEW f, NEW p \in S, f[p] \in Int,
           p \notin Carried(q), NEW r,
           r = enqueue(q, p) \/ (r = p_enqueue(q, p, f[p]) /\ FiledBy(q, f)),
           NEW a, NEW b, Before(r, a, b), f[a] = f[b]
    PROVE  /\ a # p
           /\ b = p => a \in Carried(q)
           /\ b # p => Before(q, a, b)
<1>1. Len(q) \in Nat /\ node(p, 0) \in NodeOf(S) /\ node(p, 0).data = p
  BY LenProperties DEF node, NodeOf
<1>2. CASE r = enqueue(q, p)
  <2>1. Inserted(q, r, Len(q) + 1, node(p, 0))
    BY <1>1, <1>2, AppendInserts DEF enqueue
  <2>2. Len(q) + 1 .. Len(q) = {}
    BY <1>1
  <2> QED  BY <1>1, <2>1, <2>2, InsertedBehind
<1>3. CASE r = p_enqueue(q, p, f[p]) /\ FiledBy(q, f)
  <2>1. PICK k \in 1 .. Len(q) + 1 :
          /\ Inserted(q, r, k, node(p, f[p]))
          /\ \A i \in k .. Len(q) : q[i].priority > f[p]
    BY <1>3, PEnqueueOrders DEF FiledBy
  <2>2. node(p, f[p]).data = p
    BY DEF node
  <2>3. a # p
    <3> SUFFICES ASSUME a = p PROVE FALSE
      OBVIOUS
    <3>1. PICK j \in k .. Len(q) : q[j].data = b
      BY <2>1, <2>2, InsertedBehind
    <3>2. j \in 1 .. Len(q) /\ q[j].priority > f[p]
      BY <1>1, <2>1
    <3>3. q[j].priority = f[b]
      BY <1>3, <3>1, <3>2 DEF FiledBy
    <3> QED  BY <3>2, <3>3
  <2> QED  BY <2>1, <2>2, <2>3, InsertedBehind
<1> QED  BY <1>2, <1>3
-----------------------------------------------------------------------------
(* A non-empty collection of subsets of a finite set has a smallest one:   *)
(* one no other member is a strict subset of.                              *)
LEMMA LeastSubset ==
    ASSUME NEW S, IsFiniteSet(S), NEW B \in SUBSET (SUBSET S), B # {}
    PROVE  \E T \in B : \A U \in B : U \subseteq T => U = T
<1> DEFINE sizes == {Cardinality(T) : T \in B}
<1>1. \A T \in B : IsFiniteSet(T) /\ Cardinality(T) \in Nat
  BY FS_Subset, FS_CardinalityType
<1>2. sizes \in SUBSET Nat /\ sizes # {}
  BY <1>1
<1>3. PICK n \in sizes : \A m \in sizes : n <= m
  <2> HIDE DEF sizes
  <2> QED  BY <1>2, LeastNatural
<1>4. PICK T \in B : Cardinality(T) = n
  OBVIOUS
<1>5. \A U \in B : U \subseteq T => U = T
  <2> SUFFICES ASSUME NEW U \in B, U \subseteq T, U # T PROVE FALSE
    OBVIOUS
  <2>1. Cardinality(U) < Cardinality(T)
    BY <1>1, FS_Subset
  <2>2. n <= Cardinality(U)
    BY <1>3
  <2> QED  BY <1>1, <1>4, <2>1, <2>2
<1> QED  BY <1>5
-----------------------------------------------------------------------------
(* The recursive function SumFunctionOnSet is defined by.                  *)
Chosen(s) == CHOOSE x \in s : TRUE

Sums(iter, f, S) ==
    iter = [s \in SUBSET S |-> IF s = {} THEN 0 ELSE f[Chosen(s)] + iter[s \ {Chosen(s)}]]

LEMMA ChosenIsMember ==
    ASSUME NEW s, s # {}
    PROVE  Chosen(s) \in s
  BY DEF Chosen

LEMMA SumIsChosen ==
    ASSUME NEW f, NEW S
    PROVE  SumFunctionOnSet(f, S) = (CHOOSE iter : Sums(iter, f, S))[S]
  BY DEF SumFunctionOnSet, FoldFunctionOnSet, MapThenFoldSet, Sums, Chosen

(* It exists, by induction on the size of the subsets it is defined on.    *)
LEMMA SumExists ==
    ASSUME NEW f, NEW S, IsFiniteSet(S)
    PROVE  \E iter : Sums(iter, f, S)
<1> DEFINE Small(n) == {s \in SUBSET S : Cardinality(s) <= n}
           Partial(iter, n) ==
             iter = [s \in Small(n) |-> IF s = {} THEN 0 ELSE f[Chosen(s)] + iter[s \ {Chosen(s)}]]
           gaps == {n \in Nat : ~ \E iter : Partial(iter, n)}
<1>1. \A s \in SUBSET S : IsFiniteSet(s) /\ Cardinality(s) \in Nat /\ (Cardinality(s) = 0 <=> s = {})
  BY FS_Subset, FS_CardinalityType, FS_EmptySet
<1>2. 0 \notin gaps
  <2> DEFINE iter == [s \in Small(0) |-> 0]
  <2>1. \A s \in Small(0) : s = {}
    BY <1>1
  <2>2. Partial(iter, 0)
    BY <2>1
  <2> QED  BY <2>2
<1>3. ASSUME NEW n \in Nat, n \notin gaps
      PROVE  n + 1 \notin gaps
  <2>1. PICK iter : Partial(iter, n)
    BY <1>3
  <2> DEFINE more == [s \in Small(n + 1) |->
                        IF s = {} THEN 0 ELSE f[Chosen(s)] + iter[s \ {Chosen(s)}]]
  <2>2. \A s \in Small(n) : s \in Small(n + 1) /\ more[s] = iter[s]
    <3> SUFFICES ASSUME NEW s \in Small(n) PROVE s \in Small(n + 1) /\ more[s] = iter[s]
      OBVIOUS
    <3>1. s \in Small(n + 1)
      BY <1>1
    <3>2. iter[s] = IF s = {} THEN 0 ELSE f[Chosen(s)] + iter[s \ {Chosen(s)}]
      BY <2>1
    <3> QED  BY <3>1, <3>2
  <2>3. \A s \in Small(n + 1) : s # {} => s \ {Chosen(s)} \in Small(n)
    <3> SUFFICES ASSUME NEW s \in Small(n + 1), s # {} PROVE s \ {Chosen(s)} \in Small(n)
      OBVIOUS
    <3>1. Chosen(s) \in s
      BY ChosenIsMember
    <3>2. Cardinality(s \ {Chosen(s)}) = Cardinality(s) - 1
      BY <1>1, <3>1, FS_RemoveElement
    <3> QED  BY <1>1, <3>2
  <2>4. Partial(more, n + 1)
    <3>1. \A s \in Small(n + 1) :
            more[s] = IF s = {} THEN 0 ELSE f[Chosen(s)] + more[s \ {Chosen(s)}]
      BY <2>2, <2>3
    <3> HIDE DEF Small
    <3>2. more = [s \in Small(n + 1) |-> more[s]]
      OBVIOUS
    <3> HIDE DEF more
    <3> QED  BY <3>1, <3>2
  <2> QED  BY <2>4
<1>4. gaps = {}
  <2> SUFFICES ASSUME gaps # {} PROVE FALSE
    OBVIOUS
  <2>1. gaps \in SUBSET Nat
    OBVIOUS
  <2> HIDE DEF gaps
  <2>2. PICK n \in gaps : \A m \in gaps : n <= m
    BY <2>1, LeastNatural
  <2>3. n \in Nat /\ n # 0
    BY <1>2, <2>1
  <2>4. n - 1 \in Nat /\ n - 1 \notin gaps /\ (n - 1) + 1 = n
    BY <2>2, <2>3
  <2> QED  BY <1>3, <2>4
<1>5. Small(Cardinality(S)) = SUBSET S
  BY <1>1, FS_Subset
<1>6. Cardinality(S) \in Nat
  BY FS_CardinalityType
<1>7. PICK iter : Partial(iter, Cardinality(S))
  <2>1. Cardinality(S) \notin gaps
    <3> HIDE DEF gaps
    <3> QED  BY <1>4
  <2> QED  BY <1>6, <2>1
<1> HIDE DEF Small
<1>8. Sums(iter, f, S)
  BY <1>5, <1>7 DEF Sums
<1> QED  BY <1>8

(* Two of them agree wherever both are defined.                            *)
LEMMA SumAgrees ==
    ASSUME NEW f, NEW S, NEW T, IsFiniteSet(S), T \subseteq S,
           NEW g, Sums(g, f, S), NEW h, Sums(h, f, T)
    PROVE  g[T] = h[T]
<1> DEFINE B == {s \in SUBSET T : g[s] # h[s]}
<1> SUFFICES ASSUME B # {} PROVE FALSE
  OBVIOUS
<1>1. IsFiniteSet(T)
  BY FS_Subset
<1>2. PICK s \in B : \A u \in B : u \subseteq s => u = s
  <2>1. B \in SUBSET (SUBSET T)
    OBVIOUS
  <2> HIDE DEF B
  <2> QED  BY <1>1, <2>1, LeastSubset
<1>3. /\ g[s] = IF s = {} THEN 0 ELSE f[Chosen(s)] + g[s \ {Chosen(s)}]
      /\ h[s] = IF s = {} THEN 0 ELSE f[Chosen(s)] + h[s \ {Chosen(s)}]
  BY DEF Sums
<1>4. s # {}
  BY <1>3
<1>5. s \ {Chosen(s)} \notin B
  BY <1>2, <1>4, ChosenIsMember
<1> QED  BY <1>3, <1>4, <1>5

(* The recursion SumFunctionOnSet stands for.                              *)
LEMMA SumUnfolds ==
    ASSUME NEW f, NEW S, IsFiniteSet(S)
    PROVE  SumFunctionOnSet(f, S) =
             IF S = {} THEN 0 ELSE f[Chosen(S)] + SumFunctionOnSet(f, S \ {Chosen(S)})
<1> DEFINE g == CHOOSE iter : Sums(iter, f, S)
           T == S \ {Chosen(S)}
           h == CHOOSE iter : Sums(iter, f, T)
<1>1. Sums(g, f, S)
  BY SumExists
<1>2. IsFiniteSet(T) /\ T \subseteq S
  BY FS_Subset
<1>3. Sums(h, f, T)
  <2> HIDE DEF T
  <2> QED  BY <1>2, SumExists
<1>4. SumFunctionOnSet(f, S) = g[S] /\ SumFunctionOnSet(f, T) = h[T]
  BY SumIsChosen
<1>5. g[S] = IF S = {} THEN 0 ELSE f[Chosen(S)] + g[T]
  <2> HIDE DEF g
  <2> QED  BY <1>1 DEF Sums
<1>6. g[T] = h[T]
  <2> HIDE DEF g, h, T
  <2> QED  BY <1>1, <1>2, <1>3, SumAgrees
<1> HIDE DEF g, h
<1> QED  BY <1>4, <1>5, <1>6
-----------------------------------------------------------------------------
(* The laws of finite sums.                                                *)

LEMMA SumOfNone ==
    ASSUME NEW f
    PROVE  SumFunctionOnSet(f, {}) = 0
  BY SumUnfolds, FS_EmptySet

(* A sum of integers is an integer.                                        *)
LEMMA SumIsInt ==
    ASSUME NEW f, NEW S, IsFiniteSet(S), \A x \in S : f[x] \in Int
    PROVE  SumFunctionOnSet(f, S) \in Int
<1> DEFINE B == {T \in SUBSET S : SumFunctionOnSet(f, T) \notin Int}
<1> SUFFICES ASSUME B # {} PROVE FALSE
  BY DEF B
<1>1. PICK T \in B : \A U \in B : U \subseteq T => U = T
  <2>1. B \in SUBSET (SUBSET S)
    OBVIOUS
  <2> HIDE DEF B
  <2> QED  BY <2>1, LeastSubset
<1>2. IsFiniteSet(T)
  BY FS_Subset
<1>3. SumFunctionOnSet(f, T) =
        IF T = {} THEN 0 ELSE f[Chosen(T)] + SumFunctionOnSet(f, T \ {Chosen(T)})
  BY <1>2, SumUnfolds
<1>4. CASE T = {}
  BY <1>3, <1>4
<1>5. CASE T # {}
  <2>1. Chosen(T) \in T
    BY <1>5, ChosenIsMember
  <2>2. T \ {Chosen(T)} \notin B
    BY <1>1, <2>1
  <2>3. SumFunctionOnSet(f, T \ {Chosen(T)}) \in Int /\ f[Chosen(T)] \in Int
    BY <2>1, <2>2
  <2> QED  BY <1>3, <1>5, <2>3
<1> QED  BY <1>4, <1>5

(* Any element may be taken out first.                                     *)
LEMMA SumTakesOut ==
    ASSUME NEW f, NEW S, IsFiniteSet(S), \A x \in S : f[x] \in Int, NEW y \in S
    PROVE  SumFunctionOnSet(f, S) = f[y] + SumFunctionOnSet(f, S \ {y})
<1> DEFINE Sum(T) == SumFunctionOnSet(f, T)
           B == {T \in SUBSET S : \E x \in T : Sum(T) # f[x] + Sum(T \ {x})}
<1> SUFFICES ASSUME B # {} PROVE FALSE
  BY DEF B
<1>1. PICK T \in B : \A U \in B : U \subseteq T => U = T
  <2>1. B \in SUBSET (SUBSET S)
    OBVIOUS
  <2> HIDE DEF B
  <2> QED  BY <2>1, LeastSubset
<1>2. PICK x \in T : Sum(T) # f[x] + Sum(T \ {x})
  OBVIOUS
<1> DEFINE a == Chosen(T)
<1>3. a \in T /\ Sum(T) = f[a] + Sum(T \ {a})
  <2>1. IsFiniteSet(T) /\ T # {}
    BY FS_Subset
  <2> QED  BY <2>1, ChosenIsMember, SumUnfolds
<1>4. a # x
  BY <1>2, <1>3
<1>5. \A U \in SUBSET S : Sum(U) \in Int
  BY FS_Subset, SumIsInt
<1>6. Sum(T \ {a}) = f[x] + Sum((T \ {a}) \ {x})
  <2>1. T \ {a} \notin B /\ x \in T \ {a} /\ T \ {a} \in SUBSET S
    BY <1>1, <1>3, <1>4
  <2> HIDE DEF a, Sum
  <2> QED  BY <2>1
<1>7. Sum(T \ {x}) = f[a] + Sum((T \ {x}) \ {a})
  <2>1. T \ {x} \notin B /\ a \in T \ {x} /\ T \ {x} \in SUBSET S
    BY <1>1, <1>3, <1>4
  <2> HIDE DEF a, Sum
  <2> QED  BY <2>1
<1>8. (T \ {a}) \ {x} = (T \ {x}) \ {a} /\ (T \ {a}) \ {x} \in SUBSET S
  OBVIOUS
<1>9. f[a] \in Int /\ f[x] \in Int
  BY <1>3
<1> HIDE DEF a, Sum
<1> QED  BY <1>2, <1>3, <1>5, <1>6, <1>7, <1>8, <1>9

(* Equal terms have equal sums.                                            *)
LEMMA SumOfSame ==
    ASSUME NEW f, NEW g, NEW S, IsFiniteSet(S), \A x \in S : f[x] = g[x]
    PROVE  SumFunctionOnSet(f, S) = SumFunctionOnSet(g, S)
<1> DEFINE B == {T \in SUBSET S : SumFunctionOnSet(f, T) # SumFunctionOnSet(g, T)}
<1> SUFFICES ASSUME B # {} PROVE FALSE
  BY DEF B
<1>1. PICK T \in B : \A U \in B : U \subseteq T => U = T
  <2>1. B \in SUBSET (SUBSET S)
    OBVIOUS
  <2> HIDE DEF B
  <2> QED  BY <2>1, LeastSubset
<1>2. IsFiniteSet(T)
  BY FS_Subset
<1> DEFINE U == T \ {Chosen(T)}
<1>3. /\ SumFunctionOnSet(f, T) = IF T = {} THEN 0 ELSE f[Chosen(T)] + SumFunctionOnSet(f, U)
      /\ SumFunctionOnSet(g, T) = IF T = {} THEN 0 ELSE g[Chosen(T)] + SumFunctionOnSet(g, U)
  BY <1>2, SumUnfolds
<1>4. T # {} => Chosen(T) \in T /\ U \notin B /\ U \in SUBSET S
  BY <1>1, ChosenIsMember
<1>5. T # {} => SumFunctionOnSet(f, U) = SumFunctionOnSet(g, U) /\ f[Chosen(T)] = g[Chosen(T)]
  BY <1>4
<1> QED  BY <1>3, <1>5

(* A sum of naturals is a natural.                                         *)
LEMMA SumIsNat ==
    ASSUME NEW f, NEW S, IsFiniteSet(S), \A x \in S : f[x] \in Nat
    PROVE  SumFunctionOnSet(f, S) \in Nat
<1> DEFINE B == {T \in SUBSET S : SumFunctionOnSet(f, T) \notin Nat}
<1> SUFFICES ASSUME B # {} PROVE FALSE
  BY DEF B
<1>1. PICK T \in B : \A U \in B : U \subseteq T => U = T
  <2>1. B \in SUBSET (SUBSET S)
    OBVIOUS
  <2> HIDE DEF B
  <2> QED  BY <2>1, LeastSubset
<1>2. IsFiniteSet(T)
  BY FS_Subset
<1>3. SumFunctionOnSet(f, T) =
        IF T = {} THEN 0 ELSE f[Chosen(T)] + SumFunctionOnSet(f, T \ {Chosen(T)})
  BY <1>2, SumUnfolds
<1>4. T # {} => Chosen(T) \in T /\ T \ {Chosen(T)} \notin B
  BY <1>1, ChosenIsMember
<1>5. T # {} => SumFunctionOnSet(f, T \ {Chosen(T)}) \in Nat /\ f[Chosen(T)] \in Nat
  BY <1>4
<1> QED  BY <1>3, <1>5

(* Changing one term changes the sum by the difference.                    *)
LEMMA SumChanges ==
    ASSUME NEW f, NEW g, NEW S, IsFiniteSet(S), NEW y \in S,
           \A x \in S : f[x] \in Int, g[y] \in Int, \A x \in S \ {y} : g[x] = f[x]
    PROVE  SumFunctionOnSet(g, S) = SumFunctionOnSet(f, S) + (g[y] - f[y])
<1>1. \A x \in S : g[x] \in Int
  OBVIOUS
<1>2. IsFiniteSet(S \ {y})
  BY FS_Subset
<1>3. /\ SumFunctionOnSet(f, S) = f[y] + SumFunctionOnSet(f, S \ {y})
      /\ SumFunctionOnSet(g, S) = g[y] + SumFunctionOnSet(g, S \ {y})
  BY <1>1, SumTakesOut
<1>4. SumFunctionOnSet(g, S \ {y}) = SumFunctionOnSet(f, S \ {y})
  BY <1>2, SumOfSame
<1>5. SumFunctionOnSet(f, S \ {y}) \in Int
  BY <1>2, SumIsInt
<1> QED  BY <1>3, <1>4, <1>5

(* A sum of zeros is zero.                                                 *)
LEMMA SumOfZeros ==
    ASSUME NEW f, NEW S, IsFiniteSet(S), \A x \in S : f[x] = 0
    PROVE  SumFunctionOnSet(f, S) = 0
<1> DEFINE B == {T \in SUBSET S : SumFunctionOnSet(f, T) # 0}
<1> SUFFICES ASSUME B # {} PROVE FALSE
  BY DEF B
<1>1. PICK T \in B : \A U \in B : U \subseteq T => U = T
  <2>1. B \in SUBSET (SUBSET S)
    OBVIOUS
  <2> HIDE DEF B
  <2> QED  BY <2>1, LeastSubset
<1>2. IsFiniteSet(T)
  BY FS_Subset
<1>3. SumFunctionOnSet(f, T) =
        IF T = {} THEN 0 ELSE f[Chosen(T)] + SumFunctionOnSet(f, T \ {Chosen(T)})
  BY <1>2, SumUnfolds
<1>4. T # {} => Chosen(T) \in T /\ T \ {Chosen(T)} \notin B
  BY <1>1, ChosenIsMember
<1>5. T # {} => SumFunctionOnSet(f, T \ {Chosen(T)}) = 0 /\ f[Chosen(T)] = 0
  BY <1>4
<1> QED  BY <1>3, <1>5

(* The sum of the first n terms of a sequence.                             *)
SumTo(f, n) == SumFunctionOnSet(f, 1 .. n)

LEMMA SumToStep ==
    ASSUME NEW f, NEW n \in Nat, \A i \in 1 .. n : f[i] \in Int
    PROVE  /\ SumTo(f, n) \in Int
           /\ n = 0 => SumTo(f, n) = 0
           /\ n > 0 => SumTo(f, n - 1) \in Int /\ SumTo(f, n) = SumTo(f, n - 1) + f[n]
<1>1. IsFiniteSet(1 .. n)
  BY FS_Interval
<1>2. SumTo(f, n) \in Int
  BY <1>1, SumIsInt DEF SumTo
<1>3. n = 0 => SumTo(f, n) = 0
  <2>1. n = 0 => 1 .. n = {}
    OBVIOUS
  <2> QED  BY <2>1, SumOfNone DEF SumTo
<1>4. ASSUME n > 0
      PROVE  SumTo(f, n - 1) \in Int /\ SumTo(f, n) = SumTo(f, n - 1) + f[n]
  <2>1. n \in 1 .. n /\ (1 .. n) \ {n} = 1 .. (n - 1)
    BY <1>4
  <2>2. SumTo(f, n) = f[n] + SumTo(f, n - 1)
    <3>1. SumFunctionOnSet(f, 1 .. n) = f[n] + SumFunctionOnSet(f, (1 .. n) \ {n})
      BY <1>1, <2>1, SumTakesOut
    <3> QED  BY <2>1, <3>1 DEF SumTo
  <2>3. SumTo(f, n - 1) \in Int
    <3>1. n - 1 \in Int /\ 1 \in Int /\ 1 .. (n - 1) \subseteq 1 .. n
      BY <1>4
    <3>2. IsFiniteSet(1 .. (n - 1)) /\ \A i \in 1 .. (n - 1) : f[i] \in Int
      BY <3>1, FS_Interval
    <3> QED  BY <3>2, SumIsInt DEF SumTo
  <2> QED  BY <2>1, <2>2, <2>3
<1> QED  BY <1>2, <1>3, <1>4

LEMMA SumToFacts ==
    ASSUME NEW f, NEW n \in Nat, \A i \in 1 .. n : f[i] \in Nat
    PROVE  /\ SumTo(f, n) \in Nat
           /\ n = 0 => SumTo(f, n) = 0
           /\ n > 0 => SumTo(f, n) = SumTo(f, n - 1) + f[n]
<1>1. SumTo(f, n) \in Nat
  <2>1. IsFiniteSet(1 .. n)
    BY FS_Interval
  <2> QED  BY <2>1, SumIsNat DEF SumTo
<1>2. \A i \in 1 .. n : f[i] \in Int
  OBVIOUS
<1> QED  BY <1>1, <1>2, SumToStep
=============================================================================
