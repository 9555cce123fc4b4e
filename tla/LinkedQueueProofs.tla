------------------------- MODULE LinkedQueueProofs --------------------------
(***************************************************************************)
(* That the nodes and pointers of LinkedQueue are a well-formed queue at   *)
(* every step of every thread, and that under the mutex they implement the *)
(* atomic queue of SharedQueue: for any threads, processes and addresses.  *)
(***************************************************************************)
EXTENDS LinkedQueue, DataProofs

(***************************************************************************)
(* Chains of nodes, as constants: s leads from front f to rear r along nx. *)
(***************************************************************************)
Linked(s, n, f, r, nx) ==
    /\ IF n = 0 THEN f = NULL /\ r = NULL
                ELSE f = s[1] /\ r = s[n] /\ nx[s[n]] = NULL
    /\ \A i \in 1 .. n - 1 : nx[s[i]] = s[i + 1]
    /\ \A i, j \in 1 .. n : s[i] = s[j] => i = j

(* The chain with node a at position k, and without the one at k.          *)
WithNode(s, n, k, a) ==
    [i \in 1 .. n + 1 |-> IF i < k THEN s[i] ELSE IF i = k THEN a ELSE s[i - 1]]
Without(s, n, k) ==
    [i \in 1 .. n - 1 |-> IF i < k THEN s[i] ELSE s[i + 1]]

(* The addresses on both. *)
LEMMA WithNodeFacts ==
    ASSUME NEW n \in Nat, NEW s \in [1 .. n -> Addr], NEW k \in 1 .. n + 1, NEW a \in Addr
    PROVE  /\ WithNode(s, n, k, a) \in [1 .. n + 1 -> Addr]
           /\ \A b : b \in Range(WithNode(s, n, k, a)) <=> b \in Range(s) \/ b = a
<1> DEFINE z == WithNode(s, n, k, a)
<1>1. \A i \in 1 .. n + 1 : /\ i < k => i \in 1 .. n /\ z[i] = s[i]
                            /\ i = k => z[i] = a
                            /\ i > k => i - 1 \in 1 .. n /\ z[i] = s[i - 1]
  BY DEF WithNode
<1>2. \A i \in 1 .. n + 1 : i \in Int /\ (i < k \/ i = k \/ i > k)
  OBVIOUS
<1>3. z \in [1 .. n + 1 -> Addr]
  <2>1. \A i \in 1 .. n + 1 : z[i] \in Addr
    BY <1>1, <1>2
  <2>2. z = [i \in 1 .. n + 1 |-> z[i]]
    BY DEF WithNode
  <2> HIDE DEF z
  <2> QED  BY <2>1, <2>2
<1>4. \A i \in 1 .. n : \E j \in 1 .. n + 1 : z[j] = s[i]
  <2> SUFFICES ASSUME NEW i \in 1 .. n PROVE \E j \in 1 .. n + 1 : z[j] = s[i]
    OBVIOUS
  <2>1. CASE i < k
    <3>1. i \in 1 .. n + 1 /\ z[i] = s[i]
      BY <1>1, <2>1
    <3> QED  BY <3>1
  <2>2. CASE i >= k
    <3>1. i + 1 \in 1 .. n + 1 /\ i + 1 > k /\ (i + 1) - 1 = i
      BY <2>2
    <3>2. z[i + 1] = s[i]
      BY <1>1, <3>1
    <3> QED  BY <3>1, <3>2
  <2> QED  BY <2>1, <2>2
<1>5. k \in 1 .. n + 1 /\ z[k] = a
  BY <1>1
<1>6. Range(z) = Range(s) \cup {a}
  <2>1. \A i \in 1 .. n + 1 : z[i] = a \/ \E j \in 1 .. n : z[i] = s[j]
    BY <1>1, <1>2
  <2>2. DOMAIN z = 1 .. n + 1 /\ DOMAIN s = 1 .. n
    BY <1>3
  <2> HIDE DEF z
  <2> QED  BY <2>2, <1>4, <1>5, <2>1 DEF Range
<1> HIDE DEF z
<1> QED  BY <1>3, <1>6 DEF z

LEMMA WithoutFacts ==
    ASSUME NEW n \in Nat, NEW s \in [1 .. n -> Addr], NEW k \in 1 .. n,
           \A i, j \in 1 .. n : s[i] = s[j] => i = j
    PROVE  /\ Without(s, n, k) \in [1 .. n - 1 -> Addr]
           /\ \A b : b \in Range(Without(s, n, k)) <=> b \in Range(s) /\ b # s[k]
<1> DEFINE z == Without(s, n, k)
<1>1. \A i \in 1 .. n - 1 : /\ i < k => i \in 1 .. n /\ z[i] = s[i]
                            /\ i >= k => i + 1 \in 1 .. n /\ z[i] = s[i + 1]
  BY DEF Without
<1>2. \A i \in 1 .. n - 1 : i \in Int /\ (i < k \/ i >= k)
  OBVIOUS
<1>3. z \in [1 .. n - 1 -> Addr]
  <2>1. \A i \in 1 .. n - 1 : z[i] \in Addr
    BY <1>1, <1>2
  <2>2. z = [i \in 1 .. n - 1 |-> z[i]]
    BY DEF Without
  <2> HIDE DEF z
  <2> QED  BY <2>1, <2>2
<1>4. \A i \in 1 .. n : i # k => \E j \in 1 .. n - 1 : z[j] = s[i]
  <2> SUFFICES ASSUME NEW i \in 1 .. n, i # k PROVE \E j \in 1 .. n - 1 : z[j] = s[i]
    OBVIOUS
  <2>1. CASE i < k
    <3>1. i \in 1 .. n - 1 /\ z[i] = s[i]
      BY <1>1, <2>1
    <3> QED  BY <3>1
  <2>2. CASE i > k
    <3>1. i - 1 \in 1 .. n - 1 /\ i - 1 >= k /\ (i - 1) + 1 = i
      BY <2>2
    <3>2. z[i - 1] = s[i]
      BY <1>1, <3>1
    <3> QED  BY <3>1, <3>2
  <2> QED  BY <2>1, <2>2
<1>5. \A i \in 1 .. n - 1 : \E j \in 1 .. n : s[j] # s[k] /\ z[i] = s[j]
  <2> SUFFICES ASSUME NEW i \in 1 .. n - 1 PROVE \E j \in 1 .. n : s[j] # s[k] /\ z[i] = s[j]
    OBVIOUS
  <2>1. CASE i < k
    BY <1>1, <2>1
  <2>2. CASE i >= k
    <3>1. i + 1 \in 1 .. n /\ i + 1 # k /\ z[i] = s[i + 1]
      BY <1>1, <2>2
    <3> QED  BY <3>1
  <2> QED  BY <1>2, <2>1, <2>2
<1>6. Range(z) = Range(s) \ {s[k]}
  <2>1. DOMAIN z = 1 .. n - 1 /\ DOMAIN s = 1 .. n
    BY <1>3
  <2> HIDE DEF z
  <2> QED  BY <1>4, <1>5, <2>1 DEF Range
<1> HIDE DEF z
<1> QED  BY <1>3, <1>6 DEF z

(* A node a that is not on the chain is put at position k: its link and    *)
(* that of the node before it are set, or front; and rear, if it is last.  *)
PutsIn(s, n, f, r, nx, k, a, f2, r2, nx2) ==
    /\ \A i \in 1 .. n : s[i] # a
    /\ \A i \in 1 .. n : i # k - 1 => nx2[s[i]] = nx[s[i]]
    /\ k = 1 => f2 = a /\ nx2[a] = f
    /\ k > 1 => f2 = f /\ nx2[s[k - 1]] = a /\ nx2[a] = nx[s[k - 1]]
    /\ r2 = IF k = n + 1 THEN a ELSE r

LEMMA LinkedIn ==
    ASSUME NEW n \in Nat, NEW s \in [1 .. n -> Addr], NEW a \in Addr,
           NEW f, NEW r, NEW nx, Linked(s, n, f, r, nx),
           NEW k \in 1 .. n + 1, NEW f2, NEW r2, NEW nx2,
           PutsIn(s, n, f, r, nx, k, a, f2, r2, nx2)
    PROVE  Linked(WithNode(s, n, k, a), n + 1, f2, r2, nx2)
<1>0. PICK z : z = WithNode(s, n, k, a)
  OBVIOUS
<1> USE DEF PutsIn
<1>1. \A i \in 1 .. n + 1 : /\ i < k => i \in 1 .. n /\ z[i] = s[i]
                            /\ i = k => z[i] = a
                            /\ i > k => i - 1 \in 1 .. n /\ z[i] = s[i - 1]
  BY <1>0 DEF WithNode
<1>2. \A i, j \in 1 .. n : s[i] = s[j] => i = j
  BY DEF Linked
<1>3. \A i \in 1 .. n - 1 : nx[s[i]] = s[i + 1]
  BY DEF Linked
<1>4. n > 0 => f = s[1] /\ r = s[n] /\ nx[s[n]] = NULL
  BY DEF Linked
<1>5. n = 0 => f = NULL /\ r = NULL
  BY DEF Linked
<1>6. \A i, j \in 1 .. n + 1 : z[i] = z[j] => i = j
  <2> SUFFICES ASSUME NEW i \in 1 .. n + 1, NEW j \in 1 .. n + 1, z[i] = z[j] PROVE i = j
    OBVIOUS
  <2>1. i \in Int /\ j \in Int /\ k \in Int
    OBVIOUS
  <2>2. (i = k) = (j = k)
    BY <1>1, <2>1
  <2>3. CASE i # k /\ j # k
    BY <1>1, <1>2, <2>1, <2>3
  <2> QED  BY <2>2, <2>3
<1>7. \A i \in 1 .. n : nx2[z[i]] = z[i + 1]
  <2> SUFFICES ASSUME NEW i \in 1 .. n PROVE nx2[z[i]] = z[i + 1]
    OBVIOUS
  <2>1. i \in 1 .. n + 1 /\ i + 1 \in 1 .. n + 1 /\ i \in Int /\ k \in Int
    OBVIOUS
  <2>2. CASE i < k - 1
    <3>1. z[i] = s[i] /\ z[i + 1] = s[i + 1] /\ i \in 1 .. n - 1 /\ i # k - 1
      BY <1>1, <2>1, <2>2
    <3> QED  BY <1>3, <3>1
  <2>3. CASE i = k - 1
    <3>1. z[i] = s[k - 1] /\ z[i + 1] = a /\ k > 1
      BY <1>1, <2>1, <2>3
    <3> QED  BY <3>1
  <2>4. CASE i = k
    <3>1. z[i] = a /\ z[i + 1] = s[k] /\ k \in 1 .. n
      BY <1>1, <2>1, <2>4
    <3>2. CASE k = 1
      <4>1. n > 0
        BY <3>1
      <4> QED  BY <1>4, <3>1, <3>2, <4>1
    <3>3. CASE k > 1
      <4>1. k - 1 \in 1 .. n - 1 /\ (k - 1) + 1 = k
        BY <3>1, <3>3
      <4> QED  BY <1>3, <3>1, <3>3, <4>1
    <3> QED  BY <3>2, <3>3
  <2>5. CASE i > k
    <3>1. z[i] = s[i - 1] /\ z[i + 1] = s[i] /\ i - 1 \in 1 .. n - 1 /\ i - 1 # k - 1 /\ (i - 1) + 1 = i
      BY <1>1, <2>1, <2>5
    <3> QED  BY <1>3, <3>1
  <2> QED  BY <2>1, <2>2, <2>3, <2>4, <2>5
<1>8. f2 = z[1]
  BY <1>1, <1>4
<1>9. r2 = z[n + 1] /\ nx2[z[n + 1]] = NULL
  <2>1. CASE k = n + 1
    <3>1. z[n + 1] = a /\ r2 = a
      BY <1>1, <2>1
    <3>2. CASE n = 0
      BY <1>5, <2>1, <3>1, <3>2
    <3>3. CASE n > 0
      BY <1>4, <2>1, <3>1, <3>3
    <3> QED  BY <3>1, <3>2, <3>3
  <2>2. CASE k # n + 1
    <3>1. z[n + 1] = s[n] /\ r2 = r /\ n \in 1 .. n /\ n # k - 1 /\ n > 0
      BY <1>1, <2>2
    <3> QED  BY <1>4, <3>1
  <2> QED  BY <2>1, <2>2
<1>10. Linked(z, n + 1, f2, r2, nx2)
  <2>1. (n + 1) - 1 = n /\ n + 1 # 0
    OBVIOUS
  <2> QED  BY <1>6, <1>7, <1>8, <1>9, <2>1 DEF Linked
<1> QED  BY <1>0, <1>10

(* The node at position k leaves: the first one, or one before the last.   *)
TakesOut(s, n, f, r, nx, k, f2, r2, nx2) ==
    /\ k = 1 \/ k < n
    /\ \A i \in 1 .. n : i # k /\ i # k - 1 => nx2[s[i]] = nx[s[i]]
    /\ k = 1 => f2 = nx[f]
    /\ k > 1 => f2 = f /\ nx2[s[k - 1]] = nx[s[k]]
    /\ r2 = IF n = 1 THEN NULL ELSE r

LEMMA LinkedOut ==
    ASSUME NEW n \in Nat, NEW s \in [1 .. n -> Addr],
           NEW f, NEW r, NEW nx, Linked(s, n, f, r, nx),
           NEW k \in 1 .. n, NEW f2, NEW r2, NEW nx2,
           TakesOut(s, n, f, r, nx, k, f2, r2, nx2)
    PROVE  Linked(Without(s, n, k), n - 1, f2, r2, nx2)
<1>0. PICK z : z = Without(s, n, k)
  OBVIOUS
<1> USE AddrAssumption DEF TakesOut
<1>2. \A i, j \in 1 .. n : s[i] = s[j] => i = j
  BY DEF Linked
<1>1. \A i \in 1 .. n - 1 : /\ i < k => i \in 1 .. n /\ z[i] = s[i]
                            /\ i >= k => i + 1 \in 1 .. n /\ z[i] = s[i + 1]
  BY <1>0 DEF Without
<1>3. \A i \in 1 .. n - 1 : nx[s[i]] = s[i + 1]
  BY DEF Linked
<1>4. f = s[1] /\ r = s[n] /\ nx[s[n]] = NULL
  BY DEF Linked
<1>5. \A i, j \in 1 .. n - 1 : z[i] = z[j] => i = j
  <2> SUFFICES ASSUME NEW i \in 1 .. n - 1, NEW j \in 1 .. n - 1, z[i] = z[j] PROVE i = j
    OBVIOUS
  <2>1. CASE i < k /\ j < k
    BY <1>1, <1>2, <2>1
  <2>2. CASE i >= k /\ j >= k
    BY <1>1, <1>2, <2>2
  <2>3. CASE i < k /\ j >= k
    BY <1>1, <1>2, <2>3
  <2>4. CASE i >= k /\ j < k
    BY <1>1, <1>2, <2>4
  <2> QED  BY <2>1, <2>2, <2>3, <2>4
<1>6. \A i \in 1 .. n - 2 : nx2[z[i]] = z[i + 1]
  <2> SUFFICES ASSUME NEW i \in 1 .. n - 2 PROVE nx2[z[i]] = z[i + 1]
    OBVIOUS
  <2>1. i \in 1 .. n - 1 /\ i + 1 \in 1 .. n - 1 /\ i \in Int /\ k \in Int /\ (i + 1) + 1 = i + 2
    OBVIOUS
  <2>2. CASE i < k - 1
    <3>1. z[i] = s[i] /\ z[i + 1] = s[i + 1] /\ i \in 1 .. n /\ i # k - 1 /\ i # k
      BY <1>1, <2>1, <2>2
    <3> QED  BY <1>3, <2>1, <3>1
  <2>3. CASE i = k - 1
    <3>1. z[i] = s[k - 1] /\ z[i + 1] = s[k + 1] /\ k > 1 /\ k \in 1 .. n - 1
      BY <1>1, <2>1, <2>3
    <3> QED  BY <1>3, <3>1
  <2>4. CASE i >= k
    <3>1. z[i] = s[i + 1] /\ z[i + 1] = s[i + 2]
      BY <1>1, <2>1, <2>4
    <3>2. i + 1 \in 1 .. n /\ i + 1 # k /\ i + 1 # k - 1 /\ i + 1 \in 1 .. n - 1
      BY <2>1, <2>4
    <3>3. nx[s[i + 1]] = s[i + 2]
      BY <1>3, <2>1, <3>2
    <3> QED  BY <3>1, <3>2, <3>3
  <2> QED  BY <2>1, <2>2, <2>3, <2>4
<1>7. CASE n = 1
  <2>1. k = 1 /\ n - 1 = 0 /\ f2 = NULL /\ r2 = NULL
    BY <1>4, <1>7
  <2> QED  BY <1>7, <2>1 DEF Linked
<1>8. CASE n > 1
  <2>1. n - 1 \in 1 .. n - 1 /\ 1 \in 1 .. n - 1 /\ (n - 1) + 1 = n /\ n - 1 # 0 /\ (n - 1) - 1 = n - 2
    BY <1>8
  <2>2. f2 = z[1]
    <3>1. CASE k = 1
      BY <1>1, <1>3, <1>4, <2>1, <3>1
    <3>2. CASE k > 1
      BY <1>1, <1>4, <2>1, <3>2
    <3> QED  BY <3>1, <3>2
  <2>3. r2 = z[n - 1]
    BY <1>1, <1>4, <1>8, <2>1
  <2>4. nx2[z[n - 1]] = NULL
    <3>1. z[n - 1] = s[n] /\ n \in 1 .. n /\ n # k /\ n # k - 1
      BY <1>1, <1>8, <2>1
    <3> QED  BY <1>4, <3>1
  <2>5. Linked(z, n - 1, f2, r2, nx2)
    BY <1>5, <1>6, <2>1, <2>2, <2>3, <2>4 DEF Linked
  <2> QED  BY <1>0, <2>5
<1> QED  BY <1>7, <1>8
-----------------------------------------------------------------------------
(***************************************************************************)
(* Walk follows next from front, and so finds the chain.                   *)
(***************************************************************************)
Follows(at, n, f, nx) ==
    at = [i \in 1 .. n |-> IF i = 1 THEN f
                           ELSE IF at[i - 1] \in Addr THEN nx[at[i - 1]] ELSE NULL]

(* The chain does that,                                                    *)
LEMMA ChainFollows ==
    ASSUME NEW n \in Nat, NEW s \in [1 .. n -> Addr], NEW f, NEW r, NEW nx, Linked(s, n, f, r, nx)
    PROVE  Follows(s, n, f, nx)
<1>1. \A i \in 1 .. n :
        s[i] = IF i = 1 THEN f ELSE IF s[i - 1] \in Addr THEN nx[s[i - 1]] ELSE NULL
  <2> SUFFICES ASSUME NEW i \in 1 .. n
               PROVE  s[i] = IF i = 1 THEN f ELSE IF s[i - 1] \in Addr THEN nx[s[i - 1]] ELSE NULL
    OBVIOUS
  <2>1. CASE i = 1
    BY <2>1 DEF Linked
  <2>2. CASE i # 1
    <3>1. i - 1 \in 1 .. n - 1 /\ (i - 1) + 1 = i /\ i - 1 \in 1 .. n
      BY <2>2
    <3> QED  BY <2>2, <3>1 DEF Linked
  <2> QED  BY <2>1, <2>2
<1>2. s = [i \in 1 .. n |-> s[i]]
  OBVIOUS
<1> QED  BY <1>1, <1>2 DEF Follows

(* and nothing else does: the first place where they differ would have the *)
(* same place before it.                                                   *)
LEMMA OneFollows ==
    ASSUME NEW n \in Nat, NEW f, NEW nx, NEW s, Follows(s, n, f, nx), NEW z, Follows(z, n, f, nx)
    PROVE  s = z
<1> DEFINE B == {i \in 1 .. n : s[i] # z[i]}
<1>1. \A i \in 1 .. n :
        /\ s[i] = IF i = 1 THEN f ELSE IF s[i - 1] \in Addr THEN nx[s[i - 1]] ELSE NULL
        /\ z[i] = IF i = 1 THEN f ELSE IF z[i - 1] \in Addr THEN nx[z[i - 1]] ELSE NULL
  BY DEF Follows
<1>2. B = {}
  <2> SUFFICES ASSUME B # {} PROVE FALSE
    OBVIOUS
  <2>1. B \in SUBSET Nat
    OBVIOUS
  <2>2. PICK i \in B : \A j \in B : i <= j
    <3> HIDE DEF B
    <3> QED  BY <2>1, LeastNatural
  <2>3. i \in 1 .. n /\ s[i] # z[i] /\ i # 1
    BY <1>1, <2>2
  <2>4. i - 1 \in 1 .. n /\ i - 1 \notin B
    BY <2>2, <2>3
  <2>5. s[i - 1] = z[i - 1]
    BY <2>4
  <2> QED  BY <1>1, <2>3, <2>5
<1>3. \A i \in 1 .. n : s[i] = z[i]
  BY <1>2
<1>4. s = [i \in 1 .. n |-> s[i]] /\ z = [i \in 1 .. n |-> z[i]]
  <2>1. \A x : Follows(x, n, f, nx) => x = [i \in 1 .. n |-> x[i]]
    BY DEF Follows
  <2> QED  BY <2>1
<1> QED  BY <1>3, <1>4

(* The nodes of a chain, as values. *)
Nodes(s, n, d, p) == [i \in 1 .. n |-> node(d[s[i]], p[s[i]])]

(* Before a step and after it. *)
LEMMA QueuedIsChain ==
    ASSUME NEW n \in Nat, n = len, NEW s \in [1 .. n -> Addr], Linked(s, n, front, rear, next)
    PROVE  Queued = Nodes(s, n, data, priority)
<1> DEFINE at == CHOOSE z : Follows(z, n, front, next)
<1>1. Follows(s, n, front, next)
  BY ChainFollows
<1>2. Follows(at, n, front, next)
  BY <1>1
<1>3. at = s
  <2> HIDE DEF at
  <2> QED  BY <1>1, <1>2, OneFollows
<1>4. Walk = [i \in 1 .. n |-> at[i]]
  BY DEF Walk, NextOf, Follows
<1> HIDE DEF at
<1>5. \A i \in 1 .. n : NodeAt(Walk[i]) = node(data[s[i]], priority[s[i]])
  BY <1>3, <1>4 DEF NodeAt
<1> QED  BY <1>5 DEF Queued, Nodes

LEMMA QueuedIsChainNext ==
    ASSUME NEW n \in Nat, n = len', NEW s \in [1 .. n -> Addr], Linked(s, n, front', rear', next')
    PROVE  Queued' = Nodes(s, n, data', priority')
<1> DEFINE at == CHOOSE z : Follows(z, n, front', next')
<1>1. Follows(s, n, front', next')
  BY ChainFollows
<1>2. Follows(at, n, front', next')
  BY <1>1
<1>3. at = s
  <2> HIDE DEF at
  <2> QED  BY <1>1, <1>2, OneFollows
<1>4. Walk' = [i \in 1 .. n |-> at[i]]
  BY DEF Walk, NextOf, Follows
<1> HIDE DEF at
<1>5. \A i \in 1 .. n : NodeAt(Walk[i])' = node(data'[s[i]], priority'[s[i]])
  BY <1>3, <1>4 DEF NodeAt
<1> QED  BY <1>5 DEF Queued, Nodes
-----------------------------------------------------------------------------
(***************************************************************************)
(* What happens to a chain happens to the sequence of its nodes.           *)
(***************************************************************************)
Carrying(S, n, s, d, p) == \A i \in 1 .. n : d[s[i]] \in S /\ p[s[i]] \in Int

LEMMA NodesSequence ==
    ASSUME NEW S, NEW n \in Nat, NEW s, NEW d, NEW p, Carrying(S, n, s, d, p),
           NEW q, q = Nodes(s, n, d, p)
    PROVE  /\ q \in Seq(NodeOf(S)) /\ Len(q) = n
           /\ \A i \in 1 .. n : /\ q[i] = node(d[s[i]], p[s[i]])
                                /\ q[i].data = d[s[i]] /\ q[i].priority = p[s[i]]
<1>1. \A i \in 1 .. n : /\ q[i] = node(d[s[i]], p[s[i]]) /\ q[i] \in NodeOf(S)
                        /\ q[i].data = d[s[i]] /\ q[i].priority = p[s[i]]
  BY DEF Carrying, Nodes, node, NodeOf
<1>2. q = [i \in 1 .. n |-> q[i]]
  BY DEF Nodes
<1>3. q \in [1 .. n -> NodeOf(S)]
  BY <1>1, <1>2
<1>4. q \in Seq(NodeOf(S)) /\ Len(q) = n
  BY <1>3, SeqDef, LenProperties
<1> QED  BY <1>1, <1>4

LEMMA NodesInserted ==
    ASSUME NEW S, NEW n \in Nat, NEW s \in [1 .. n -> Addr], NEW d, NEW p,
           Carrying(S, n, s, d, p),
           NEW a \in Addr, NEW k \in 1 .. n + 1, NEW x \in S, NEW y \in Int, NEW d2, NEW p2,
           \A i \in 1 .. n : d2[s[i]] = d[s[i]] /\ p2[s[i]] = p[s[i]],
           d2[a] = x /\ p2[a] = y
    PROVE  Nodes(WithNode(s, n, k, a), n + 1, d2, p2) = InsertAt(Nodes(s, n, d, p), k, node(x, y))
<1>1. PICK z : z = WithNode(s, n, k, a)
  OBVIOUS
<1>2. PICK q : q = Nodes(s, n, d, p)
  OBVIOUS
<1>3. PICK r : r = Nodes(z, n + 1, d2, p2)
  OBVIOUS
<1>4. \A i \in 1 .. n + 1 : /\ i < k => i \in 1 .. n /\ z[i] = s[i]
                            /\ i = k => z[i] = a
                            /\ i > k => i - 1 \in 1 .. n /\ z[i] = s[i - 1]
  BY <1>1 DEF WithNode
<1>5. \A i \in 1 .. n + 1 : i \in Int /\ (i < k \/ i = k \/ i > k)
  OBVIOUS
<1>6. Carrying(S, n + 1, z, d2, p2)
  BY <1>4, <1>5 DEF Carrying
<1>7. q \in Seq(NodeOf(S)) /\ Len(q) = n /\ \A i \in 1 .. n : q[i] = node(d[s[i]], p[s[i]])
  BY <1>2, NodesSequence
<1>8. /\ r \in Seq(NodeOf(S)) /\ Len(r) = n + 1
      /\ \A i \in 1 .. n + 1 : r[i] = node(d2[z[i]], p2[z[i]])
  <2>1. PICK m \in Nat : m = n + 1
    OBVIOUS
  <2>2. Carrying(S, m, z, d2, p2) /\ r = Nodes(z, m, d2, p2)
    BY <1>3, <1>6, <2>1
  <2>3. r \in Seq(NodeOf(S)) /\ Len(r) = m /\ \A i \in 1 .. m : r[i] = node(d2[z[i]], p2[z[i]])
    BY <2>2, NodesSequence
  <2> QED  BY <2>1, <2>3
<1>9. node(x, y) \in NodeOf(S)
  BY DEF node, NodeOf
<1>10. PICK t : t = InsertAt(q, k, node(x, y))
  OBVIOUS
<1>11. /\ t \in Seq(NodeOf(S)) /\ Len(t) = n + 1
       /\ \A i \in 1 .. n + 1 : t[i] = IF i < k THEN q[i] ELSE IF i = k THEN node(x, y) ELSE q[i - 1]
  <2>1. t \in Seq(NodeOf(S)) /\ Inserted(q, t, k, node(x, y))
    BY <1>7, <1>9, <1>10, InsertAtInserts
  <2> QED  BY <1>7, <2>1 DEF Inserted
<1>12. \A i \in 1 .. n + 1 : r[i] = t[i]
  <2> SUFFICES ASSUME NEW i \in 1 .. n + 1 PROVE r[i] = t[i]
    OBVIOUS
  <2>1. CASE i < k
    BY <1>4, <1>7, <1>8, <1>11, <2>1
  <2>2. CASE i = k
    <3>1. z[i] = a /\ t[i] = node(x, y)
      BY <1>4, <1>11, <2>2
    <3> QED  BY <1>8, <3>1
  <2>3. CASE i > k
    <3>1. i - 1 \in 1 .. n /\ z[i] = s[i - 1] /\ t[i] = q[i - 1]
      BY <1>4, <1>11, <2>3
    <3> QED  BY <1>7, <1>8, <3>1
  <2> QED  BY <1>5, <2>1, <2>2, <2>3
<1>13. r = t
  BY <1>8, <1>11, <1>12, SeqEqual
<1> QED  BY <1>1, <1>2, <1>3, <1>10, <1>13

LEMMA RemoveAtFacts ==
    ASSUME NEW S, NEW q \in Seq(S), NEW k \in 1 .. Len(q)
    PROVE  /\ RemoveAt(q, k) \in Seq(S) /\ Len(RemoveAt(q, k)) = Len(q) - 1
           /\ \A i \in 1 .. Len(q) - 1 : RemoveAt(q, k)[i] = IF i < k THEN q[i] ELSE q[i + 1]
<1>1. Len(q) \in Nat /\ k \in Int
  BY LenProperties
<1>2. PICK head : head = SubSeq(q, 1, k - 1)
  OBVIOUS
<1>3. PICK back : back = SubSeq(q, k + 1, Len(q))
  OBVIOUS
<1>4. /\ head \in Seq(S) /\ Len(head) = k - 1
      /\ \A i \in 1 .. k - 1 : head[i] = q[i]
  <2>1. \A i \in 1 .. k - 1 : q[i] \in S
    BY <1>1, ElementOfSeq
  <2>2. /\ head \in Seq(S)
        /\ Len(head) = IF 1 <= k - 1 THEN k - 1 - 1 + 1 ELSE 0
        /\ \A i \in 1 .. k - 1 - 1 + 1 : head[i] = q[1 + i - 1]
    BY <1>1, <1>2, <2>1, SubSeqProperties
  <2> QED  BY <1>1, <2>2
<1>5. /\ back \in Seq(S) /\ Len(back) = Len(q) - k
      /\ \A i \in 1 .. Len(q) - k : back[i] = q[k + i]
  <2>1. \A i \in k + 1 .. Len(q) : q[i] \in S
    BY <1>1, ElementOfSeq
  <2>2. /\ back \in Seq(S)
        /\ Len(back) = IF k + 1 <= Len(q) THEN Len(q) - (k + 1) + 1 ELSE 0
        /\ \A i \in 1 .. Len(q) - (k + 1) + 1 : back[i] = q[(k + 1) + i - 1]
    BY <1>1, <1>3, <2>1, SubSeqProperties
  <2> QED  BY <1>1, <2>2
<1>6. /\ head \o back \in Seq(S) /\ Len(head \o back) = Len(q) - 1
      /\ \A i \in 1 .. Len(q) - 1 :
           (head \o back)[i] = IF i <= k - 1 THEN head[i] ELSE back[i - (k - 1)]
  <2>1. /\ head \o back \in Seq(S)
        /\ Len(head \o back) = Len(head) + Len(back)
        /\ \A i \in 1 .. Len(head) + Len(back) :
             (head \o back)[i] = IF i <= Len(head) THEN head[i] ELSE back[i - Len(head)]
    BY <1>4, <1>5, ConcatProperties
  <2> QED  BY <1>1, <1>4, <1>5, <2>1
<1>7. RemoveAt(q, k) = head \o back
  BY <1>2, <1>3 DEF RemoveAt
<1>8. \A i \in 1 .. Len(q) - 1 : (head \o back)[i] = IF i < k THEN q[i] ELSE q[i + 1]
  <2> SUFFICES ASSUME NEW i \in 1 .. Len(q) - 1
               PROVE  (head \o back)[i] = IF i < k THEN q[i] ELSE q[i + 1]
    OBVIOUS
  <2>1. CASE i < k
    BY <1>1, <1>4, <1>6, <2>1
  <2>2. CASE i >= k
    <3>1. i - (k - 1) \in 1 .. Len(q) - k /\ k + (i - (k - 1)) = i + 1
      BY <1>1, <2>2
    <3> QED  BY <1>1, <1>5, <1>6, <2>2, <3>1
  <2>3. i < k \/ (i >= k /\ ~ (i < k))
    BY <1>1
  <2> QED  BY <2>1, <2>2, <2>3, Zenon
<1> QED  BY <1>6, <1>7, <1>8

LEMMA NodesRemoved ==
    ASSUME NEW S, NEW n \in Nat, NEW s \in [1 .. n -> Addr], NEW d, NEW p,
           Carrying(S, n, s, d, p),
           NEW k \in 1 .. n, NEW d2, NEW p2,
           \A i \in 1 .. n : i # k => d2[s[i]] = d[s[i]] /\ p2[s[i]] = p[s[i]]
    PROVE  Nodes(Without(s, n, k), n - 1, d2, p2) = RemoveAt(Nodes(s, n, d, p), k)
<1>1. PICK z : z = Without(s, n, k)
  OBVIOUS
<1>2. PICK q : q = Nodes(s, n, d, p)
  OBVIOUS
<1>3. PICK r : r = Nodes(z, n - 1, d2, p2)
  OBVIOUS
<1>4. \A i \in 1 .. n - 1 : /\ i < k => i \in 1 .. n /\ i # k /\ z[i] = s[i]
                            /\ i >= k => i + 1 \in 1 .. n /\ i + 1 # k /\ z[i] = s[i + 1]
  BY <1>1 DEF Without
<1>5. \A i \in 1 .. n - 1 : i \in Int /\ (i < k \/ i >= k)
  OBVIOUS
<1>6. Carrying(S, n - 1, z, d2, p2)
  BY <1>4, <1>5 DEF Carrying
<1>7. q \in Seq(NodeOf(S)) /\ Len(q) = n /\ \A i \in 1 .. n : q[i] = node(d[s[i]], p[s[i]])
  BY <1>2, NodesSequence
<1>8. /\ r \in Seq(NodeOf(S)) /\ Len(r) = n - 1
      /\ \A i \in 1 .. n - 1 : r[i] = node(d2[z[i]], p2[z[i]])
  <2>1. n - 1 \in Nat
    OBVIOUS
  <2> QED  BY <1>3, <1>6, <2>1, NodesSequence
<1>10. PICK t : t = RemoveAt(q, k)
  OBVIOUS
<1>11. /\ t \in Seq(NodeOf(S)) /\ Len(t) = n - 1
       /\ \A i \in 1 .. n - 1 : t[i] = IF i < k THEN q[i] ELSE q[i + 1]
  BY <1>7, <1>10, RemoveAtFacts
<1>12. \A i \in 1 .. n - 1 : r[i] = t[i]
  <2> SUFFICES ASSUME NEW i \in 1 .. n - 1 PROVE r[i] = t[i]
    OBVIOUS
  <2>1. CASE i < k
    BY <1>4, <1>7, <1>8, <1>11, <2>1
  <2>2. CASE i >= k
    <3>1. i + 1 \in 1 .. n /\ i + 1 # k /\ z[i] = s[i + 1] /\ t[i] = q[i + 1]
      BY <1>4, <1>11, <2>2
    <3> QED  BY <1>7, <1>8, <3>1
  <2> QED  BY <1>5, <2>1, <2>2
<1>13. r = t
  BY <1>8, <1>11, <1>12, SeqEqual
<1> QED  BY <1>1, <1>2, <1>3, <1>10, <1>13

(* Where enqueue and p_enqueue insert, and that dequeue removes in front.  *)
LEMMA EnqueueInsertsLast ==
    ASSUME NEW S, NEW q \in Seq(NodeOf(S)), NEW x \in S
    PROVE  enqueue(q, x) = InsertAt(q, Len(q) + 1, node(x, 0))
<1>1. node(x, 0) \in NodeOf(S) /\ Len(q) \in Nat /\ Len(q) + 1 \in 1 .. Len(q) + 1
  BY LenProperties DEF node, NodeOf
<1>2. PICK r : r = Append(q, node(x, 0))
  OBVIOUS
<1>3. PICK t : t = InsertAt(q, Len(q) + 1, node(x, 0))
  OBVIOUS
<1>4. r \in Seq(NodeOf(S)) /\ Inserted(q, r, Len(q) + 1, node(x, 0))
  BY <1>1, <1>2, AppendInserts
<1>5. t \in Seq(NodeOf(S)) /\ Inserted(q, t, Len(q) + 1, node(x, 0))
  BY <1>1, <1>3, InsertAtInserts
<1>6. Len(r) = Len(t) /\ \A i \in 1 .. Len(r) : r[i] = t[i]
  BY <1>4, <1>5 DEF Inserted
<1>7. r = t
  BY <1>4, <1>5, <1>6, SeqEqual
<1> QED  BY <1>2, <1>3, <1>7 DEF enqueue

LEMMA PEnqueueInsertsBeforeLarger ==
    ASSUME NEW S, NEW q \in Seq(NodeOf(S)), NEW x \in S, NEW y \in Int, NEW k \in 1 .. Len(q) + 1,
           \A i \in 1 .. Len(q) : i < k => q[i].priority <= y,
           k <= Len(q) => q[k].priority > y
    PROVE  p_enqueue(q, x, y) = InsertAt(q, k, node(x, y))
<1> DEFINE K == {i \in 1 .. Len(q) : q[i].priority > y} \cup {Len(q) + 1}
<1>1. Len(q) \in Nat /\ \A i \in 1 .. Len(q) : q[i].priority \in Int
  <2>1. \A i \in 1 .. Len(q) : q[i] \in NodeOf(S)
    BY ElementOfSeq
  <2> QED  BY <2>1, LenProperties DEF NodeOf
<1>2. K \in SUBSET Nat /\ K # {} /\ K \subseteq 1 .. Len(q) + 1
  BY <1>1
<1>3. k \in K
  BY <1>1
<1>4. \A i \in K : i >= k
  <2> SUFFICES ASSUME NEW i \in K, i < k PROVE FALSE
    BY <1>2
  <2>1. i \in 1 .. Len(q)
    BY <1>1
  <2>2. q[i].priority > y
    BY <1>1, <2>1
  <2> QED  BY <1>1, <2>1, <2>2
<1>5. Min(K) = k
  <2>1. k \in Int
    OBVIOUS
  <2> HIDE DEF K
  <2>2. Min(K) \in K /\ Min(K) <= k
    BY <1>2, <1>3, MinOfNaturals
  <2>3. Min(K) >= k /\ Min(K) \in Int
    BY <1>2, <1>4, <2>2
  <2> QED  BY <2>1, <2>2, <2>3
<1>6. p_enqueue(q, x, y) = InsertAt(q, Min(K), node(x, y))
  BY DEF p_enqueue
<1> HIDE DEF K
<1> QED  BY <1>5, <1>6

LEMMA DequeueRemovesFirst ==
    ASSUME NEW S, NEW q \in Seq(NodeOf(S)), Len(q) # 0
    PROVE  ~ isEmpty(q) /\ dequeued(q) = q[1].data /\ dequeue(q) = RemoveAt(q, 1)
<1>1. Len(q) \in Nat /\ q # <<>> /\ 1 \in 1 .. Len(q)
  BY LenProperties, EmptySeq
<1>2. PICK r : r = Tail(q)
  OBVIOUS
<1>3. PICK t : t = RemoveAt(q, 1)
  OBVIOUS
<1>4. r \in Seq(NodeOf(S)) /\ Len(r) = Len(q) - 1 /\ \A i \in 1 .. Len(r) : r[i] = q[i + 1]
  BY <1>1, <1>2, HeadTailProperties
<1>5. /\ t \in Seq(NodeOf(S)) /\ Len(t) = Len(q) - 1
      /\ \A i \in 1 .. Len(q) - 1 : t[i] = IF i < 1 THEN q[i] ELSE q[i + 1]
  BY <1>1, <1>3, RemoveAtFacts
<1>6. \A i \in 1 .. Len(r) : r[i] = t[i]
  BY <1>1, <1>4, <1>5
<1>7. r = t
  BY <1>4, <1>5, <1>6, SeqEqual
<1>8. Head(q) = q[1]
  BY <1>1
<1> QED  BY <1>1, <1>2, <1>3, <1>7, <1>8 DEF isEmpty, dequeued, dequeue
-----------------------------------------------------------------------------
(***************************************************************************)
(* The inductive invariant: where the threads are on the chain.            *)
(***************************************************************************)
(* What a thread's place says of its call. *)
CallOf(t) ==
    /\ pc[t] = "idle" <=> call[t] = "none"
    /\ pc[t] = "traverse" => call[t] \in {"add", "by_pid"}
    /\ pc[t] # "unlock" => result[t] = NULL
    /\ call[t] \in {"add", "by_pid"} => arg[t] \in Procs
    /\ call[t] = "add" => arg[t] \notin held[t]

(* A traversing thread is at a node of the chain; if it is to file a       *)
(* process, its new node is ready and belongs behind the nodes it has      *)
(* passed; if it looks for one, that is not at the rear.                   *)
OnTheWay(s, t) ==
    pc[t] = "traverse" =>
        \E k \in 1 .. len :
            /\ tnode[t] = s[k]
            /\ call[t] = "add" =>
                 /\ newnode[t] \in Addr /\ next[newnode[t]] = NULL
                 /\ data[newnode[t]] = arg[t] /\ priority[newnode[t]] = NewPriority(t)
                 /\ sorted => \A j \in 1 .. k : priority[s[j]] <= NewPriority(t)
            /\ call[t] = "by_pid" => data[rear] # arg[t]

QueueIs(s) ==
    /\ Chain(s)
    /\ Carrying(Procs, len, s, data, priority)
    /\ \A t \in Threads : OnTheWay(s, t)

IInv ==
    /\ TypeOK /\ MutualExclusion
    /\ \A t \in Threads : CallOf(t)
    /\ \E s \in [1 .. len -> Addr] : QueueIs(s)
-----------------------------------------------------------------------------
(***************************************************************************)
(* What a step does to the chain, by what it assigns.                      *)
(***************************************************************************)
LEMMA ChainIsLinked ==
    ASSUME NEW n \in Nat, n = len, NEW s \in [1 .. n -> Addr], QueueIs(s)
    PROVE  /\ Linked(s, n, front, rear, next) /\ Carrying(Procs, n, s, data, priority)
           /\ \A i \in 1 .. n : s[i] \notin Unlinked
           /\ allocated = Range(s) \cup Unlinked
           /\ Queued = Nodes(s, n, data, priority)
<1>1. /\ Linked(s, n, front, rear, next) /\ Carrying(Procs, n, s, data, priority)
      /\ \A i \in 1 .. n : s[i] \notin Unlinked
      /\ allocated = Range(s) \cup Unlinked
  BY DEF QueueIs, Chain, Linked, Range
<1> QED  BY <1>1, QueuedIsChain

(* Nodes and pointers stay. *)
LEMMA ChainStays ==
    ASSUME NEW n \in Nat, n = len, NEW s \in [1 .. n -> Addr], QueueIs(s),
           UNCHANGED <<front, rear, len, allocated>>, Unlinked' = Unlinked,
           \A i \in 1 .. n : /\ data'[s[i]] = data[s[i]] /\ priority'[s[i]] = priority[s[i]]
                             /\ next'[s[i]] = next[s[i]]
    PROVE  Chain(s)' /\ Carrying(Procs, len, s, data, priority)' /\ Queued' = Queued
<1>1. /\ Linked(s, n, front, rear, next) /\ Carrying(Procs, n, s, data, priority)
      /\ \A i \in 1 .. n : s[i] \notin Unlinked
      /\ allocated = Range(s) \cup Unlinked
      /\ Queued = Nodes(s, n, data, priority)
  BY ChainIsLinked
<1>2. Linked(s, n, front', rear', next')
  BY <1>1 DEF Linked
<1>3. Chain(s)'
  BY <1>1, <1>2 DEF Chain, Linked, Range
<1>4. Carrying(Procs, len', s, data', priority')
  BY <1>1 DEF Carrying
<1>5. Queued' = Nodes(s, n, data', priority')
  BY <1>2, QueuedIsChainNext
<1>6. Nodes(s, n, data', priority') = Nodes(s, n, data, priority)
  BY DEF Nodes
<1> QED  BY <1>1, <1>3, <1>4, <1>5, <1>6

(* A node is linked in. *)
LinksIn(n, s, k, a, x, y) ==
    /\ \A i \in 1 .. n : s[i] # a
    /\ data'[a] = x /\ priority'[a] = y
    /\ \A i \in 1 .. n : data'[s[i]] = data[s[i]] /\ priority'[s[i]] = priority[s[i]]
    /\ \A i \in 1 .. n : i # k - 1 => next'[s[i]] = next[s[i]]
    /\ k = 1 => front' = a /\ next'[a] = front
    /\ k > 1 => front' = front /\ next'[s[k - 1]] = a /\ next'[a] = next[s[k - 1]]
    /\ rear' = IF k = n + 1 THEN a ELSE rear
    /\ len' = n + 1 /\ allocated' = Range(s) \cup {a} /\ Unlinked' = {}

LEMMA ChainGrows ==
    ASSUME NEW n \in Nat, n = len, NEW s \in [1 .. n -> Addr], QueueIs(s),
           NEW k \in 1 .. n + 1, NEW a \in Addr, NEW x \in Procs, NEW y \in Int,
           LinksIn(n, s, k, a, x, y)
    PROVE  \E m \in Nat : \E z \in [1 .. m -> Addr] :
             /\ m = len' /\ Chain(z)' /\ Carrying(Procs, len, z, data, priority)'
             /\ Queued' = InsertAt(Queued, k, node(x, y))
<1> USE DEF LinksIn
<1>1. /\ Linked(s, n, front, rear, next) /\ Carrying(Procs, n, s, data, priority)
      /\ Queued = Nodes(s, n, data, priority)
  BY ChainIsLinked
<1>2. PICK z : z = WithNode(s, n, k, a)
  OBVIOUS
<1>3. PICK m \in Nat : m = n + 1
  OBVIOUS
<1>4. /\ z \in [1 .. m -> Addr]
      /\ \A b : b \in Range(z) <=> b \in Range(s) \/ b = a
  <2>1. z \in [1 .. n + 1 -> Addr]
    BY <1>2, WithNodeFacts
  <2>2. \A b : b \in Range(WithNode(s, n, k, a)) <=> b \in Range(s) \/ b = a
    BY WithNodeFacts
  <2> QED  BY <1>3, <2>1, <2>2, <1>2
<1>5. \A i \in 1 .. m : /\ i < k => i \in 1 .. n /\ z[i] = s[i]
                        /\ i = k => z[i] = a
                        /\ i > k => i - 1 \in 1 .. n /\ z[i] = s[i - 1]
  BY <1>2, <1>3 DEF WithNode
<1>6. Linked(z, m, front', rear', next')
  <2>1. PutsIn(s, n, front, rear, next, k, a, front', rear', next')
    BY DEF PutsIn
  <2>2. Linked(WithNode(s, n, k, a), n + 1, front', rear', next')
    BY <1>1, <2>1, LinkedIn
  <2> QED  BY <1>2, <1>3, <2>2
<1>7. Carrying(Procs, m, z, data', priority')
  <2>1. \A i \in 1 .. m : i \in Int /\ (i < k \/ i = k \/ i > k)
    OBVIOUS
  <2> QED  BY <1>1, <1>5, <2>1 DEF Carrying
<1>8. Chain(z)'
  BY <1>3, <1>4, <1>6 DEF Chain, Linked, Range
<1>9. Queued' = Nodes(z, m, data', priority')
  <2>1. m = len'
    BY <1>3
  <2> QED  BY <1>4, <1>6, <2>1, QueuedIsChainNext
<1>10. Nodes(z, m, data', priority') = InsertAt(Nodes(s, n, data, priority), k, node(x, y))
  BY <1>1, <1>2, <1>3, NodesInserted
<1>11. m = len' /\ Carrying(Procs, len, z, data, priority)'
  BY <1>3, <1>7
<1> QED  BY <1>1, <1>4, <1>8, <1>9, <1>10, <1>11

(* A node leaves. *)
LinksOut(n, s, k) ==
    /\ k = 1 \/ k < n
    /\ \A i \in 1 .. n : i # k => data'[s[i]] = data[s[i]] /\ priority'[s[i]] = priority[s[i]]
    /\ \A i \in 1 .. n : i # k /\ i # k - 1 => next'[s[i]] = next[s[i]]
    /\ k = 1 => front' = next[front]
    /\ k > 1 => front' = front /\ next'[s[k - 1]] = next[s[k]]
    /\ rear' = IF n = 1 THEN NULL ELSE rear
    /\ len' = n - 1 /\ allocated' = allocated \ {s[k]} /\ Unlinked = {} /\ Unlinked' = {}

LEMMA ChainShrinks ==
    ASSUME NEW n \in Nat, n = len, NEW s \in [1 .. n -> Addr], QueueIs(s),
           NEW k \in 1 .. n, LinksOut(n, s, k)
    PROVE  \E m \in Nat : \E z \in [1 .. m -> Addr] :
             /\ m = len' /\ Chain(z)' /\ Carrying(Procs, len, z, data, priority)'
             /\ Queued' = RemoveAt(Queued, k)
<1> USE DEF LinksOut
<1>1. /\ Linked(s, n, front, rear, next) /\ Carrying(Procs, n, s, data, priority)
      /\ allocated = Range(s) /\ Queued = Nodes(s, n, data, priority)
  BY ChainIsLinked
<1>2. PICK z : z = Without(s, n, k)
  OBVIOUS
<1>3. PICK m \in Nat : m = n - 1
  OBVIOUS
<1>4. /\ z \in [1 .. m -> Addr]
      /\ \A b : b \in Range(z) <=> b \in Range(s) /\ b # s[k]
  <2>1. \A i, j \in 1 .. n : s[i] = s[j] => i = j
    BY <1>1 DEF Linked
  <2>2. z \in [1 .. n - 1 -> Addr]
    BY <1>2, <2>1, WithoutFacts
  <2>3. \A b : b \in Range(z) <=> b \in Range(s) /\ b # s[k]
    BY <1>2, <2>1, WithoutFacts
  <2> QED  BY <1>3, <2>2, <2>3
<1>5. \A i \in 1 .. m : /\ i < k => i \in 1 .. n /\ i # k /\ z[i] = s[i]
                        /\ i >= k => i + 1 \in 1 .. n /\ i + 1 # k /\ z[i] = s[i + 1]
  BY <1>2, <1>3 DEF Without
<1>6. Linked(z, m, front', rear', next')
  <2>1. TakesOut(s, n, front, rear, next, k, front', rear', next')
    BY DEF TakesOut
  <2>2. Linked(Without(s, n, k), n - 1, front', rear', next')
    BY <1>1, <2>1, LinkedOut
  <2> QED  BY <1>2, <1>3, <2>2
<1>7. Carrying(Procs, m, z, data', priority')
  <2>1. \A i \in 1 .. m : i \in Int /\ (i < k \/ i >= k)
    OBVIOUS
  <2>2. \A i \in 1 .. m : \E j \in 1 .. n : j # k /\ z[i] = s[j]
    BY <1>5, <2>1
  <2>3. \A j \in 1 .. n : j # k => data'[s[j]] \in Procs /\ priority'[s[j]] \in Int
    BY <1>1 DEF Carrying
  <2> QED  BY <2>2, <2>3 DEF Carrying
<1>8. Chain(z)'
  <2>1. allocated' = Range(z) /\ Unlinked' = {}
    BY <1>1, <1>4
  <2>2. Range(z) = {z[i] : i \in 1 .. m}
    BY <1>4 DEF Range
  <2>3. m = len'
    BY <1>3
  <2> QED  BY <1>6, <2>1, <2>2, <2>3 DEF Chain, Linked
<1>9. Queued' = Nodes(z, m, data', priority')
  <2>1. m = len'
    BY <1>3
  <2> QED  BY <1>4, <1>6, <2>1, QueuedIsChainNext
<1>10. Nodes(z, m, data', priority') = RemoveAt(Nodes(s, n, data, priority), k)
  <2>1. Nodes(Without(s, n, k), n - 1, data', priority') = RemoveAt(Nodes(s, n, data, priority), k)
    BY <1>1, NodesRemoved
  <2> QED  BY <1>2, <1>3, <2>1
<1>11. m = len' /\ Carrying(Procs, len, z, data, priority)'
  BY <1>3, <1>7
<1> QED  BY <1>1, <1>4, <1>8, <1>9, <1>10, <1>11
-----------------------------------------------------------------------------
(***************************************************************************)
(* What a step of thread t does to the locals of the threads.              *)
(***************************************************************************)
Step(t) == Calls(t) \/ Lock(t) \/ Holding(t)

Others(t) ==
    \A u \in Threads \ {t} :
        /\ pc'[u] = pc[u] /\ call'[u] = call[u] /\ arg'[u] = arg[u] /\ held'[u] = held[u]
        /\ tnode'[u] = tnode[u] /\ newnode'[u] = newnode[u] /\ result'[u] = result[u]

LEMMA OthersStay ==
    ASSUME TypeOK, NEW t \in Threads, Step(t)
    PROVE  Others(t) /\ sorted' = sorted
<1> USE DEF TypeOK, Others, Goto, locals
<1>1. CASE Calls(t)
  BY <1>1 DEF Calls, CallRemove, CallAdd, CallRemoveByPid
<1>2. CASE Lock(t)
  BY <1>2 DEF Lock
<1>3. CASE Adds(t)
  BY <1>3 DEF Adds, EnqueueFirst, EnqueueFront, EnqueueTraverse, TraverseOn, Link
<1>4. CASE Removes(t)
  BY <1>4 DEF Removes, Dequeue, NothingFound, ByPidAtEnd, ByPidTraverse, ByPidTraverseOn, ByPidUnlink,
              DequeueNode, Free
<1>5. CASE Unlock(t)
  BY <1>5 DEF Unlock
<1> QED  BY <1>1, <1>2, <1>3, <1>4, <1>5 DEF Step, Holding

(* Where a step starts and where it goes. *)
LEMMA StepMoves ==
    ASSUME TypeOK, NEW t \in Threads, Step(t)
    PROVE  \/ pc[t] = "idle" /\ pc'[t] = "lock" /\ mutex' = mutex
           \/ pc[t] = "lock" /\ pc'[t] = "enter" /\ mutex = NULL /\ mutex' = t
           \/ pc[t] = "unlock" /\ pc'[t] = "idle" /\ mutex' = NULL
           \/ pc[t] \in {"enter", "traverse"} /\ pc'[t] \in {"traverse", "unlock"} /\ mutex' = mutex
<1> USE DEF TypeOK, Goto
<1>1. CASE Calls(t)
  BY <1>1 DEF Calls, CallRemove, CallAdd, CallRemoveByPid
<1>2. CASE Lock(t)
  BY <1>2 DEF Lock
<1>3. CASE Adds(t)
  BY <1>3 DEF Adds, EnqueueFirst, EnqueueFront, EnqueueTraverse, TraverseOn, Link
<1>4. CASE Removes(t)
  BY <1>4 DEF Removes, Dequeue, NothingFound, ByPidAtEnd, ByPidTraverse, ByPidTraverseOn, ByPidUnlink
<1>5. CASE Unlock(t)
  BY <1>5 DEF Unlock
<1> QED  BY <1>1, <1>2, <1>3, <1>4, <1>5 DEF Step, Holding

(* Only one thread is in the queue. *)
LEMMA Alone ==
    ASSUME MutualExclusion, NEW t \in Threads, pc[t] \in Critical
    PROVE  mutex = t /\ \A u \in Threads : u # t => pc[u] \notin Critical
  BY DEF MutualExclusion

LEMMA MutexKept ==
    ASSUME TypeOK, MutualExclusion, NEW t \in Threads, Step(t)
    PROVE  MutualExclusion'
<1>1. \A u \in Threads \ {t} : pc'[u] = pc[u]
  BY OthersStay DEF Others
<1>2. \A u \in Threads : pc[u] \in Critical <=> mutex = u
  BY DEF MutualExclusion
<1>3. \A u \in Threads : pc'[u] \in Critical <=> mutex' = u
  BY <1>1, <1>2, StepMoves, ThreadAssumption DEF Critical
<1> QED  BY <1>3 DEF MutualExclusion

(* A thread's place goes with its call. *)
LEMMA CallsKept ==
    ASSUME TypeOK, \A u \in Threads : CallOf(u), NEW t \in Threads, Step(t)
    PROVE  \A u \in Threads : CallOf(u)'
<1>1. Others(t)
  BY OthersStay
<1>2. CallOf(t)
  OBVIOUS
<1>3. CallOf(t)'
  <2> USE DEF TypeOK, Goto, CallOf, locals
  <2>1. CASE Calls(t)
    BY <1>2, <2>1 DEF Calls, CallRemove, CallAdd, CallRemoveByPid
  <2>2. CASE Lock(t)
    BY <1>2, <2>2 DEF Lock
  <2>3. CASE Adds(t)
    BY <1>2, <2>3 DEF Adds, EnqueueFirst, EnqueueFront, EnqueueTraverse, TraverseOn, Link, Entering
  <2>4. CASE Removes(t)
    BY <1>2, <2>4 DEF Removes, Dequeue, NothingFound, ByPidAtEnd, ByPidTraverse, ByPidTraverseOn,
                      ByPidUnlink, Entering
  <2>5. CASE Unlock(t)
    BY <1>2, <2>5 DEF Unlock
  <2> QED  BY <2>1, <2>2, <2>3, <2>4, <2>5 DEF Step, Holding
<1>4. ASSUME NEW u \in Threads, u # t
      PROVE  CallOf(u)'
  <2>1. CallOf(u)
    OBVIOUS
  <2> QED  BY <1>1, <1>4, <2>1 DEF Others, CallOf
<1> QED  BY <1>3, <1>4

(* What remains to be shown of a step.                                     *)
LEMMA AfterStep ==
    ASSUME IInv, NEW t \in Threads, Step(t), TypeOK',
           NEW m \in Nat, NEW z \in [1 .. m -> Addr], m = len',
           Chain(z)', Carrying(Procs, len, z, data, priority)',
           \A u \in Threads : OnTheWay(z, u)'
    PROVE  IInv'
<1>1. MutualExclusion' /\ \A u \in Threads : CallOf(u)'
  BY MutexKept, CallsKept DEF IInv
<1>2. QueueIs(z)'
  BY DEF QueueIs
<1> QED  BY <1>1, <1>2 DEF IInv

(* The one in the queue leaves it alone: the new nodes that others have    *)
(* are none.                                                               *)
LEMMA UnlinkedKept ==
    ASSUME TypeOK, NEW t \in Threads, Step(t),
           pc[t] = "traverse" /\ call[t] = "add" <=> pc'[t] = "traverse" /\ call'[t] = "add",
           newnode'[t] = newnode[t] \/ ~ (pc[t] = "traverse" /\ call[t] = "add")
    PROVE  Unlinked' = Unlinked
<1>1. Others(t)
  BY OthersStay
<1>2. \A u \in Threads : /\ pc[u] = "traverse" /\ call[u] = "add" <=> pc'[u] = "traverse" /\ call'[u] = "add"
                         /\ pc[u] = "traverse" /\ call[u] = "add" => newnode'[u] = newnode[u]
  BY <1>1 DEF Others
<1>3. {u \in Threads : pc'[u] = "traverse" /\ call'[u] = "add"} = {u \in Threads : pc[u] = "traverse" /\ call[u] = "add"}
  BY <1>2
<1> QED  BY <1>2, <1>3 DEF Unlinked

(* A step that leaves the nodes and pointers alone. *)
LEMMA ReadOnlyStep ==
    ASSUME IInv, NEW t \in Threads, Step(t), UNCHANGED list, TypeOK', Unlinked' = Unlinked,
           NEW n \in Nat, n = len, NEW s \in [1 .. n -> Addr], QueueIs(s), OnTheWay(s, t)'
    PROVE  IInv' /\ Queued' = Queued
<1>1. Chain(s)' /\ Carrying(Procs, len, s, data, priority)' /\ Queued' = Queued
  BY ChainStays DEF list
<1>2. Others(t) /\ sorted' = sorted
  BY OthersStay DEF IInv
<1>3. \A u \in Threads : OnTheWay(s, u)'
  <2> SUFFICES ASSUME NEW u \in Threads, u # t PROVE OnTheWay(s, u)'
    OBVIOUS
  <2>1. OnTheWay(s, u)
    BY DEF QueueIs
  <2> QED  BY <1>2, <2>1 DEF Others, OnTheWay, NewPriority, list
<1>4. n = len'
  BY DEF list
<1> QED  BY <1>1, <1>3, <1>4, AfterStep

(* A chain, when there is one. *)
LEMMA ChainExists ==
    ASSUME IInv
    PROVE  /\ \E n \in Nat : \E s \in [1 .. n -> Addr] : n = len /\ QueueIs(s)
           /\ TypeOK /\ MutualExclusion /\ \A t \in Threads : CallOf(t)
  BY DEF IInv, TypeOK

(* Outside the queue, or in it and at an end of the call. *)
LEMMA CallStep ==
    ASSUME IInv, NEW t \in Threads, Calls(t)
    PROVE  IInv' /\ Queued' = Queued /\ Owned(t)' = Owned(t)
<1>1. PICK n \in Nat : \E s \in [1 .. n -> Addr] : n = len /\ QueueIs(s)
  BY ChainExists
<1>2. PICK s \in [1 .. n -> Addr] : n = len /\ QueueIs(s)
  BY <1>1
<1>3. /\ UNCHANGED <<list, mutex, tnode, newnode, result, sorted>> /\ pc[t] = "idle" /\ pc'[t] = "lock"
      /\ pc' \in [Threads -> Labels]
      /\ call' \in [Threads -> {"none", "add", "remove", "by_pid"}]
      /\ arg' \in [Threads -> Procs \cup {NULL}]
      /\ held' \in [Threads -> SUBSET Procs]
  <2>1. /\ UNCHANGED <<list, mutex, tnode, newnode, result, sorted>> /\ pc[t] = "idle" /\ pc'[t] = "lock"
        /\ pc' \in [Threads -> Labels]
    BY ChainExists DEF Calls, CallRemove, CallAdd, CallRemoveByPid, Goto, locals, TypeOK, Labels
  <2>2. \E c \in {"add", "remove", "by_pid"} : call' = [call EXCEPT ![t] = c]
    BY DEF Calls, CallRemove, CallAdd, CallRemoveByPid
  <2>3. arg' = arg \/ \E p \in Procs : arg' = [arg EXCEPT ![t] = p]
    BY DEF Calls, CallRemove, CallAdd, CallRemoveByPid
  <2>4. held' = held \/ \E p \in Procs : held' = [held EXCEPT ![t] = held[t] \ {p}]
    BY DEF Calls, CallRemove, CallAdd, CallRemoveByPid
  <2>5. call' \in [Threads -> {"none", "add", "remove", "by_pid"}]
    BY <2>2, ChainExists DEF TypeOK
  <2>6. arg' \in [Threads -> Procs \cup {NULL}]
    BY <2>3, ChainExists DEF TypeOK
  <2>7. held' \in [Threads -> SUBSET Procs]
    BY <2>4, ChainExists DEF TypeOK
  <2> QED  BY <2>1, <2>5, <2>6, <2>7
<1>4. TypeOK'
  BY <1>3, ChainExists DEF TypeOK, list
<1>5. Unlinked' = Unlinked
  BY <1>3, ChainExists, UnlinkedKept DEF Step
<1>6. OnTheWay(s, t)'
  BY <1>3 DEF OnTheWay
<1>7. IInv' /\ Queued' = Queued
  BY <1>2, <1>3, <1>4, <1>5, <1>6, ReadOnlyStep DEF Step
<1>8. Owned(t)' = Owned(t)
  <2>1. call[t] = "none" /\ pc[t] = "idle"
    BY <1>3, ChainExists DEF CallOf
  <2>2. /\ held' = held /\ call'[t] # "add"
        \/ \E p \in held[t] : held'[t] = held[t] \ {p} /\ call'[t] = "add" /\ arg'[t] = p
    BY ChainExists DEF Calls, CallRemove, CallAdd, CallRemoveByPid, TypeOK
  <2> QED  BY <1>3, <2>1, <2>2 DEF Owned
<1> QED  BY <1>7, <1>8

LEMMA LockStep ==
    ASSUME IInv, NEW t \in Threads, Lock(t)
    PROVE  IInv' /\ Queued' = Queued /\ Owned(t)' = Owned(t)
<1>1. PICK n \in Nat : \E s \in [1 .. n -> Addr] : n = len /\ QueueIs(s)
  BY ChainExists
<1>2. PICK s \in [1 .. n -> Addr] : n = len /\ QueueIs(s)
  BY <1>1
<1>3. /\ UNCHANGED <<list, call, arg, tnode, newnode, result, held, sorted>> /\ pc[t] = "lock" /\ pc'[t] = "enter"
      /\ mutex' = t /\ pc' \in [Threads -> Labels]
  BY ChainExists DEF Lock, Goto, locals, TypeOK, Labels
<1>4. TypeOK'
  BY <1>3, ChainExists DEF TypeOK, list
<1>5. Unlinked' = Unlinked
  BY <1>3, ChainExists, UnlinkedKept DEF Step
<1>6. OnTheWay(s, t)'
  BY <1>3 DEF OnTheWay
<1>7. IInv' /\ Queued' = Queued
  BY <1>2, <1>3, <1>4, <1>5, <1>6, ReadOnlyStep DEF Step
<1> QED  BY <1>3, <1>7 DEF Owned

LEMMA UnlockStep ==
    ASSUME IInv, NEW t \in Threads, Unlock(t)
    PROVE  IInv' /\ Queued' = Queued /\ Owned(t)' = Owned(t)
<1>1. PICK n \in Nat : \E s \in [1 .. n -> Addr] : n = len /\ QueueIs(s)
  BY ChainExists
<1>2. PICK s \in [1 .. n -> Addr] : n = len /\ QueueIs(s)
  BY <1>1
<1>3. /\ UNCHANGED <<list, sorted>> /\ pc[t] = "unlock" /\ pc'[t] = "idle" /\ mutex' = NULL
      /\ call'[t] = "none" /\ result'[t] = NULL
      /\ held'[t] = IF result[t] = NULL THEN held[t] ELSE held[t] \cup {result[t]}
  BY ChainExists DEF Unlock, Goto, TypeOK, Labels
<1>4. TypeOK'
  <2>1. /\ pc' \in [Threads -> Labels]
        /\ call' \in [Threads -> {"none", "add", "remove", "by_pid"}]
        /\ arg' \in [Threads -> Procs \cup {NULL}]
    BY ChainExists DEF Unlock, Goto, TypeOK, Labels
  <2>2. /\ tnode' \in [Threads -> Addr \cup {NULL}] /\ newnode' \in [Threads -> Addr \cup {NULL}]
        /\ result' \in [Threads -> Procs \cup {NULL}]
    BY ChainExists DEF Unlock, TypeOK
  <2>3. held' \in [Threads -> SUBSET Procs]
    BY ChainExists DEF Unlock, TypeOK
  <2> QED  BY <1>3, <2>1, <2>2, <2>3, ChainExists DEF TypeOK, list
<1>5. Unlinked' = Unlinked
  BY <1>3, ChainExists, UnlinkedKept DEF Step, Holding
<1>6. OnTheWay(s, t)'
  BY <1>3 DEF OnTheWay
<1>7. IInv' /\ Queued' = Queued
  BY <1>2, <1>3, <1>4, <1>5, <1>6, ReadOnlyStep DEF Step, Holding
<1>8. Owned(t)' = Owned(t)
  BY <1>3 DEF Owned
<1> QED  BY <1>7, <1>8

LEMMA NothingFoundStep ==
    ASSUME IInv, NEW t \in Threads, NothingFound(t)
    PROVE  IInv' /\ Queued' = Queued /\ Owned(t)' = Owned(t)
<1>1. PICK n \in Nat : \E s \in [1 .. n -> Addr] : n = len /\ QueueIs(s)
  BY ChainExists
<1>2. PICK s \in [1 .. n -> Addr] : n = len /\ QueueIs(s)
  BY <1>1
<1>3. /\ UNCHANGED <<mutex, list, call, arg, tnode, newnode, result, held, sorted>>
      /\ pc[t] \in {"enter", "traverse"} /\ pc'[t] = "unlock" /\ call[t] # "add"
      /\ pc' \in [Threads -> Labels]
  BY ChainExists DEF NothingFound, Goto, locals, TypeOK, Labels, Entering
<1>4. TypeOK'
  BY <1>3, ChainExists DEF TypeOK, list
<1>5. Unlinked' = Unlinked
  BY <1>3, ChainExists, UnlinkedKept DEF Step, Holding, Removes
<1>6. OnTheWay(s, t)'
  BY <1>3 DEF OnTheWay
<1>7. IInv' /\ Queued' = Queued
  BY <1>2, <1>3, <1>4, <1>5, <1>6, ReadOnlyStep DEF Step, Holding, Removes
<1> QED  BY <1>3, <1>7 DEF Owned

(* One turn of a traversal.                                                *)
LEMMA TraverseOnStep ==
    ASSUME IInv, NEW t \in Threads, TraverseOn(t)
    PROVE  IInv' /\ Queued' = Queued /\ Owned(t)' = Owned(t)
<1>1. PICK n \in Nat : \E s \in [1 .. n -> Addr] : n = len /\ QueueIs(s)
  BY ChainExists
<1>2. PICK s \in [1 .. n -> Addr] : n = len /\ QueueIs(s)
  BY <1>1
<1>3. /\ UNCHANGED <<mutex, list, call, arg, newnode, result, held, sorted>>
      /\ pc[t] = "traverse" /\ pc'[t] = "traverse" /\ call[t] = "add" /\ GoesOn(t)
      /\ pc' \in [Threads -> Labels]
      /\ tnode' = [tnode EXCEPT ![t] = next[tnode[t]]]
  BY ChainExists DEF TraverseOn, Goto, TypeOK, Labels
<1>4. PICK k \in 1 .. n :
        /\ tnode[t] = s[k]
        /\ newnode[t] \in Addr /\ next[newnode[t]] = NULL
        /\ data[newnode[t]] = arg[t] /\ priority[newnode[t]] = NewPriority(t)
        /\ sorted => \A j \in 1 .. k : priority[s[j]] <= NewPriority(t)
  BY <1>2, <1>3 DEF QueueIs, OnTheWay
<1>5. k + 1 \in 1 .. n /\ next[tnode[t]] = s[k + 1]
  <2>1. Linked(s, n, front, rear, next)
    BY <1>2, ChainIsLinked
  <2>2. k # n
    BY <1>3, <1>4, <2>1 DEF GoesOn, Linked
  <2> QED  BY <1>4, <2>1, <2>2 DEF Linked
<1>6. tnode'[t] = s[k + 1]
  BY <1>3, <1>5, ChainExists DEF TypeOK
<1>7. TypeOK'
  <2>1. tnode' \in [Threads -> Addr \cup {NULL}]
    BY <1>3, <1>5, ChainExists DEF TypeOK
  <2> QED  BY <1>3, <2>1, ChainExists DEF TypeOK, list
<1>8. Unlinked' = Unlinked
  BY <1>3, ChainExists, UnlinkedKept DEF Step, Holding, Adds
<1>9. OnTheWay(s, t)'
  <2>1. NewPriority(t)' = NewPriority(t)
    BY <1>3 DEF NewPriority
  <2>2. sorted => \A j \in 1 .. k + 1 : priority[s[j]] <= NewPriority(t)
    BY <1>3, <1>4, <1>5 DEF GoesOn
  <2> QED  BY <1>2, <1>3, <1>4, <1>5, <1>6, <2>1, <2>2 DEF OnTheWay, list
<1>10. IInv' /\ Queued' = Queued
  BY <1>2, <1>3, <1>7, <1>8, <1>9, ReadOnlyStep DEF Step, Holding, Adds
<1> QED  BY <1>3, <1>10 DEF Owned

LEMMA ByPidTraverseStep ==
    ASSUME IInv, NEW t \in Threads, ByPidTraverse(t) \/ ByPidTraverseOn(t)
    PROVE  IInv' /\ Queued' = Queued /\ Owned(t)' = Owned(t)
<1>1. PICK n \in Nat : \E s \in [1 .. n -> Addr] : n = len /\ QueueIs(s)
  BY ChainExists
<1>2. PICK s \in [1 .. n -> Addr] : n = len /\ QueueIs(s)
  BY <1>1
<1>3. /\ UNCHANGED <<mutex, list, call, arg, newnode, result, held, sorted>>
      /\ pc'[t] = "traverse" /\ call[t] = "by_pid"
      /\ pc' \in [Threads -> Labels]
  BY ChainExists DEF ByPidTraverse, ByPidTraverseOn, Goto, Entering, TypeOK, Labels
<1>4. Linked(s, n, front, rear, next)
  BY <1>2, ChainIsLinked
<1>5. data[rear] # arg[t] /\ \E k \in 1 .. n : tnode' = [tnode EXCEPT ![t] = s[k]]
  <2>1. CASE ByPidTraverse(t)
    <3>1. n # 0 /\ data[rear] # arg[t] /\ tnode' = [tnode EXCEPT ![t] = front]
      BY <1>2, <2>1 DEF ByPidTraverse
    <3>2. front = s[1] /\ 1 \in 1 .. n
      BY <1>4, <3>1 DEF Linked
    <3> QED  BY <3>1, <3>2
  <2>2. CASE ByPidTraverseOn(t)
    <3>1. pc[t] = "traverse" /\ next[tnode[t]] # NULL /\ tnode' = [tnode EXCEPT ![t] = next[tnode[t]]]
      BY <2>2 DEF ByPidTraverseOn, Goto
    <3>2. PICK k \in 1 .. n : tnode[t] = s[k] /\ data[rear] # arg[t]
      BY <1>2, <1>3, <3>1 DEF QueueIs, OnTheWay
    <3>3. k # n
      BY <1>4, <3>1, <3>2 DEF Linked
    <3>4. k + 1 \in 1 .. n /\ next[tnode[t]] = s[k + 1]
      BY <1>4, <3>2, <3>3 DEF Linked
    <3> QED  BY <3>1, <3>2, <3>4
  <2> QED  BY <2>1, <2>2
<1>6. PICK k \in 1 .. n : tnode' = [tnode EXCEPT ![t] = s[k]]
  BY <1>5
<1>7. TypeOK' /\ tnode'[t] = s[k]
  <2>1. tnode' \in [Threads -> Addr \cup {NULL}] /\ tnode'[t] = s[k]
    BY <1>6, ChainExists DEF TypeOK
  <2> QED  BY <1>3, <2>1, ChainExists DEF TypeOK, list
<1>8. Step(t)
  BY DEF Step, Holding, Removes
<1>9. Unlinked' = Unlinked
  BY <1>3, <1>8, ChainExists, UnlinkedKept
<1>10. OnTheWay(s, t)'
  BY <1>2, <1>3, <1>5, <1>7 DEF OnTheWay, list
<1>11. IInv' /\ Queued' = Queued
  BY <1>2, <1>3, <1>7, <1>8, <1>9, <1>10, ReadOnlyStep
<1>12. Owned(t)' = Owned(t)
  BY <1>3 DEF Owned
<1> QED  BY <1>11, <1>12
-----------------------------------------------------------------------------
(***************************************************************************)
(* Filing a process: the step that links its node puts it on the queue.    *)
(***************************************************************************)
Puts(t) ==
    /\ arg[t] \in Procs /\ arg[t] \in Owned(t)
    /\ Owned(t)' = Owned(t) \ {arg[t]}
    /\ Queued' = IF sorted THEN p_enqueue(Queued, arg[t], PriorityOf[arg[t]])
                           ELSE enqueue(Queued, arg[t])

LEMMA OwnedAfterAdd ==
    ASSUME NEW t \in Threads, CallOf(t), call[t] = "add", pc[t] \in {"enter", "traverse"},
           pc'[t] = "unlock", UNCHANGED <<call, arg, held, result>>
    PROVE  arg[t] \in Owned(t) /\ Owned(t)' = Owned(t) \ {arg[t]}
  BY DEF CallOf, Owned

LEMMA NewPriorityFacts ==
    ASSUME NEW t \in Threads, arg[t] \in Procs
    PROVE  NewPriority(t) \in Int /\ NewPriority(t) = IF sorted THEN PriorityOf[arg[t]] ELSE 0
  BY PriorityAssumption DEF NewPriority

(* Behind the nodes it may not pass and in front of the others. *)
LEMMA PutsWhere ==
    ASSUME NEW n \in Nat, n = len, NEW s \in [1 .. n -> Addr], QueueIs(s),
           NEW t \in Threads, arg[t] \in Procs, NEW k \in 1 .. n + 1,
           ~ sorted => k = n + 1,
           sorted => /\ \A i \in 1 .. n : i < k => priority[s[i]] <= NewPriority(t)
                     /\ k <= n => priority[s[k]] > NewPriority(t)
    PROVE  InsertAt(Queued, k, node(arg[t], NewPriority(t))) =
             IF sorted THEN p_enqueue(Queued, arg[t], PriorityOf[arg[t]]) ELSE enqueue(Queued, arg[t])
<1>1. PICK q : q = Queued
  OBVIOUS
<1>2. PICK x \in Procs : x = arg[t]
  OBVIOUS
<1>3. PICK y \in Int : y = NewPriority(t)
  BY NewPriorityFacts
<1>4. Carrying(Procs, n, s, data, priority) /\ q = Nodes(s, n, data, priority)
  BY <1>1, ChainIsLinked
<1>5. /\ q \in Seq(NodeOf(Procs)) /\ Len(q) = n
      /\ \A i \in 1 .. n : q[i].priority = priority[s[i]]
  BY <1>4, NodesSequence
<1>6. CASE sorted
  <2>1. /\ \A i \in 1 .. Len(q) : i < k => q[i].priority <= y
        /\ k <= Len(q) => q[k].priority > y
    BY <1>3, <1>5, <1>6
  <2>2. p_enqueue(q, x, y) = InsertAt(q, k, node(x, y))
    BY <1>5, <2>1, PEnqueueInsertsBeforeLarger
  <2>3. y = PriorityOf[arg[t]]
    BY <1>3, <1>6, NewPriorityFacts
  <2> QED  BY <1>1, <1>2, <1>3, <1>6, <2>2, <2>3
<1>7. CASE ~ sorted
  <2>1. y = 0 /\ k = Len(q) + 1
    BY <1>3, <1>5, <1>7, NewPriorityFacts
  <2>2. enqueue(q, x) = InsertAt(q, Len(q) + 1, node(x, 0))
    BY <1>5, EnqueueInsertsLast
  <2> QED  BY <1>1, <1>2, <1>3, <1>7, <2>1, <2>2
<1> QED  BY <1>6, <1>7

(* Who is in the queue and not traversing it has no new node. *)
LEMMA NobodyTraverses ==
    ASSUME MutualExclusion, NEW t \in Threads, pc[t] \in Critical, pc[t] # "traverse"
    PROVE  Unlinked = {} /\ \A u \in Threads : pc[u] # "traverse"
<1>1. \A u \in Threads : pc[u] # "traverse"
  BY Alone DEF Critical
<1> QED  BY <1>1 DEF Unlinked

LEMMA NobodyTraversesNext ==
    ASSUME MutualExclusion', NEW t \in Threads, pc'[t] \in Critical, pc'[t] # "traverse"
    PROVE  Unlinked' = {} /\ \A z : \A u \in Threads : OnTheWay(z, u)'
<1>1. \A u \in Threads : pc'[u] # "traverse"
  BY DEF MutualExclusion, Critical
<1> QED  BY <1>1 DEF Unlinked, OnTheWay

(* The end of a step that leads out of the queue. *)
LEMMA LastStep ==
    ASSUME IInv, NEW t \in Threads, Step(t), pc'[t] = "unlock", TypeOK',
           \E m \in Nat : \E z \in [1 .. m -> Addr] :
             m = len' /\ Chain(z)' /\ Carrying(Procs, len, z, data, priority)'
    PROVE  IInv'
<1>1. PICK m \in Nat : \E z \in [1 .. m -> Addr] :
        m = len' /\ Chain(z)' /\ Carrying(Procs, len, z, data, priority)'
  OBVIOUS
<1>2. PICK z \in [1 .. m -> Addr] :
        m = len' /\ Chain(z)' /\ Carrying(Procs, len, z, data, priority)'
  BY <1>1
<1>3. MutualExclusion'
  BY ChainExists, MutexKept
<1>4. \A u \in Threads : OnTheWay(z, u)'
  BY <1>3, NobodyTraversesNext DEF Critical
<1> QED  BY <1>2, <1>4, AfterStep

(* In front of the first node, which is every place of an empty queue.     *)
LEMMA EnqueueFrontStep ==
    ASSUME IInv, NEW t \in Threads, NEW a \in Addr, EnqueueFirst(t, a) \/ EnqueueFront(t, a)
    PROVE  IInv' /\ Puts(t)
<1>1. PICK n \in Nat : \E s \in [1 .. n -> Addr] : n = len /\ QueueIs(s)
  BY ChainExists
<1>2. PICK s \in [1 .. n -> Addr] : n = len /\ QueueIs(s)
  BY <1>1
<1>3. /\ UNCHANGED <<mutex, call, arg, tnode, newnode, result, held, sorted>>
      /\ pc[t] = "enter" /\ call[t] = "add" /\ pc'[t] = "unlock" /\ pc' \in [Threads -> Labels]
      /\ front' = a /\ len' = n + 1
  BY <1>2, ChainExists DEF EnqueueFirst, EnqueueFront, Entering, Goto, locals, TypeOK, Labels
<1>4. arg[t] \in Procs /\ NewPriority(t) \in Int /\ CallOf(t)
  BY <1>3, ChainExists, NewPriorityFacts DEF CallOf
<1>5. /\ Linked(s, n, front, rear, next) /\ Unlinked = {} /\ allocated = Range(s)
      /\ Carrying(Procs, n, s, data, priority)
  BY <1>2, <1>3, ChainExists, ChainIsLinked, NobodyTraverses DEF Critical
<1>6. /\ a \notin allocated /\ allocated' = allocated \cup {a}
      /\ data' = [data EXCEPT ![a] = arg[t]]
      /\ priority' = [priority EXCEPT ![a] = NewPriority(t)]
      /\ next' = [next EXCEPT ![a] = front]
      /\ rear' = IF n = 0 THEN a ELSE rear
      /\ n > 0 => sorted /\ priority[s[1]] > NewPriority(t)
  <2>1. \A i \in 1 .. n : s[i] # NULL
    BY AddrAssumption
  <2>2. LooksEmpty <=> n = 0
    BY <1>2, <1>5, <2>1 DEF LooksEmpty, Linked
  <2>3. CASE EnqueueFirst(t, a)
    BY <1>5, <2>2, <2>3 DEF EnqueueFirst, Allocate, Linked
  <2>4. CASE EnqueueFront(t, a)
    BY <1>5, <2>2, <2>4 DEF EnqueueFront, Allocate, GoesToFront, Linked
  <2> QED  BY <2>3, <2>4
<1>7. TypeOK'
  <2>1. data' \in [Addr -> Procs \cup {NULL}]
    BY <1>4, <1>6, ChainExists DEF TypeOK
  <2>2. priority' \in [Addr -> Int]
    BY <1>4, <1>6, ChainExists DEF TypeOK
  <2>3. next' \in [Addr -> Addr \cup {NULL}]
    BY <1>6, ChainExists DEF TypeOK
  <2>4. len' \in Nat /\ front' \in Addr \cup {NULL} /\ rear' \in Addr \cup {NULL} /\ allocated' \subseteq Addr
    BY <1>3, <1>6, ChainExists DEF TypeOK
  <2> QED  BY <1>3, <2>1, <2>2, <2>3, <2>4, ChainExists DEF TypeOK
<1>8. Step(t)
  BY DEF Step, Holding, Adds
<1>9. MutualExclusion' /\ Unlinked' = {}
  BY <1>3, <1>8, ChainExists, MutexKept, NobodyTraversesNext DEF Critical
<1>10. \A i \in 1 .. n : s[i] # a
  BY <1>5, <1>6 DEF Range
<1>11. PICK x \in Procs : x = arg[t]
  BY <1>4
<1>12. PICK y \in Int : y = NewPriority(t)
  BY <1>4
<1>13. data'[a] = x /\ priority'[a] = y /\ next'[a] = front
  BY <1>6, <1>11, <1>12, ChainExists DEF TypeOK
<1>14. \A i \in 1 .. n : /\ data'[s[i]] = data[s[i]] /\ priority'[s[i]] = priority[s[i]]
                         /\ next'[s[i]] = next[s[i]]
  BY <1>6, <1>10, ChainExists DEF TypeOK
<1>15. 1 \in 1 .. n + 1 /\ (rear' = IF 1 = n + 1 THEN a ELSE rear)
  BY <1>6
<1>16. LinksIn(n, s, 1, a, x, y)
  BY <1>3, <1>5, <1>6, <1>9, <1>10, <1>13, <1>14, <1>15 DEF LinksIn
<1>17. PICK m \in Nat : \E z \in [1 .. m -> Addr] :
         /\ m = len' /\ Chain(z)' /\ Carrying(Procs, len, z, data, priority)'
         /\ Queued' = InsertAt(Queued, 1, node(x, y))
  BY <1>2, <1>15, <1>16, ChainGrows
<1>18. IInv'
  BY <1>3, <1>7, <1>8, <1>17, LastStep
<1>19. Queued' = IF sorted THEN p_enqueue(Queued, arg[t], PriorityOf[arg[t]]) ELSE enqueue(Queued, arg[t])
  <2>1. /\ ~ sorted => 1 = n + 1
        /\ sorted => /\ \A i \in 1 .. n : i < 1 => priority[s[i]] <= NewPriority(t)
                     /\ 1 <= n => priority[s[1]] > NewPriority(t)
    BY <1>6
  <2>2. InsertAt(Queued, 1, node(arg[t], NewPriority(t))) =
          IF sorted THEN p_enqueue(Queued, arg[t], PriorityOf[arg[t]]) ELSE enqueue(Queued, arg[t])
    BY <1>2, <1>4, <1>15, <2>1, PutsWhere
  <2> QED  BY <1>11, <1>12, <1>17, <2>2
<1> QED  BY <1>3, <1>4, <1>18, <1>19, OwnedAfterAdd DEF Puts

(* The new node is ready, and no link leads to it yet.                     *)
LEMMA EnqueueTraverseStep ==
    ASSUME IInv, NEW t \in Threads, NEW a \in Addr, EnqueueTraverse(t, a)
    PROVE  IInv' /\ Queued' = Queued /\ Owned(t)' = Owned(t)
<1>1. PICK n \in Nat : \E s \in [1 .. n -> Addr] : n = len /\ QueueIs(s)
  BY ChainExists
<1>2. PICK s \in [1 .. n -> Addr] : n = len /\ QueueIs(s)
  BY <1>1
<1>3. /\ UNCHANGED <<mutex, front, rear, len, call, arg, result, held, sorted>>
      /\ pc[t] = "enter" /\ call[t] = "add" /\ pc'[t] = "traverse" /\ pc' \in [Threads -> Labels]
      /\ newnode'[t] = a /\ newnode' \in [Threads -> Addr \cup {NULL}]
      /\ tnode'[t] = front /\ tnode' \in [Threads -> Addr \cup {NULL}]
      /\ ~ LooksEmpty /\ ~ GoesToFront(t)
  BY ChainExists DEF EnqueueTraverse, Entering, Goto, TypeOK, Labels
<1>4. arg[t] \in Procs /\ NewPriority(t) \in Int
  BY <1>3, ChainExists, NewPriorityFacts DEF CallOf
<1>5. /\ Linked(s, n, front, rear, next) /\ Unlinked = {} /\ allocated = Range(s)
      /\ Carrying(Procs, n, s, data, priority) /\ Queued = Nodes(s, n, data, priority)
  BY <1>2, <1>3, ChainExists, ChainIsLinked, NobodyTraverses DEF Critical
<1>6. /\ a \notin allocated /\ allocated' = allocated \cup {a}
      /\ data' = [data EXCEPT ![a] = arg[t]]
      /\ priority' = [priority EXCEPT ![a] = NewPriority(t)]
      /\ next' = [next EXCEPT ![a] = NULL]
  BY DEF EnqueueTraverse, Allocate
<1>7. TypeOK'
  <2>1. data' \in [Addr -> Procs \cup {NULL}]
    BY <1>4, <1>6, ChainExists DEF TypeOK
  <2>2. priority' \in [Addr -> Int]
    BY <1>4, <1>6, ChainExists DEF TypeOK
  <2>3. next' \in [Addr -> Addr \cup {NULL}]
    BY <1>6, ChainExists DEF TypeOK
  <2>4. allocated' \subseteq Addr
    BY <1>6, ChainExists DEF TypeOK
  <2> QED  BY <1>3, <2>1, <2>2, <2>3, <2>4, ChainExists DEF TypeOK
<1>8. Step(t)
  BY DEF Step, Holding, Adds
<1>9. \A u \in Threads : pc'[u] = "traverse" => u = t
  <2>1. MutualExclusion'
    BY <1>8, ChainExists, MutexKept
  <2> QED  BY <1>3, <2>1 DEF MutualExclusion, Critical
<1>10. Unlinked' = {a}
  BY <1>3, <1>9 DEF Unlinked
<1>11. \A i \in 1 .. n : s[i] # a
  BY <1>5, <1>6 DEF Range
<1>12. \A i \in 1 .. n : /\ data'[s[i]] = data[s[i]] /\ priority'[s[i]] = priority[s[i]]
                         /\ next'[s[i]] = next[s[i]]
  BY <1>6, <1>11, ChainExists DEF TypeOK
<1>13. Linked(s, n, front', rear', next')
  BY <1>3, <1>5, <1>12 DEF Linked
<1>14. Chain(s)'
  <2>1. Range(s) = {s[i] : i \in 1 .. n}
    BY DEF Range
  <2> QED  BY <1>2, <1>3, <1>5, <1>6, <1>10, <1>11, <1>13, <2>1 DEF Chain, Linked
<1>15. Carrying(Procs, len, s, data, priority)'
  BY <1>2, <1>3, <1>5, <1>12 DEF Carrying
<1>16. Queued' = Queued
  <2>1. Queued' = Nodes(s, n, data', priority')
    BY <1>2, <1>3, <1>13, QueuedIsChainNext
  <2> QED  BY <1>5, <1>12, <2>1 DEF Nodes
<1>17. 1 \in 1 .. n /\ front = s[1]
  <2>1. n # 0
    BY <1>2, <1>3, <1>5 DEF LooksEmpty, Linked
  <2> QED  BY <1>5, <2>1 DEF Linked
<1>18. OnTheWay(s, t)'
  <2>1. next'[a] = NULL /\ data'[a] = arg[t] /\ priority'[a] = NewPriority(t)
    BY <1>6, ChainExists DEF TypeOK
  <2>2. NewPriority(t)' = NewPriority(t)
    BY <1>3 DEF NewPriority
  <2>3. sorted => priority'[s[1]] <= NewPriority(t)
    BY <1>3, <1>4, <1>5, <1>12, <1>17 DEF GoesToFront, Carrying
  <2>4. sorted' => \A j \in 1 .. 1 : priority'[s[j]] <= NewPriority(t)'
    BY <1>3, <2>2, <2>3
  <2> QED  BY <1>2, <1>3, <1>17, <2>1, <2>2, <2>4 DEF OnTheWay
<1>19. IInv'
  BY <1>2, <1>3, <1>7, <1>8, <1>9, <1>14, <1>15, <1>18, AfterStep DEF OnTheWay
<1> QED  BY <1>3, <1>16, <1>19 DEF Owned

LEMMA LinkStep ==
    ASSUME IInv, NEW t \in Threads, Link(t)
    PROVE  IInv' /\ Puts(t)
<1>1. PICK n \in Nat : \E s \in [1 .. n -> Addr] : n = len /\ QueueIs(s)
  BY ChainExists
<1>2. PICK s \in [1 .. n -> Addr] : n = len /\ QueueIs(s)
  BY <1>1
<1>3. /\ UNCHANGED <<mutex, front, data, priority, allocated, call, arg, tnode, newnode, result, held, sorted>>
      /\ pc[t] = "traverse" /\ call[t] = "add" /\ pc'[t] = "unlock" /\ pc' \in [Threads -> Labels]
      /\ len' = n + 1 /\ ~ GoesOn(t)
  BY <1>2, ChainExists DEF Link, Goto, locals, TypeOK, Labels
<1>4. arg[t] \in Procs /\ NewPriority(t) \in Int /\ CallOf(t)
  BY <1>3, ChainExists, NewPriorityFacts DEF CallOf
<1>5. PICK l \in 1 .. n :
        /\ tnode[t] = s[l]
        /\ newnode[t] \in Addr /\ next[newnode[t]] = NULL
        /\ data[newnode[t]] = arg[t] /\ priority[newnode[t]] = NewPriority(t)
        /\ sorted => \A j \in 1 .. l : priority[s[j]] <= NewPriority(t)
  BY <1>2, <1>3 DEF QueueIs, OnTheWay
<1>6. PICK a \in Addr : a = newnode[t]
  BY <1>5
<1>7. Unlinked = {a}
  BY <1>3, <1>6, ChainExists, Alone DEF Unlinked, Critical
<1>8. /\ Linked(s, n, front, rear, next) /\ allocated = Range(s) \cup {a}
      /\ Carrying(Procs, n, s, data, priority) /\ \A i \in 1 .. n : s[i] # a
  BY <1>2, <1>7, ChainIsLinked
<1>9. (tnode[t] = rear <=> l = n) /\ (next[s[l]] = NULL <=> l = n)
  <2>1. rear = s[n] /\ next[s[n]] = NULL /\ n \in 1 .. n
    BY <1>8 DEF Linked
  <2>2. l # n => next[s[l]] = s[l + 1] /\ l + 1 \in 1 .. n
    BY <1>8 DEF Linked
  <2>3. \A i \in 1 .. n : s[i] # NULL
    BY AddrAssumption
  <2>4. s[l] = s[n] => l = n
    BY <1>8, <2>1 DEF Linked
  <2> QED  BY <1>5, <2>1, <2>2, <2>3, <2>4
<1>10. /\ ~ sorted => l = n
       /\ l < n => sorted /\ l + 1 \in 1 .. n /\ priority[s[l + 1]] > NewPriority(t)
  <2>1. l < n => l + 1 \in 1 .. n /\ next[s[l]] = s[l + 1] /\ priority[s[l + 1]] \in Int
    BY <1>8 DEF Linked, Carrying
  <2>2. ~ sorted => next[s[l]] = NULL
    BY <1>3, <1>5 DEF GoesOn
  <2>3. l < n => sorted /\ ~ (priority[s[l + 1]] <= NewPriority(t))
    BY <1>3, <1>5, <1>9, <2>1 DEF GoesOn
  <2> QED  BY <1>4, <1>9, <2>1, <2>2, <2>3
<1>11. /\ next' = [next EXCEPT ![s[l]] = a, ![a] = next[s[l]]]
       /\ rear' = IF l = n THEN a ELSE rear
  <2>1. CASE l < n
    BY <1>5, <1>6, <1>9, <1>10, <2>1 DEF Link
  <2>2. CASE l = n
    <3>1. next' = [next EXCEPT ![s[l]] = a] /\ rear' = a
      BY <1>5, <1>6, <1>9, <2>2 DEF Link
    <3>2. next[s[l]] = next[a] /\ s[l] # a
      BY <1>5, <1>6, <1>8, <1>9, <2>2
    <3>3. [next EXCEPT ![s[l]] = a] = [next EXCEPT ![s[l]] = a, ![a] = next[s[l]]]
      BY <3>2, ChainExists DEF TypeOK
    <3> QED  BY <2>2, <3>1, <3>3
  <2> QED  BY <2>1, <2>2
<1>12. TypeOK'
  <2>1. next' \in [Addr -> Addr \cup {NULL}]
    BY <1>11, ChainExists DEF TypeOK
  <2>2. len' \in Nat /\ rear' \in Addr \cup {NULL}
    BY <1>3, <1>11, ChainExists DEF TypeOK
  <2> QED  BY <1>3, <2>1, <2>2, ChainExists DEF TypeOK
<1>13. Step(t)
  BY DEF Step, Holding, Adds
<1>14. Unlinked' = {}
  BY <1>3, <1>13, ChainExists, MutexKept, NobodyTraversesNext DEF Critical
<1>15. PICK x \in Procs : x = arg[t]
  BY <1>4
<1>16. PICK y \in Int : y = NewPriority(t)
  BY <1>4
<1>17. PICK k \in 1 .. n + 1 : k = l + 1
  OBVIOUS
<1>18. /\ next'[s[k - 1]] = a /\ next'[a] = next[s[k - 1]]
       /\ \A i \in 1 .. n : i # k - 1 => next'[s[i]] = next[s[i]]
  <2>1. k - 1 = l /\ k - 1 \in 1 .. n
    BY <1>17
  <2>2. \A i \in 1 .. n : s[i] # a /\ (i # l => s[i] # s[l])
    BY <1>8 DEF Linked
  <2> QED  BY <1>11, <2>1, <2>2, ChainExists DEF TypeOK
<1>19. LinksIn(n, s, k, a, x, y)
  <2>1. data'[a] = x /\ priority'[a] = y
    BY <1>3, <1>5, <1>6, <1>15, <1>16
  <2>2. k > 1 /\ k # 1 /\ (k = n + 1 <=> l = n)
    BY <1>17
  <2> QED  BY <1>3, <1>8, <1>11, <1>14, <1>18, <2>1, <2>2 DEF LinksIn
<1>20. PICK m \in Nat : \E z \in [1 .. m -> Addr] :
         /\ m = len' /\ Chain(z)' /\ Carrying(Procs, len, z, data, priority)'
         /\ Queued' = InsertAt(Queued, k, node(x, y))
  BY <1>2, <1>19, ChainGrows
<1>21. IInv'
  BY <1>3, <1>12, <1>13, <1>20, LastStep
<1>22. Queued' = IF sorted THEN p_enqueue(Queued, arg[t], PriorityOf[arg[t]]) ELSE enqueue(Queued, arg[t])
  <2>1. ~ sorted => k = n + 1
    BY <1>10, <1>17
  <2>2. sorted => /\ \A i \in 1 .. n : i < k => priority[s[i]] <= NewPriority(t)
                  /\ k <= n => priority[s[k]] > NewPriority(t)
    BY <1>5, <1>10, <1>17
  <2>3. InsertAt(Queued, k, node(arg[t], NewPriority(t))) =
          IF sorted THEN p_enqueue(Queued, arg[t], PriorityOf[arg[t]]) ELSE enqueue(Queued, arg[t])
    BY <1>2, <1>4, <2>1, <2>2, PutsWhere
  <2> QED  BY <1>15, <1>16, <1>20, <2>3
<1> QED  BY <1>3, <1>4, <1>21, <1>22, OwnedAfterAdd DEF Puts
-----------------------------------------------------------------------------
(***************************************************************************)
(* Taking a process off.                                                   *)
(***************************************************************************)
Takes(t) ==
    /\ ~ isEmpty(Queued)
    /\ Owned(t)' = Owned(t) \cup {dequeued(Queued)}
    /\ Queued' = dequeue(Queued)

TakesByPid(t, pid) ==
    \E k \in 1 .. Len(Queued) :
        /\ Queued[k].data = pid
        /\ IF k = Len(Queued) /\ k > 1
           THEN Takes(t)
           ELSE Owned(t)' = Owned(t) \cup {pid} /\ Queued' = RemoveAt(Queued, k)

(* The node at position k is freed; if it is the last one, it is alone.    *)
FreesAt(n, s, k, t) ==
    /\ k = 1 \/ k < n
    /\ Free(t, s[k])
    /\ next' = IF k = 1 THEN [next EXCEPT ![s[1]] = NULL]
                        ELSE [next EXCEPT ![s[k - 1]] = next[s[k]], ![s[k]] = NULL]
    /\ front' = IF k = 1 THEN next[front] ELSE front
    /\ rear' = IF n = 1 THEN NULL ELSE rear

LEMMA RemovalStep ==
    ASSUME IInv, NEW n \in Nat, n = len, NEW s \in [1 .. n -> Addr], QueueIs(s),
           NEW t \in Threads, Step(t), pc[t] \in {"enter", "traverse"}, call[t] # "add", pc'[t] = "unlock",
           UNCHANGED <<mutex, call, arg, tnode, newnode, held, sorted>>, pc' \in [Threads -> Labels],
           NEW k \in 1 .. n, FreesAt(n, s, k, t)
    PROVE  /\ IInv' /\ Queued' = RemoveAt(Queued, k)
           /\ Owned(t)' = Owned(t) \cup {data[s[k]]}
           /\ Queued \in Seq(NodeOf(Procs)) /\ Len(Queued) = n
           /\ \A i \in 1 .. n : Queued[i].data = data[s[i]]
<1>1. Unlinked = {}
  BY ChainExists, Alone DEF Unlinked, Critical
<1>2. /\ Linked(s, n, front, rear, next) /\ allocated = Range(s)
      /\ Carrying(Procs, n, s, data, priority) /\ Queued = Nodes(s, n, data, priority)
  BY <1>1, ChainIsLinked
<1>3. PICK b \in Addr : b = s[k]
  OBVIOUS
<1>4. /\ result' = [result EXCEPT ![t] = data[b]] /\ allocated' = allocated \ {b}
      /\ data' = [data EXCEPT ![b] = NULL] /\ priority' = [priority EXCEPT ![b] = 0] /\ len' = n - 1
  BY <1>3 DEF FreesAt, Free
<1>5. data[b] \in Procs /\ data[b] # NULL
  <2>1. data[b] \in Procs
    BY <1>2, <1>3 DEF Carrying
  <2> QED  BY <2>1, ProcAssumption DEF NULL
<1>6. front = s[1] /\ front \in Addr /\ (k > 1 => k - 1 \in 1 .. n)
  BY <1>2 DEF Linked
<1>7. TypeOK'
  <2>1. data' \in [Addr -> Procs \cup {NULL}] /\ priority' \in [Addr -> Int]
    BY <1>4, ChainExists DEF TypeOK
  <2>2. next' \in [Addr -> Addr \cup {NULL}]
    BY ChainExists DEF TypeOK, FreesAt
  <2>3. result' \in [Threads -> Procs \cup {NULL}] /\ allocated' \subseteq Addr /\ len' \in Nat
    BY <1>4, <1>5, ChainExists DEF TypeOK
  <2>4. front' \in Addr \cup {NULL} /\ rear' \in Addr \cup {NULL}
    BY <1>6, ChainExists DEF TypeOK, FreesAt
  <2> QED  BY <2>1, <2>2, <2>3, <2>4, ChainExists DEF TypeOK
<1>8. Unlinked' = {}
  BY ChainExists, MutexKept, NobodyTraversesNext DEF Critical
<1>9. \A i, j \in 1 .. n : s[i] = s[j] => i = j
  BY <1>2 DEF Linked
<1>10. \A i \in 1 .. n : i # k => data'[s[i]] = data[s[i]] /\ priority'[s[i]] = priority[s[i]]
  BY <1>3, <1>4, <1>9, ChainExists DEF TypeOK
<1>11. /\ \A i \in 1 .. n : i # k /\ i # k - 1 => next'[s[i]] = next[s[i]]
       /\ k > 1 => next'[s[k - 1]] = next[s[k]]
  <2>1. CASE k = 1
    BY <1>9, <2>1, ChainExists DEF TypeOK, FreesAt
  <2>2. CASE k > 1
    <3>1. next' = [next EXCEPT ![s[k - 1]] = next[s[k]], ![s[k]] = NULL] /\ s[k - 1] # s[k]
      BY <1>6, <1>9, <2>2 DEF FreesAt
    <3> QED  BY <1>6, <1>9, <2>2, <3>1, ChainExists DEF TypeOK
  <2> QED  BY <2>1, <2>2
<1>12. LinksOut(n, s, k)
  <2>1. /\ k = 1 \/ k < n
        /\ k = 1 => front' = next[front]
        /\ k > 1 => front' = front
        /\ rear' = IF n = 1 THEN NULL ELSE rear
    BY DEF FreesAt
  <2>2. allocated' = allocated \ {s[k]}
    BY <1>3, <1>4
  <2>3. len' = n - 1
    BY <1>4
  <2> QED  BY <1>1, <1>8, <1>10, <1>11, <2>1, <2>2, <2>3 DEF LinksOut
<1>13. PICK m \in Nat : \E z \in [1 .. m -> Addr] :
         /\ m = len' /\ Chain(z)' /\ Carrying(Procs, len, z, data, priority)'
         /\ Queued' = RemoveAt(Queued, k)
  BY <1>12, ChainShrinks
<1>14. IInv'
  BY <1>7, <1>13, LastStep
<1>15. Owned(t)' = Owned(t) \cup {data[b]}
  <2>1. result[t] = NULL /\ result'[t] = data[b]
    BY <1>4, ChainExists DEF CallOf, TypeOK
  <2> QED  BY <1>5, <2>1 DEF Owned
<1>16. /\ Queued \in Seq(NodeOf(Procs)) /\ Len(Queued) = n
       /\ \A i \in 1 .. n : Queued[i].data = data[s[i]]
  BY <1>2, NodesSequence
<1> QED  BY <1>3, <1>13, <1>14, <1>15, <1>16

(* dequeue, whichever of its branches is taken.                            *)
LEMMA DequeueFreesFirst ==
    ASSUME IInv, NEW n \in Nat, n = len, NEW s \in [1 .. n -> Addr], QueueIs(s),
           NEW t \in Threads, n # 0, DequeueNode(t)
    PROVE  1 \in 1 .. n /\ FreesAt(n, s, 1, t)
<1>1. Linked(s, n, front, rear, next)
  BY ChainIsLinked
<1>2. front = s[1] /\ rear = s[n] /\ next[s[n]] = NULL
  BY <1>1 DEF Linked
<1>3. n = 2 => next[s[1]] = s[2]
  BY <1>1 DEF Linked
<1>4. Free(t, s[1]) /\ next' = [next EXCEPT ![s[1]] = NULL]
  BY <1>2 DEF DequeueNode
<1>5. front' = next[front] /\ rear' = IF n = 1 THEN NULL ELSE rear
  BY <1>2, <1>3 DEF DequeueNode
<1> QED  BY <1>4, <1>5 DEF FreesAt

(* What leaves in front is taken. *)
LEMMA TakesFirst ==
    ASSUME NEW t \in Threads, Queued \in Seq(NodeOf(Procs)), Len(Queued) # 0,
           Queued' = RemoveAt(Queued, 1), Owned(t)' = Owned(t) \cup {Queued[1].data}
    PROVE  Takes(t)
<1>1. PICK q : q = Queued
  OBVIOUS
<1>2. ~ isEmpty(q) /\ dequeued(q) = q[1].data /\ dequeue(q) = RemoveAt(q, 1)
  BY <1>1, DequeueRemovesFirst
<1> QED  BY <1>1, <1>2 DEF Takes

LEMMA DequeueStep ==
    ASSUME IInv, NEW t \in Threads, Dequeue(t)
    PROVE  IInv' /\ Takes(t)
<1>1. PICK n \in Nat : \E s \in [1 .. n -> Addr] : n = len /\ QueueIs(s)
  BY ChainExists
<1>2. PICK s \in [1 .. n -> Addr] : n = len /\ QueueIs(s)
  BY <1>1
<1>3. /\ UNCHANGED <<mutex, call, arg, tnode, newnode, held, sorted>>
      /\ pc[t] = "enter" /\ call[t] = "remove" /\ pc'[t] = "unlock" /\ pc' \in [Threads -> Labels]
  BY ChainExists DEF Dequeue, Entering, Goto, TypeOK, Labels
<1>4. 1 \in 1 .. n /\ FreesAt(n, s, 1, t)
  BY <1>2, DequeueFreesFirst DEF Dequeue
<1>5. Step(t)
  BY DEF Step, Holding, Removes
<1>6. /\ IInv' /\ Queued' = RemoveAt(Queued, 1)
      /\ Owned(t)' = Owned(t) \cup {data[s[1]]}
      /\ Queued \in Seq(NodeOf(Procs)) /\ Len(Queued) = n
      /\ \A i \in 1 .. n : Queued[i].data = data[s[i]]
  BY <1>2, <1>3, <1>4, <1>5, RemovalStep
<1> QED  BY <1>4, <1>6, TakesFirst

(* Found in front; or at the rear, where the code dequeues.                *)
LEMMA ByPidAtEndStep ==
    ASSUME IInv, NEW t \in Threads, ByPidAtEnd(t)
    PROVE  IInv' /\ arg[t] \in Procs /\ TakesByPid(t, arg[t])
<1>1. PICK n \in Nat : \E s \in [1 .. n -> Addr] : n = len /\ QueueIs(s)
  BY ChainExists
<1>2. PICK s \in [1 .. n -> Addr] : n = len /\ QueueIs(s)
  BY <1>1
<1>3. /\ UNCHANGED <<mutex, call, arg, tnode, newnode, held, sorted>>
      /\ pc[t] = "enter" /\ call[t] = "by_pid" /\ pc'[t] = "unlock" /\ pc' \in [Threads -> Labels]
      /\ n # 0
  BY <1>2, ChainExists DEF ByPidAtEnd, Entering, Goto, TypeOK, Labels
<1>4. front = s[1] /\ rear = s[n] /\ next[s[n]] = NULL /\ (s[1] = s[n] <=> n = 1)
  BY <1>2, <1>3, ChainIsLinked DEF Linked
<1>5. 1 \in 1 .. n /\ FreesAt(n, s, 1, t)
  <2>1. CASE data[front] = arg[t]
    BY <1>3, <1>4, <2>1 DEF ByPidAtEnd, FreesAt
  <2>2. CASE data[front] # arg[t]
    BY <1>2, <1>3, <2>2, DequeueFreesFirst DEF ByPidAtEnd
  <2> QED  BY <2>1, <2>2
<1>6. Step(t)
  BY DEF Step, Holding, Removes
<1>7. /\ IInv' /\ Queued' = RemoveAt(Queued, 1)
      /\ Owned(t)' = Owned(t) \cup {data[s[1]]}
      /\ Queued \in Seq(NodeOf(Procs)) /\ Len(Queued) = n
      /\ \A i \in 1 .. n : Queued[i].data = data[s[i]]
  BY <1>2, <1>3, <1>5, <1>6, RemovalStep
<1>8. arg[t] \in Procs
  BY <1>3, ChainExists DEF CallOf
<1>9. TakesByPid(t, arg[t])
  <2>1. CASE data[front] = arg[t]
    <3>1. Queued[1].data = arg[t] /\ ~ (1 = Len(Queued) /\ 1 > 1)
      BY <1>4, <1>5, <1>7, <2>1
    <3> QED  BY <1>4, <1>5, <1>7, <2>1, <3>1 DEF TakesByPid
  <2>2. CASE data[front] # arg[t]
    <3>1. data[rear] = arg[t] /\ n \in 1 .. n /\ n > 1
      BY <1>3, <1>4, <2>2 DEF ByPidAtEnd
    <3>2. Takes(t)
      BY <1>5, <1>7, TakesFirst
    <3>3. Queued[n].data = arg[t]
      BY <1>4, <1>7, <3>1
    <3> QED  BY <1>7, <3>1, <3>2, <3>3 DEF TakesByPid
  <2> QED  BY <2>1, <2>2
<1> QED  BY <1>7, <1>8, <1>9

(* Found in between: the node is not the rear one, which has been looked   *)
(* at before.                                                              *)
LEMMA ByPidUnlinkStep ==
    ASSUME IInv, NEW t \in Threads, ByPidUnlink(t)
    PROVE  IInv' /\ arg[t] \in Procs /\ TakesByPid(t, arg[t])
<1>1. PICK n \in Nat : \E s \in [1 .. n -> Addr] : n = len /\ QueueIs(s)
  BY ChainExists
<1>2. PICK s \in [1 .. n -> Addr] : n = len /\ QueueIs(s)
  BY <1>1
<1>3. /\ UNCHANGED <<mutex, call, arg, tnode, newnode, held, sorted, front, rear>>
      /\ pc[t] = "traverse" /\ call[t] = "by_pid" /\ pc'[t] = "unlock" /\ pc' \in [Threads -> Labels]
  BY ChainExists DEF ByPidUnlink, Goto, TypeOK, Labels
<1>4. PICK l \in 1 .. n : tnode[t] = s[l] /\ data[rear] # arg[t]
  BY <1>2, <1>3 DEF QueueIs, OnTheWay
<1>5. Linked(s, n, front, rear, next)
  BY <1>2, ChainIsLinked
<1>6. l + 1 \in 1 .. n /\ next[s[l]] = s[l + 1]
  <2>1. l # n
    BY <1>4, <1>5 DEF ByPidUnlink, Linked
  <2> QED  BY <1>5, <2>1 DEF Linked
<1>7. PICK k \in 1 .. n : k = l + 1
  BY <1>6
<1>8. /\ data[s[k]] = arg[t] /\ Free(t, s[k])
      /\ next' = [next EXCEPT ![s[l]] = next[s[k]], ![s[k]] = NULL]
  BY <1>4, <1>6, <1>7 DEF ByPidUnlink
<1>9. k < n
  <2>1. rear = s[n]
    BY <1>5 DEF Linked
  <2>2. k # n
    BY <1>4, <1>8, <2>1
  <2> QED  BY <2>2
<1>10. FreesAt(n, s, k, t)
  <2>1. k # 1 /\ k - 1 = l /\ n # 1
    BY <1>7, <1>9
  <2> QED  BY <1>3, <1>8, <1>9, <2>1 DEF FreesAt
<1>11. Step(t)
  BY DEF Step, Holding, Removes
<1>12. /\ IInv' /\ Queued' = RemoveAt(Queued, k)
       /\ Owned(t)' = Owned(t) \cup {data[s[k]]}
       /\ Queued \in Seq(NodeOf(Procs)) /\ Len(Queued) = n
       /\ \A i \in 1 .. n : Queued[i].data = data[s[i]]
  BY <1>2, <1>3, <1>10, <1>11, RemovalStep
<1>13. arg[t] \in Procs
  BY <1>3, ChainExists DEF CallOf
<1>14. TakesByPid(t, arg[t])
  <2>1. k # Len(Queued) /\ Queued[k].data = arg[t] /\ k \in 1 .. Len(Queued)
    BY <1>8, <1>9, <1>12
  <2> QED  BY <1>8, <1>12, <2>1 DEF TakesByPid
<1> QED  BY <1>12, <1>13, <1>14
-----------------------------------------------------------------------------
(***************************************************************************)
(* Every behaviour.                                                        *)
(***************************************************************************)
LEMMA InitHolds ==
    ASSUME Init
    PROVE  IInv /\ Queued = <<>>
<1> USE DEF Init
<1>1. PICK n \in Nat : n = 0
  OBVIOUS
<1>2. PICK s : s \in [1 .. n -> Addr]
  <2>1. [i \in 1 .. n |-> NULL] \in [1 .. n -> Addr]
    BY <1>1
  <2> QED  BY <2>1
<1>3. PICK holder \in [Procs -> Threads] : held = [t \in Threads |-> {p \in Procs : holder[p] = t}]
  OBVIOUS
<1>4. TypeOK
  <2>1. held \in [Threads -> SUBSET Procs]
    BY <1>3
  <2> QED  BY <2>1 DEF TypeOK, Labels
<1>5. MutualExclusion
  BY ThreadAssumption DEF MutualExclusion, Critical
<1>6. \A t \in Threads : CallOf(t)
  BY DEF CallOf
<1>7. Unlinked = {}
  BY DEF Unlinked
<1>8. QueueIs(s)
  <2>1. Chain(s)
    BY <1>1, <1>7 DEF Chain
  <2>2. Carrying(Procs, len, s, data, priority)
    BY DEF Carrying
  <2>3. \A t \in Threads : OnTheWay(s, t)
    BY DEF OnTheWay
  <2> QED  BY <2>1, <2>2, <2>3 DEF QueueIs
<1>9. IInv
  BY <1>1, <1>2, <1>4, <1>5, <1>6, <1>8 DEF IInv
<1>10. Queued = <<>>
  BY DEF Queued
<1> QED  BY <1>9, <1>10

(* The atomic step that a step of thread t is, or none. *)
Appears(t) ==
    \/ Queued' = Queued /\ Owned(t)' = Owned(t)
    \/ Puts(t)
    \/ Takes(t)
    \/ arg[t] \in Procs /\ TakesByPid(t, arg[t])

LEMMA StepHolds ==
    ASSUME IInv, NEW t \in Threads, Step(t)
    PROVE  IInv' /\ Appears(t)
<1> USE DEF Appears
<1>1. CASE Calls(t)
  BY <1>1, CallStep
<1>2. CASE Lock(t)
  BY <1>2, LockStep
<1>3. CASE Adds(t)
  <2>1. ASSUME NEW a \in Addr, EnqueueFirst(t, a) \/ EnqueueFront(t, a)
        PROVE  IInv' /\ Appears(t)
    BY <2>1, EnqueueFrontStep
  <2>2. ASSUME NEW a \in Addr, EnqueueTraverse(t, a)
        PROVE  IInv' /\ Appears(t)
    BY <2>2, EnqueueTraverseStep
  <2>3. CASE TraverseOn(t)
    BY <2>3, TraverseOnStep
  <2>4. CASE Link(t)
    BY <2>4, LinkStep
  <2> QED  BY <1>3, <2>1, <2>2, <2>3, <2>4 DEF Adds
<1>4. CASE Removes(t)
  <2>1. CASE Dequeue(t)
    BY <2>1, DequeueStep
  <2>2. CASE NothingFound(t)
    BY <2>2, NothingFoundStep
  <2>3. CASE ByPidAtEnd(t)
    BY <2>3, ByPidAtEndStep
  <2>4. CASE ByPidTraverse(t) \/ ByPidTraverseOn(t)
    BY <2>4, ByPidTraverseStep
  <2>5. CASE ByPidUnlink(t)
    BY <2>5, ByPidUnlinkStep
  <2> QED  BY <1>4, <2>1, <2>2, <2>3, <2>4, <2>5 DEF Removes
<1>5. CASE Unlock(t)
  BY <1>5, UnlockStep
<1> QED  BY <1>1, <1>2, <1>3, <1>4, <1>5 DEF Step, Holding

LEMMA StutterHolds ==
    ASSUME IInv, UNCHANGED queueVars
    PROVE  IInv'
<1> USE DEF queueVars, list, locals
<1>1. PICK s \in [1 .. len -> Addr] : QueueIs(s)
  BY DEF IInv
<1>2. TypeOK' /\ MutualExclusion'
  BY DEF IInv, TypeOK, MutualExclusion
<1>3. \A t \in Threads : CallOf(t)'
  BY DEF IInv, CallOf
<1>4. Unlinked' = Unlinked
  BY DEF Unlinked
<1>5. Chain(s)'
  BY <1>1, <1>4 DEF QueueIs, Chain
<1>6. Carrying(Procs, len, s, data, priority)'
  BY <1>1 DEF QueueIs
<1>7. \A t \in Threads : OnTheWay(s, t)'
  BY <1>1 DEF QueueIs, OnTheWay, NewPriority
<1>8. QueueIs(s)'
  BY <1>5, <1>6, <1>7 DEF QueueIs
<1> QED  BY <1>1, <1>2, <1>3, <1>8 DEF IInv

(* The inductive invariant holds of every behaviour: the chain of nodes    *)
(* from front to rear, the locals of the thread that is in the queue and   *)
(* the call every other one is in.                                         *)
THEOREM QueueInvariance == Spec => []IInv
<1>1. Init => IInv
  BY InitHolds
<1>2. IInv /\ [Next]_queueVars => IInv'
  <2> SUFFICES ASSUME IInv, [Next]_queueVars PROVE IInv'
    OBVIOUS
  <2>1. CASE Next
    BY <2>1, StepHolds DEF Next, Step
  <2>2. CASE UNCHANGED queueVars
    BY <2>2, StutterHolds
  <2> QED  BY <2>1, <2>2
<1> QED  BY <1>1, <1>2, PTL DEF Spec

(* Whatever the threads do at once, at every step of every call: one       *)
(* thread at most is in the queue, and front, rear, len and the next       *)
(* pointers describe one sequence of nodes without a repetition, on which  *)
(* every node allocated and not freed is, or is about to be.  It is what   *)
(* isValidQueue asserts between calls (src/queue.c), and more.             *)
THEOREM QueueCorrect == Spec => []QueueInv
<1>1. IInv => QueueInv
  BY DEF IInv, QueueInv, ValidQueue, QueueIs
<1> QED  BY <1>1, QueueInvariance, PTL
-----------------------------------------------------------------------------
(***************************************************************************)
(* The refinement.                                                         *)
(***************************************************************************)
OwnedByAll == [t \in Threads |-> Owned(t)]

(* SharedQueue speaks of the same queue operations as this module. *)
LEMMA SameOperations ==
    /\ \A q, x : Atomic!enqueue(q, x) = enqueue(q, x)
    /\ \A q, x, y : Atomic!p_enqueue(q, x, y) = p_enqueue(q, x, y)
    /\ \A q, k : Atomic!RemoveAt(q, k) = RemoveAt(q, k)
<1>1. \A q, x : Atomic!enqueue(q, x) = enqueue(q, x)
  BY DEF Atomic!enqueue, enqueue, Atomic!node, node
<1>2. \A K : Atomic!Min(K) = Min(K)
  BY DEF Atomic!Min, Min
<1>3. \A q, x, k : Atomic!InsertAt(q, k, x) = InsertAt(q, k, x)
  BY DEF Atomic!InsertAt, InsertAt
<1>4. \A q, x, y : Atomic!p_enqueue(q, x, y) = p_enqueue(q, x, y)
  BY <1>2, <1>3 DEF Atomic!p_enqueue, p_enqueue, Atomic!node, node
<1>5. \A q, k : Atomic!RemoveAt(q, k) = RemoveAt(q, k)
  BY DEF Atomic!RemoveAt, RemoveAt
<1> QED  BY <1>1, <1>4, <1>5

(* At the start the threads hold the processes among them. *)
LEMMA InitImplements ==
    ASSUME Init
    PROVE  Atomic!SharedInit
<1>1. PICK holder \in [Procs -> Threads] : held = [t \in Threads |-> {p \in Procs : holder[p] = t}]
  BY DEF Init
<1>2. \A t \in Threads : Owned(t) = {p \in Procs : holder[p] = t}
  BY <1>1 DEF Init, Owned
<1>3. [t \in Threads |-> Owned(t)] \in [Threads -> SUBSET Procs]
  BY <1>2
<1>4. \A p \in Procs : \E t \in Threads : p \in [u \in Threads |-> Owned(u)][t]
  BY <1>1, <1>2
<1>5. \A t, u \in Threads : t # u => [v \in Threads |-> Owned(v)][t] \cap [v \in Threads |-> Owned(v)][u] = {}
  BY <1>2
<1>6. sorted \in BOOLEAN /\ Queued = <<>>
  BY InitHolds DEF Init
<1> QED  BY <1>3, <1>4, <1>5, <1>6 DEF Atomic!SharedInit

(* What the other threads have stays. *)
LEMMA OwnedMoves ==
    ASSUME TypeOK, NEW t \in Threads, Step(t), NEW S, Owned(t)' = S
    PROVE  OwnedByAll' = [OwnedByAll EXCEPT ![t] = S]
<1>1. Others(t)
  BY OthersStay
<1>2. \A u \in Threads \ {t} : Owned(u)' = Owned(u)
  BY <1>1 DEF Others, Owned
<1> QED  BY <1>2 DEF OwnedByAll

LEMMA TakesImplements ==
    ASSUME TypeOK, NEW t \in Threads, Step(t), Takes(t)
    PROVE  Atomic!Take(t)
<1>1. OwnedByAll' = [OwnedByAll EXCEPT ![t] = Owned(t) \cup {dequeued(Queued)}]
  BY OwnedMoves DEF Takes
<1>2. OwnedByAll[t] = Owned(t)
  BY DEF OwnedByAll
<1>3. OwnedByAll' = [OwnedByAll EXCEPT ![t] = @ \cup {dequeued(Queued)}]
  BY <1>1, <1>2
<1> QED  BY <1>3 DEF Takes, OwnedByAll, Atomic!Take, Atomic!isEmpty, isEmpty, Atomic!dequeued, dequeued,
                     Atomic!dequeue, dequeue

LEMMA PutsImplements ==
    ASSUME TypeOK, NEW t \in Threads, Step(t), Puts(t)
    PROVE  Atomic!Put(t, arg[t])
<1>1. OwnedByAll' = [OwnedByAll EXCEPT ![t] = Owned(t) \ {arg[t]}]
  BY OwnedMoves DEF Puts
<1>2. OwnedByAll[t] = Owned(t)
  BY DEF OwnedByAll
<1>3. OwnedByAll' = [OwnedByAll EXCEPT ![t] = @ \ {arg[t]}]
  BY <1>1, <1>2
<1> QED  BY <1>2, <1>3, SameOperations DEF Puts, OwnedByAll, Atomic!Put

LEMMA TakesByPidImplements ==
    ASSUME TypeOK, NEW t \in Threads, Step(t), NEW p \in Procs, TakesByPid(t, p)
    PROVE  Atomic!TakeByPid(t, p)
<1>1. PICK k \in 1 .. Len(Queued) :
        /\ Queued[k].data = p
        /\ IF k = Len(Queued) /\ k > 1
           THEN Takes(t)
           ELSE Owned(t)' = Owned(t) \cup {p} /\ Queued' = RemoveAt(Queued, k)
  BY DEF TakesByPid
<1>2. CASE k = Len(Queued) /\ k > 1
  BY <1>1, <1>2, TakesImplements DEF Atomic!TakeByPid
<1>3. CASE ~ (k = Len(Queued) /\ k > 1)
  <2>1. OwnedByAll' = [OwnedByAll EXCEPT ![t] = Owned(t) \cup {p}]
    BY <1>1, <1>3, OwnedMoves
  <2>2. OwnedByAll[t] = Owned(t)
    BY DEF OwnedByAll
  <2>3. OwnedByAll' = [OwnedByAll EXCEPT ![t] = @ \cup {p}]
    BY <2>1, <2>2
  <2> QED  BY <1>1, <1>3, <2>3, SameOperations DEF OwnedByAll, Atomic!TakeByPid
<1> QED  BY <1>2, <1>3

LEMMA StepImplements ==
    ASSUME IInv, NEW t \in Threads, Step(t)
    PROVE  Atomic!SharedNext \/ UNCHANGED Atomic!sharedQueue
<1>1. Appears(t) /\ TypeOK /\ sorted' = sorted
  BY StepHolds, OthersStay DEF IInv
<1>2. CASE Queued' = Queued /\ Owned(t)' = Owned(t)
  <2>1. OwnedByAll' = [OwnedByAll EXCEPT ![t] = Owned(t)]
    BY <1>1, <1>2, OwnedMoves
  <2>2. OwnedByAll' = OwnedByAll
    BY <2>1 DEF OwnedByAll
  <2> QED  BY <1>1, <1>2, <2>2 DEF Atomic!sharedQueue, OwnedByAll
<1>3. CASE Puts(t)
  BY <1>1, <1>3, PutsImplements DEF Atomic!SharedNext, Puts
<1>4. CASE Takes(t)
  BY <1>1, <1>4, TakesImplements DEF Atomic!SharedNext
<1>5. CASE arg[t] \in Procs /\ TakesByPid(t, arg[t])
  BY <1>1, <1>5, TakesByPidImplements DEF Atomic!SharedNext
<1> QED  BY <1>1, <1>2, <1>3, <1>4, <1>5 DEF Appears

(* A step that changes nothing is none of the atomic queue either. *)
LEMMA StutterImplements ==
    ASSUME UNCHANGED queueVars
    PROVE  UNCHANGED Atomic!sharedQueue
<1> USE DEF queueVars, list, locals
<1>1. Queued' = Queued
  BY DEF Queued, Walk, NextOf, NodeAt
<1>2. OwnedByAll' = OwnedByAll
  BY DEF OwnedByAll, Owned
<1> QED  BY <1>1, <1>2 DEF Atomic!sharedQueue, OwnedByAll

(* Nodes, pointers and the mutex of the wrappers implement the atomic      *)
(* queue: the thread's step that links or frees a node is the whole call,  *)
(* no process is lost or handed out twice, and those on the queue leave    *)
(* in the order enqueue and p_enqueue promise - save the rear one asked    *)
(* for by pid, where the code takes the front one.                         *)
THEOREM QueueImplements == Spec => ImplementsQueue
<1>1. Init => Atomic!SharedInit
  BY InitImplements
<1>2. IInv /\ [Next]_queueVars => [Atomic!SharedNext]_Atomic!sharedQueue
  <2> SUFFICES ASSUME IInv, [Next]_queueVars PROVE [Atomic!SharedNext]_Atomic!sharedQueue
    OBVIOUS
  <2>1. CASE Next
    BY <2>1, StepImplements DEF Next, Step
  <2>2. CASE UNCHANGED queueVars
    BY <2>2, StutterImplements
  <2> QED  BY <2>1, <2>2
<1> QED  BY <1>1, <1>2, QueueInvariance, PTL DEF Spec, ImplementsQueue, Atomic!SharedSpec
=============================================================================
