---------------------------- MODULE LinkedQueue -----------------------------
(***************************************************************************)
(* A process queue as src/queue.c and src/priority_queue.c keep it - nodes *)
(* linked by pointers, front, rear and len - used by several threads under *)
(* the mutex of the wrappers (schedule_algorithms/*/*_th.c).  A step is a  *)
(* lock, an unlock, one turn of a traversing loop, or the straight-line    *)
(* code between two of these.                                              *)
(***************************************************************************)
EXTENDS Integers, Sequences, FiniteSets, SchedQueue

CONSTANTS
    Threads,
    Procs,          (* the processes the threads pass around               *)
    Addr,           (* what malloc may return                              *)
    PriorityOf      (* the priority field of each process                  *)

ASSUME AddrAssumption == NULL \notin Addr
ASSUME ThreadAssumption == NULL \notin Threads
ASSUME ProcAssumption == Procs \subseteq Nat
ASSUME PriorityAssumption == PriorityOf \in [Procs -> Int]

VARIABLES
    sorted,                       (* do the wrappers call p_enqueue?        *)
    mutex,                        (* the thread that holds it, or NULL      *)
    front, rear, len,             (* the Queue                              *)
    data, priority, next,         (* the nodes                              *)
    allocated,                    (* addresses malloc gave out              *)
    pc, call, arg,                (* where each thread is, in which call    *)
    tnode, newnode, result,       (* its locals                             *)
    held                          (* the processes it has taken off         *)

list == <<front, rear, len, data, priority, next, allocated>>
locals == <<tnode, newnode, result>>
queueVars == <<sorted, mutex, list, pc, call, arg, locals, held>>

(* init_scheduler has installed the wrappers of one policy: sjf and srtf   *)
(* file by priority, fcfs and rr do not.                                   *)
Init ==
    /\ sorted \in BOOLEAN
    /\ mutex = NULL
    /\ front = NULL /\ rear = NULL /\ len = 0
    /\ data = [a \in Addr |-> NULL]
    /\ priority = [a \in Addr |-> 0]
    /\ next = [a \in Addr |-> NULL]
    /\ allocated = {}
    /\ pc = [t \in Threads |-> "idle"]
    /\ call = [t \in Threads |-> "none"]
    /\ arg = [t \in Threads |-> NULL]
    /\ tnode = [t \in Threads |-> NULL]
    /\ newnode = [t \in Threads |-> NULL]
    /\ result = [t \in Threads |-> NULL]
    /\ \E holder \in [Procs -> Threads] :
         held = [t \in Threads |-> {p \in Procs : holder[p] = t}]
-----------------------------------------------------------------------------
(* Every step is one of a thread t; the wrappers stay as installed. *)
Goto(t, from, to) ==
    /\ pc[t] = from
    /\ pc' = [pc EXCEPT ![t] = to]
    /\ UNCHANGED sorted

(* A thread calls a wrapper: to file a process it holds, to take the       *)
(* front one off, or to take a given one off.                              *)
CallAdd(t, p) ==
    /\ Goto(t, "idle", "lock")
    /\ p \in held[t]
    /\ held' = [held EXCEPT ![t] = @ \ {p}]
    /\ call' = [call EXCEPT ![t] = "add"]
    /\ arg' = [arg EXCEPT ![t] = p]
    /\ UNCHANGED <<mutex, list, locals>>

CallRemove(t) ==
    /\ Goto(t, "idle", "lock")
    /\ call' = [call EXCEPT ![t] = "remove"]
    /\ UNCHANGED <<mutex, list, locals, arg, held>>

CallRemoveByPid(t, pid) ==
    /\ Goto(t, "idle", "lock")
    /\ call' = [call EXCEPT ![t] = "by_pid"]
    /\ arg' = [arg EXCEPT ![t] = pid]
    /\ UNCHANGED <<mutex, list, locals, held>>

(* Fault: the wrapper does not wait for the mutex. *)
LockUnchecked(t) ==
    /\ Goto(t, "lock", "enter")
    /\ mutex' = t
    /\ UNCHANGED <<list, call, arg, locals, held>>

Lock(t) ==
    /\ Goto(t, "lock", "enter")
    /\ mutex = NULL
    /\ mutex' = t
    /\ UNCHANGED <<list, call, arg, locals, held>>

(* The call returns what it took off; its locals are gone. *)
Unlock(t) ==
    /\ Goto(t, "unlock", "idle")
    /\ mutex' = NULL
    /\ held' = [held EXCEPT ![t] = IF result[t] = NULL THEN @ ELSE @ \cup {result[t]}]
    /\ result' = [result EXCEPT ![t] = NULL]
    /\ tnode' = [tnode EXCEPT ![t] = NULL]
    /\ newnode' = [newnode EXCEPT ![t] = NULL]
    /\ call' = [call EXCEPT ![t] = "none"]
    /\ arg' = [arg EXCEPT ![t] = NULL]
    /\ UNCHANGED list
-----------------------------------------------------------------------------
(* enqueue and p_enqueue.                                                  *)

(* calloc leaves 0 in the priority field, p_newNode sets it. *)
NewPriority(t) == IF sorted THEN PriorityOf[arg[t]] ELSE 0

Entering(t, what) == pc[t] = "enter" /\ call[t] = what

(* A fresh node a for the process, in front of node succ. *)
Allocate(t, a, succ) ==
    /\ a \in Addr \ allocated
    /\ allocated' = allocated \cup {a}
    /\ data' = [data EXCEPT ![a] = arg[t]]
    /\ priority' = [priority EXCEPT ![a] = NewPriority(t)]
    /\ next' = [next EXCEPT ![a] = succ]

(* enqueue looks at front, p_enqueue at len. *)
LooksEmpty == IF sorted THEN len = 0 ELSE front = NULL

EnqueueFirst(t, a) ==
    /\ Entering(t, "add") /\ Goto(t, "enter", "unlock")
    /\ LooksEmpty
    /\ Allocate(t, a, NULL)
    /\ front' = a /\ rear' = a /\ len' = len + 1
    /\ UNCHANGED <<mutex, call, arg, locals, held>>

GoesToFront(t) == sorted /\ priority[front] > NewPriority(t)

EnqueueFront(t, a) ==
    /\ Entering(t, "add") /\ Goto(t, "enter", "unlock")
    /\ ~ LooksEmpty /\ GoesToFront(t)
    /\ Allocate(t, a, front)
    /\ front' = a /\ len' = len + 1
    /\ UNCHANGED <<mutex, rear, call, arg, locals, held>>

EnqueueTraverse(t, a) ==
    /\ Entering(t, "add") /\ Goto(t, "enter", "traverse")
    /\ ~ LooksEmpty /\ ~ GoesToFront(t)
    /\ Allocate(t, a, NULL)
    /\ newnode' = [newnode EXCEPT ![t] = a]
    /\ tnode' = [tnode EXCEPT ![t] = front]
    /\ UNCHANGED <<mutex, front, rear, len, call, arg, result, held>>

(* enqueue traverses to the last node, p_enqueue to the last one it must   *)
(* stay behind.                                                            *)
GoesOn(t) ==
    LET snode == next[tnode[t]]
    IN  snode # NULL /\ (sorted => priority[snode] <= NewPriority(t))

TraverseOn(t) ==
    /\ call[t] = "add" /\ Goto(t, "traverse", "traverse")
    /\ GoesOn(t)
    /\ tnode' = [tnode EXCEPT ![t] = next[tnode[t]]]
    /\ UNCHANGED <<mutex, list, call, arg, newnode, result, held>>

Link(t) ==
    /\ call[t] = "add" /\ Goto(t, "traverse", "unlock")
    /\ ~ GoesOn(t)
    /\ len' = len + 1
    /\ IF sorted /\ tnode[t] # rear
       THEN /\ next' = [next EXCEPT ![tnode[t]] = newnode[t], ![newnode[t]] = next[tnode[t]]]
            /\ UNCHANGED rear
       ELSE /\ next' = [next EXCEPT ![tnode[t]] = newnode[t]]
            /\ rear' = newnode[t]
    /\ UNCHANGED <<mutex, front, data, priority, allocated, call, arg, locals, held>>
-----------------------------------------------------------------------------
(* dequeue and remove_node_by_pid.                                         *)

(* The process of node a is the result and the node is freed: what it held *)
(* is not there any more.                                                  *)
Free(t, a) ==
    /\ result' = [result EXCEPT ![t] = data[a]]
    /\ allocated' = allocated \ {a}
    /\ data' = [data EXCEPT ![a] = NULL]
    /\ priority' = [priority EXCEPT ![a] = 0]
    /\ len' = len - 1

(* Fault: rear keeps pointing at the last node when it leaves. *)
DequeueNodeRearKept(t) ==
    /\ Free(t, front)
    /\ next' = [next EXCEPT ![front] = NULL]
    /\ front' = next[front]
    /\ UNCHANGED rear

(* The front node leaves; what becomes of front and rear depends on how    *)
(* many nodes there are.                                                   *)
DequeueNode(t) ==
    /\ Free(t, front)
    /\ next' = [next EXCEPT ![front] = NULL]
    /\ \/ len = 1 /\ front' = NULL /\ rear' = NULL
       \/ len = 2 /\ front' = rear /\ UNCHANGED rear
       \/ len \notin {1, 2} /\ front' = next[front] /\ UNCHANGED rear

Dequeue(t) ==
    /\ Entering(t, "remove") /\ Goto(t, "enter", "unlock")
    /\ len # 0
    /\ DequeueNode(t)
    /\ UNCHANGED <<mutex, call, arg, tnode, newnode, held>>

(* An empty queue, or one that does not have the process: NULL. *)
NothingFound(t) ==
    /\ \/ Goto(t, "enter", "unlock") /\ call[t] # "add" /\ len = 0
       \/ /\ Entering(t, "by_pid") /\ Goto(t, "enter", "unlock")
          /\ len # 0 /\ front = rear /\ data[front] # arg[t]
       \/ /\ call[t] = "by_pid" /\ Goto(t, "traverse", "unlock")
          /\ next[tnode[t]] = NULL
    /\ UNCHANGED <<mutex, list, call, arg, locals, held>>

(* Found in front, alone or not; or at the rear, where the code dequeues.  *)
ByPidAtEnd(t) ==
    /\ Entering(t, "by_pid") /\ Goto(t, "enter", "unlock")
    /\ len # 0
    /\ \/ /\ data[front] = arg[t]
          /\ Free(t, front)
          /\ next' = [next EXCEPT ![front] = NULL]
          /\ IF front = rear
             THEN front' = NULL /\ rear' = NULL
             ELSE front' = next[front] /\ UNCHANGED rear
       \/ data[front] # arg[t] /\ front # rear /\ data[rear] = arg[t] /\ DequeueNode(t)
    /\ UNCHANGED <<mutex, call, arg, tnode, newnode, held>>

ByPidTraverse(t) ==
    /\ Entering(t, "by_pid") /\ Goto(t, "enter", "traverse")
    /\ len # 0 /\ front # rear
    /\ data[front] # arg[t] /\ data[rear] # arg[t]
    /\ tnode' = [tnode EXCEPT ![t] = front]
    /\ UNCHANGED <<mutex, list, call, arg, newnode, result, held>>

(* Fault: the loop does not move on. *)
ByPidTraverseStays(t) ==
    /\ call[t] = "by_pid" /\ Goto(t, "traverse", "traverse")
    /\ next[tnode[t]] # NULL
    /\ data[next[tnode[t]]] # arg[t]
    /\ UNCHANGED <<mutex, list, call, arg, locals, held>>

ByPidTraverseOn(t) ==
    /\ call[t] = "by_pid" /\ Goto(t, "traverse", "traverse")
    /\ next[tnode[t]] # NULL
    /\ data[next[tnode[t]]] # arg[t]
    /\ tnode' = [tnode EXCEPT ![t] = next[tnode[t]]]
    /\ UNCHANGED <<mutex, list, call, arg, newnode, result, held>>

ByPidUnlink(t) ==
    /\ call[t] = "by_pid" /\ Goto(t, "traverse", "unlock")
    /\ next[tnode[t]] # NULL
    /\ LET mid_node == next[tnode[t]]
       IN  /\ data[mid_node] = arg[t]
           /\ Free(t, mid_node)
           /\ next' = [next EXCEPT ![tnode[t]] = next[mid_node], ![mid_node] = NULL]
    /\ UNCHANGED <<mutex, front, rear, call, arg, tnode, newnode, held>>
-----------------------------------------------------------------------------
Calls(t) ==
    \/ CallRemove(t)
    \/ \E p \in Procs : CallAdd(t, p) \/ CallRemoveByPid(t, p)

Adds(t) ==
    \/ \E a \in Addr : EnqueueFirst(t, a) \/ EnqueueFront(t, a) \/ EnqueueTraverse(t, a)
    \/ TraverseOn(t) \/ Link(t)

Removes(t) ==
    \/ Dequeue(t) \/ NothingFound(t) \/ ByPidAtEnd(t)
    \/ ByPidTraverse(t) \/ ByPidTraverseOn(t) \/ ByPidUnlink(t)

(* What a thread does while it holds the mutex. *)
Holding(t) == Adds(t) \/ Removes(t) \/ Unlock(t)

Next == \E t \in Threads : Calls(t) \/ Lock(t) \/ Holding(t)

(* A thread inside a call is scheduled again and again; nothing makes one  *)
(* call, and pthread mutexes promise no order among those that wait.       *)
Fairness == \A t \in Threads : WF_queueVars(Lock(t)) /\ WF_queueVars(Holding(t))

Spec == Init /\ [][Next]_queueVars
FairSpec == Spec /\ Fairness
-----------------------------------------------------------------------------
Labels == {"idle", "lock", "enter", "traverse", "unlock"}
Critical == {"enter", "traverse", "unlock"}

TypeOK ==
    /\ sorted \in BOOLEAN
    /\ mutex \in Threads \cup {NULL}
    /\ front \in Addr \cup {NULL} /\ rear \in Addr \cup {NULL} /\ len \in Nat
    /\ data \in [Addr -> Procs \cup {NULL}]
    /\ priority \in [Addr -> Int]
    /\ next \in [Addr -> Addr \cup {NULL}]
    /\ allocated \subseteq Addr
    /\ pc \in [Threads -> Labels]
    /\ call \in [Threads -> {"none", "add", "remove", "by_pid"}]
    /\ arg \in [Threads -> Procs \cup {NULL}]
    /\ tnode \in [Threads -> Addr \cup {NULL}]
    /\ newnode \in [Threads -> Addr \cup {NULL}]
    /\ result \in [Threads -> Procs \cup {NULL}]
    /\ held \in [Threads -> SUBSET Procs]

(* No two threads are inside the queue, and the one inside is the owner of *)
(* the mutex.                                                              *)
MutualExclusion == \A t \in Threads : pc[t] \in Critical <=> mutex = t

(* A new node that no link leads to yet. *)
Unlinked == {newnode[t] : t \in {u \in Threads : pc[u] = "traverse" /\ call[u] = "add"}}

(* s is the queue: front to rear along next, len long, without a node      *)
(* twice, and every node that was allocated and not freed is on it or      *)
(* about to be.                                                            *)
Chain(s) ==
    /\ IF len = 0 THEN front = NULL /\ rear = NULL
                  ELSE front = s[1] /\ rear = s[len] /\ next[s[len]] = NULL
    /\ \A i \in 1 .. len - 1 : next[s[i]] = s[i + 1]
    /\ \A i, j \in 1 .. len : s[i] = s[j] => i = j
    /\ \A i \in 1 .. len : s[i] \notin Unlinked
    /\ allocated = {s[i] : i \in 1 .. len} \cup Unlinked

(* What isValidQueue asserts (the build compiles the assertions out), at   *)
(* every step and not only between calls; and no node is leaked, freed     *)
(* while linked, or linked twice.                                          *)
ValidQueue == \E s \in [1 .. len -> Addr] : Chain(s)

(* All three: whatever the threads do at once, the queue is well formed at *)
(* every step.                                                             *)
QueueInv == TypeOK /\ MutualExclusion /\ ValidQueue

(* The queue read from front along next. *)
NextOf(a) == IF a \in Addr THEN next[a] ELSE NULL
Walk ==
    LET at[i \in 1 .. len] == IF i = 1 THEN front ELSE NextOf(at[i - 1])
    IN  [i \in 1 .. len |-> at[i]]
NodeAt(a) == IF a \in Addr THEN node(data[a], priority[a]) ELSE node(NULL, 0)
Queued == [i \in 1 .. len |-> NodeAt(Walk[i])]

(* What a thread has of the processes: those it holds, the one it is about *)
(* to file and the one it has just taken off.                              *)
Owned(t) ==
    held[t] \cup (IF call[t] = "add" /\ pc[t] # "unlock" THEN {arg[t]} ELSE {})
            \cup ({result[t]} \ {NULL})

(* The pointers and the mutex implement the atomic queue of SharedQueue,   *)
(* which is what the simulator's modules take a queue to be: nodes keep    *)
(* their order and no process is lost or handed out twice.                 *)
Atomic == INSTANCE SharedQueue WITH queue <- Queued, owned <- [t \in Threads |-> Owned(t)]
ImplementsQueue == Atomic!SharedSpec

(* A call that has got the mutex gives it back: the traversals end.        *)
CallsEnd == \A t \in Threads : mutex = t ~> mutex # t

(* The use the commented-out calls in main.c make of remove_node_by_pid:   *)
(* the process it returns is the one asked for.  The code returns the      *)
(* front process when asked for the rear one.                              *)
RemovesAsked ==
    \A t \in Threads : call[t] = "by_pid" /\ result[t] # NULL => result[t] = arg[t]
=============================================================================
