-------------------------- MODULE SimulatorProofs ---------------------------
(***************************************************************************)
(* What every policy shares: for each action of Simulator, that it keeps   *)
(* the invariant, the counter, the order of filing, the accounts, the log  *)
(* and the turns, and that it is a step of ProcessLifecycle or none.  The  *)
(* scheduler's labels are a parameter, so that each policy only proves its *)
(* own steps.                                                              *)
(***************************************************************************)
EXTENDS Simulator, DataProofs

LEMMA AddToFacts ==
    ASSUME NEW q \in Seq(Node), NEW p \in Pids, NEW priority \in Int
    PROVE  /\ AddTo(q, p, priority) \in Seq(Node)
           /\ Len(AddTo(q, p, priority)) = Len(q) + 1
           /\ Carried(AddTo(q, p, priority)) = Carried(q) \cup {p}
           /\ NoDuplicates(q) /\ p \notin Carried(q) => NoDuplicates(AddTo(q, p, priority))
<1> DEFINE r == AddTo(q, p, priority)
<1>1. Node = NodeOf(Pids)
  BY DEF Node, NodeOf
<1>2. r = enqueue(q, p) \/ r = p_enqueue(q, p, priority)
  BY DEF AddTo
<1> HIDE DEF r
<1>3. /\ r \in Seq(Node) /\ Len(r) = Len(q) + 1 /\ Carried(r) = Carried(q) \cup {p}
      /\ NoDuplicates(q) /\ p \notin Carried(q) => NoDuplicates(r)
  BY <1>1, <1>2, EnqueueFacts
<1> QED  BY <1>3 DEF r

LEMMA RemoveFacts ==
    ASSUME NEW q \in Seq(Node)
    PROVE  /\ dequeue(q) \in Seq(Node)
           /\ dequeued(q) = NULL <=> Len(q) = 0
           /\ dequeued(q) = NULL => dequeue(q) = q
           /\ dequeued(q) # NULL =>
                /\ dequeued(q) \in Pids
                /\ Len(dequeue(q)) = Len(q) - 1
                /\ Carried(q) = Carried(dequeue(q)) \cup {dequeued(q)}
                /\ NoDuplicates(q) =>
                     NoDuplicates(dequeue(q)) /\ dequeued(q) \notin Carried(dequeue(q))
<1>1. Node = NodeOf(Pids)
  BY DEF Node, NodeOf
<1>2. \A p \in Pids : p # NULL
  BY DEF Pids, NULL
<1>3. isEmpty(q) => dequeue(q) = q
  BY DEF dequeue
<1> QED  BY <1>1, <1>2, <1>3, DequeueFacts

(* A step that moves no process from one place to another. *)
LEMMA PlacesUnchanged ==
    ASSUME OneOwner, UNCHANGED <<pd, readyQueue, waitQueue, T_PROCESS>>,
           OnCpu' = OnCpu, OnIo' = OnIo
    PROVE  OneOwner'
  BY DEF OneOwner, Retired

(* The steps of the dispatch loop that only look: they leave every process *)
(* where it is and its bursts alone.                                       *)
LEMMA SchedLooksInv ==
    ASSUME NEW CONSTANT L, SimTypeOK(L), SimInv,
           SchedCheck \/ SchedDoneCounter \/ SchedDoneReady \/ SchedDoneWait \/ SchedTryWait
    PROVE  SimTypeOK(L)' /\ SimInv'
<1>1. /\ UNCHANGED <<readyQueue, running_pd>> /\ SchedUnchanged
      /\ sched_pc \in {"check", "done?", "ready empty?", "wait empty?", "trywait"}
      /\ sched_pc' \in {"check", "done?", "ready empty?", "wait empty?", "trywait", "remove",
                        "exit"}
  BY DEF SchedCheck, SchedDoneCounter, SchedDoneReady, SchedDoneWait, SchedTryWait, SchedStep
<1>0. \/ ready_count' = ready_count /\ sched_pc' # "remove"
      \/ ready_count > 0 /\ ready_count' = ready_count - 1 /\ sched_pc' = "remove"
  BY DEF SchedCheck, SchedDoneCounter, SchedDoneReady, SchedDoneWait, SchedTryWait, SchedStep
<1>2. SimTypeOK(L)'
  <2>1. ready_count' \in Nat
    <3>1. ready_count \in Nat
      BY DEF SimTypeOK
    <3> QED  BY <1>0, <3>1
  <2>2. sched_pc' \in DispatchLabels \cup L
    BY <1>1 DEF DispatchLabels
  <2> QED  BY <1>1, <2>1, <2>2 DEF SimTypeOK, SchedUnchanged, tables, log
<1>3. SemaphoresCountQueues'
  <2>1. ready_count' + Flag(sched_pc' \in {"remove", "redispatch"}) =
          ready_count + Flag(sched_pc \in {"remove", "redispatch"})
    <3>1. ready_count \in Nat /\ ~ (sched_pc \in {"remove", "redispatch"})
          /\ (sched_pc' \in {"remove", "redispatch"} <=> sched_pc' = "remove")
      BY <1>1 DEF SimTypeOK
    <3> QED  BY <1>0, <3>1 DEF Flag
  <2>2. sched_pc # "post" /\ sched_pc' # "post"
    BY <1>1
  <2> QED  BY <1>1, <2>1, <2>2 DEF SimInv, SemaphoresCountQueues, SchedUnchanged, tables, Flag
<1>4. OneOwner'
  BY <1>1, PlacesUnchanged DEF SimInv, SchedUnchanged, tables, OnCpu, OnIo
<1>5. StatusByPlace'
  BY <1>1 DEF SimInv, StatusByPlace, SchedUnchanged, tables
<1>6. BurstsInStep'
  BY <1>1 DEF SimInv, BurstsInStep, SchedUnchanged, tables
<1>7. ThreadsStarted'
  BY <1>1 DEF SimInv, ThreadsStarted, SchedUnchanged, tables
<1> QED  BY <1>2, <1>3, <1>4, <1>5, <1>6, <1>7 DEF SimInv

(* The removal: the semaphore guarantees a node, and its process goes from *)
(* the ready queue to the CPU.                                             *)
LEMMA SchedRemoveInv ==
    ASSUME NEW CONSTANT L, SimTypeOK(L), SimInv, SchedRemove
    PROVE  SimTypeOK(L)' /\ SimInv'
<1> DEFINE r == dequeue(readyQueue)
           p == dequeued(readyQueue)
<1>1. readyQueue \in Seq(Node) /\ Len(readyQueue) \in Nat /\ Len(readyQueue) # 0
  BY LenProperties DEF SimTypeOK, SimInv, SemaphoresCountQueues, SchedRemove, SchedStep, Flag
<1>2. /\ r \in Seq(Node) /\ p \in Pids /\ p # NULL
      /\ Len(r) = Len(readyQueue) - 1
      /\ Carried(readyQueue) = Carried(r) \cup {p}
      /\ NoDuplicates(r) /\ p \notin Carried(r)
  BY <1>1, RemoveFacts DEF SimInv, OneOwner
<1>3. /\ sched_pc = "remove" /\ sched_pc' = "cpu" /\ readyQueue' = r /\ running_pd' = p
      /\ ready_count' = ready_count /\ SchedUnchanged
  BY <1>2 DEF SchedRemove, SchedStep
<1> HIDE DEF r, p
<1>4. SimTypeOK(L)'
  BY <1>2, <1>3 DEF SimTypeOK, SchedUnchanged, tables, log, DispatchLabels
<1>5. SemaphoresCountQueues'
  BY <1>1, <1>2, <1>3 DEF SimInv, SemaphoresCountQueues, SchedUnchanged, tables, SimTypeOK, Flag
<1>6. OneOwner'
  <2>1. OnCpu = {} /\ OnCpu' = {p} /\ OnIo' = OnIo /\ Retired' = Retired
    BY <1>3 DEF OnCpu, OnIo, Retired, SchedUnchanged, tables
  <2> QED  BY <1>2, <1>3, <2>1 DEF SimInv, OneOwner, Apart, SchedUnchanged, tables
<1>7. StatusByPlace'
  BY <1>2, <1>3 DEF SimInv, StatusByPlace, SchedUnchanged, tables
<1>8. BurstsInStep'
  BY <1>3 DEF SimInv, BurstsInStep, SchedUnchanged, tables
<1>9. ThreadsStarted'
  BY <1>3 DEF SimInv, ThreadsStarted, SchedUnchanged, tables
<1> QED  BY <1>4, <1>5, <1>6, <1>7, <1>8, <1>9 DEF SimInv

LEMMA DispatchInv ==
    ASSUME NEW CONSTANT L, SimTypeOK(L), SimInv, dispatch
    PROVE  SimTypeOK(L)' /\ SimInv'
  BY SchedLooksInv, SchedRemoveInv DEF dispatch

(* Whoever is on the CPU or doing I/O is a created process, hence one the  *)
(* process table has an entry for.                                         *)
LEMMA OwnedIsProcess ==
    ASSUME NEW CONSTANT L, SimTypeOK(L), SimInv
    PROVE  /\ OnCpu # {} => running_pd \in Pids /\ OnCpu = {running_pd}
           /\ OnIo # {} => sleeping_pd \in Pids /\ OnIo = {sleeping_pd}
<1>1. OnCpu \cup OnIo \subseteq 0 .. T_PROCESS - 1
  BY DEF SimInv, OneOwner
<1>2. 0 .. T_PROCESS - 1 \subseteq Pids
  BY TotalAssumption DEF SimTypeOK, Pids
<1> QED  BY <1>1, <1>2 DEF OnCpu, OnIo

(* Retiring changes the status of one process, and its turnaround time.    *)
LEMMA RetireFacts ==
    ASSUME pd \in [Pids -> process_t], NEW p \in Pids, retire(p)
    PROVE  /\ pd' \in [Pids -> process_t]
           /\ Retired' = Retired \cup {p}
           /\ pd'[p].status = "TERMINATED"
           /\ \A q \in Pids : /\ q # p => pd'[q] = pd[q]
                              /\ pd'[q].cpu_index = pd[q].cpu_index
                              /\ pd'[q].io_index = pd[q].io_index
<1>1. pd[p] \in process_t
  OBVIOUS
<1>2. pd' = [pd EXCEPT ![p] = [pd[p] EXCEPT !.status = "TERMINATED",
                                            !.turnaround_time = pd[p].process_time]]
  BY DEF retire
<1>3. [pd[p] EXCEPT !.status = "TERMINATED", !.turnaround_time = pd[p].process_time] \in process_t
  BY <1>1 DEF process_t
<1>4. /\ pd'[p].status = "TERMINATED"
      /\ pd'[p].cpu_index = pd[p].cpu_index /\ pd'[p].io_index = pd[p].io_index
  BY <1>1, <1>2 DEF process_t
<1>5. pd' \in [Pids -> process_t] /\ \A q \in Pids : q # p => pd'[q] = pd[q]
  BY <1>2, <1>3
<1>6. Retired' = Retired \cup {p}
  BY <1>4, <1>5 DEF Retired
<1> QED  BY <1>4, <1>5, <1>6

LEMMA CpuFinishedInv ==
    ASSUME NEW CONSTANT L, SimTypeOK(L), SimInv, CpuFinished
    PROVE  SimTypeOK(L)' /\ SimInv'
<1>1. /\ sched_pc = "cpu" /\ sched_pc' = "retire"
      /\ TERMINATED_PROCESS' = TERMINATED_PROCESS + 1
      /\ UNCHANGED <<pd, queues, wait_count, global_counter, running_pd, log>> /\ CpuUnchanged
  BY DEF CpuFinished, SchedStep
<1>2. SimTypeOK(L)'
  <2>1. TERMINATED_PROCESS' \in Nat
    BY <1>1 DEF SimTypeOK
  <2> QED  BY <1>1, <2>1 DEF SimTypeOK, CpuUnchanged, queues, log, DispatchLabels
<1>3. SemaphoresCountQueues'
  BY <1>1 DEF SimInv, SemaphoresCountQueues, CpuUnchanged, queues, Flag
<1>4. OneOwner'
  BY <1>1, PlacesUnchanged DEF SimInv, CpuUnchanged, queues, OnCpu, OnIo
<1>5. StatusByPlace'
  BY <1>1 DEF SimInv, StatusByPlace, CpuUnchanged, queues
<1>6. BurstsInStep'
  BY <1>1 DEF SimInv, BurstsInStep, CpuUnchanged
<1>7. ThreadsStarted'
  BY <1>1 DEF SimInv, ThreadsStarted, CpuUnchanged
<1> QED  BY <1>2, <1>3, <1>4, <1>5, <1>6, <1>7 DEF SimInv

LEMMA CpuRetireInv ==
    ASSUME NEW CONSTANT L, SimTypeOK(L), SimInv, CpuRetire
    PROVE  SimTypeOK(L)' /\ SimInv'
<1>1. /\ sched_pc = "retire" /\ sched_pc' = "check" /\ retire(running_pd)
      /\ UNCHANGED <<queues, wait_count, global_counter, TERMINATED_PROCESS, running_pd, log>>
      /\ CpuUnchanged
  BY DEF CpuRetire, SchedStep
<1>2. running_pd \in Pids /\ OnCpu = {running_pd} /\ OnCpu' = {} /\ OnIo' = OnIo
  BY <1>1, OwnedIsProcess DEF OnCpu, OnIo, CpuUnchanged
<1>3. /\ pd' \in [Pids -> process_t]
      /\ Retired' = Retired \cup {running_pd}
      /\ pd'[running_pd].status = "TERMINATED"
      /\ \A q \in Pids : /\ q # running_pd => pd'[q] = pd[q]
                         /\ pd'[q].cpu_index = pd[q].cpu_index
                         /\ pd'[q].io_index = pd[q].io_index
  BY <1>1, <1>2, RetireFacts DEF SimTypeOK
<1>4. SimTypeOK(L)'
  BY <1>1, <1>3 DEF SimTypeOK, CpuUnchanged, queues, log, DispatchLabels
<1>5. SemaphoresCountQueues'
  BY <1>1 DEF SimInv, SemaphoresCountQueues, CpuUnchanged, queues, Flag
<1>6. OneOwner'
  BY <1>1, <1>2, <1>3 DEF SimInv, OneOwner, Apart, CpuUnchanged, queues
<1>7. StatusByPlace'
  <2>1. \A q \in Carried(readyQueue) \cup Carried(waitQueue) \cup OnIo : pd'[q] = pd[q]
    <3>1. \A q \in Carried(readyQueue) \cup Carried(waitQueue) \cup OnIo :
            q \in Pids /\ q # running_pd
      BY <1>2, TotalAssumption DEF SimInv, OneOwner, Apart, SimTypeOK, Pids
    <3> QED  BY <1>3, <3>1
  <2> QED  BY <1>1, <2>1 DEF SimInv, StatusByPlace, OnIo, CpuUnchanged, queues
<1>8. BurstsInStep'
  BY <1>1, <1>3 DEF SimInv, BurstsInStep, CpuUnchanged
<1>9. ThreadsStarted'
  BY <1>1 DEF SimInv, ThreadsStarted, CpuUnchanged
<1> QED  BY <1>4, <1>5, <1>6, <1>7, <1>8, <1>9 DEF SimInv

(* The steps of a policy's _process_cpu while the burst is being served:   *)
(* they change the running process's counters, its priority, or NEW to     *)
(* READY, and nothing another thread decides by.                           *)
Serving == {"cpu", "run", "end", "compare", "preempt", "requeue"}

LEMMA ServingHoldsCpu ==
    ASSUME sched_pc \in Serving \cup {"enqueue"}
    PROVE  OnCpu = {running_pd}
<1>1. CASE sched_pc = "cpu"
  BY <1>1 DEF OnCpu
<1>2. CASE sched_pc = "run"
  BY <1>2 DEF OnCpu
<1>3. CASE sched_pc = "end"
  BY <1>3 DEF OnCpu
<1>4. CASE sched_pc = "compare"
  BY <1>4 DEF OnCpu
<1>5. CASE sched_pc = "preempt"
  BY <1>5 DEF OnCpu
<1>6. CASE sched_pc = "requeue"
  BY <1>6 DEF OnCpu
<1>7. CASE sched_pc = "enqueue"
  BY <1>7 DEF OnCpu
<1> QED  BY <1>1, <1>2, <1>3, <1>4, <1>5, <1>6, <1>7 DEF Serving

LEMMA ServingHoldsCpuNext ==
    ASSUME sched_pc' \in Serving \cup {"enqueue"}
    PROVE  OnCpu' = {running_pd'}
<1>1. CASE sched_pc' = "cpu"
  BY <1>1 DEF OnCpu
<1>2. CASE sched_pc' = "run"
  BY <1>2 DEF OnCpu
<1>3. CASE sched_pc' = "end"
  BY <1>3 DEF OnCpu
<1>4. CASE sched_pc' = "compare"
  BY <1>4 DEF OnCpu
<1>5. CASE sched_pc' = "preempt"
  BY <1>5 DEF OnCpu
<1>6. CASE sched_pc' = "requeue"
  BY <1>6 DEF OnCpu
<1>7. CASE sched_pc' = "enqueue"
  BY <1>7 DEF OnCpu
<1> QED  BY <1>1, <1>2, <1>3, <1>4, <1>5, <1>6, <1>7 DEF Serving

LEMMA ServeInv ==
    ASSUME NEW CONSTANT L, SimTypeOK(L), SimInv, NEW served \in process_t,
           sched_pc \in Serving, sched_pc' \in L, sched_pc' \in Serving \ {"cpu"},
           pd' = [pd EXCEPT ![running_pd] = served],
           served.status \in {"NEW", "READY"},
           pd[running_pd].status = "READY" => served.status = "READY",
           served.cpu_index = pd[running_pd].cpu_index,
           served.io_index = pd[running_pd].io_index,
           served.cpu_index < Len(process_d[running_pd].cpu_burst),
           global_counter' \in Nat, start_time' \in Nat, end_time' \in Nat,
           task_log' \in Seq(LogLine),
           UNCHANGED <<queues, wait_count, TERMINATED_PROCESS, running_pd>>, CpuUnchanged
    PROVE  SimTypeOK(L)' /\ SimInv' /\ Retired' = Retired
<1> DEFINE p == running_pd
<1>1. p \in Pids /\ OnCpu = {p} /\ OnCpu' = OnCpu /\ OnIo' = OnIo
  <2>1. sched_pc \in Serving \cup {"enqueue"} /\ sched_pc' \in Serving \cup {"enqueue"}
    OBVIOUS
  <2>2. OnCpu = {p}
    BY <2>1, ServingHoldsCpu
  <2>3. OnCpu' = {p}
    BY <2>1, ServingHoldsCpuNext
  <2> QED  BY <2>2, <2>3, OwnedIsProcess DEF OnIo, CpuUnchanged
<1>2. pd \in [Pids -> process_t] /\ pd[p].status \in {"NEW", "READY"}
  BY DEF SimTypeOK, SimInv, StatusByPlace, Serving
<1>3. pd' \in [Pids -> process_t] /\ pd'[p] = served /\ \A q \in Pids : q # p => pd'[q] = pd[q]
  BY <1>1, <1>2
<1>4. \A q \in Carried(readyQueue) \cup Carried(waitQueue) \cup OnIo :
        q \in Pids /\ pd'[q] = pd[q]
  <2>1. \A q \in Carried(readyQueue) \cup Carried(waitQueue) \cup OnIo : q \in Pids /\ q # p
    BY <1>1, TotalAssumption DEF SimInv, OneOwner, Apart, SimTypeOK, Pids
  <2> QED  BY <1>3, <2>1
<1>5. Retired' = Retired
  BY <1>2, <1>3 DEF Retired
<1>6. SimTypeOK(L)'
  BY <1>3 DEF SimTypeOK, CpuUnchanged, queues
<1>7. SemaphoresCountQueues'
  BY DEF SimInv, SemaphoresCountQueues, CpuUnchanged, queues, Flag, Serving
<1>8. OneOwner'
  BY <1>1, <1>5 DEF SimInv, OneOwner, CpuUnchanged, queues
<1>9. StatusByPlace'
  BY <1>3, <1>1, <1>4 DEF SimInv, StatusByPlace, OnIo, CpuUnchanged, queues, Serving
<1>10. BurstsInStep'
  <2>1. ASSUME NEW q \in Pids
        PROVE  /\ pd'[q].status \in {"NEW", "READY"} => pd'[q].cpu_index = pd'[q].io_index
               /\ pd'[q].status = "NEW" => pd'[q].cpu_index = 0
               /\ pd'[q].status = "SLEEP" => pd'[q].cpu_index = pd'[q].io_index + 1
    <3>1. CASE q = p
      BY <1>1, <1>2, <1>3, <3>1 DEF SimInv, BurstsInStep
    <3>2. CASE q # p
      BY <1>3, <3>2 DEF SimInv, BurstsInStep
    <3> QED  BY <3>1, <3>2
  <2> QED  BY <1>3, <2>1 DEF BurstsInStep, CpuUnchanged
<1>11. ThreadsStarted'
  BY DEF SimInv, ThreadsStarted, CpuUnchanged, Serving
<1> QED  BY <1>5, <1>6, <1>7, <1>8, <1>9, <1>10, <1>11 DEF SimInv

(* The burst is over: the index moves and the process sleeps.              *)
LEMMA BurstOverInv ==
    ASSUME NEW CONSTANT L, SimTypeOK(L), SimInv, NEW slept \in process_t,
           sched_pc \in Serving \ {"cpu"}, sched_pc' = "enqueue",
           pd' = [pd EXCEPT ![running_pd] = slept],
           slept.status = "SLEEP",
           slept.cpu_index = pd[running_pd].cpu_index + 1,
           slept.io_index = pd[running_pd].io_index,
           end_time' = global_counter,
           UNCHANGED <<queues, wait_count, global_counter, TERMINATED_PROCESS, running_pd,
                       start_time, task_log>>,
           CpuUnchanged
    PROVE  SimTypeOK(L)' /\ SimInv' /\ Retired' = Retired
<1> DEFINE p == running_pd
<1>1. p \in Pids /\ OnCpu = {p} /\ OnCpu' = OnCpu /\ OnIo' = OnIo
  <2>1. sched_pc \in Serving \cup {"enqueue"} /\ sched_pc' \in Serving \cup {"enqueue"}
    OBVIOUS
  <2>2. OnCpu = {p}
    BY <2>1, ServingHoldsCpu
  <2>3. OnCpu' = {p}
    BY <2>1, ServingHoldsCpuNext
  <2> QED  BY <2>2, <2>3, OwnedIsProcess DEF OnIo, CpuUnchanged
<1>2. pd \in [Pids -> process_t] /\ pd[p].status \in {"NEW", "READY"}
  BY DEF SimTypeOK, SimInv, StatusByPlace, Serving
<1>3. pd' \in [Pids -> process_t] /\ pd'[p] = slept /\ \A q \in Pids : q # p => pd'[q] = pd[q]
  BY <1>1, <1>2
<1>4. \A q \in Carried(readyQueue) \cup Carried(waitQueue) \cup OnIo :
        q \in Pids /\ pd'[q] = pd[q]
  <2>1. \A q \in Carried(readyQueue) \cup Carried(waitQueue) \cup OnIo : q \in Pids /\ q # p
    BY <1>1, TotalAssumption DEF SimInv, OneOwner, Apart, SimTypeOK, Pids
  <2> QED  BY <1>3, <2>1
<1>5. Retired' = Retired
  BY <1>2, <1>3 DEF Retired
<1>6. SimTypeOK(L)'
  <2>1. sched_pc' \in DispatchLabels
    BY DEF DispatchLabels
  <2> QED  BY <1>3, <2>1 DEF SimTypeOK, CpuUnchanged, queues
<1>7. SemaphoresCountQueues'
  BY DEF SimInv, SemaphoresCountQueues, CpuUnchanged, queues, Flag, Serving
<1>8. OneOwner'
  BY <1>1, <1>5 DEF SimInv, OneOwner, CpuUnchanged, queues
<1>9. StatusByPlace'
  BY <1>1, <1>3, <1>4 DEF SimInv, StatusByPlace, OnIo, CpuUnchanged, queues
<1>10. BurstsInStep'
  <2>1. ASSUME NEW q \in Pids
        PROVE  /\ pd'[q].status \in {"NEW", "READY"} => pd'[q].cpu_index = pd'[q].io_index
               /\ pd'[q].status = "NEW" => pd'[q].cpu_index = 0
               /\ pd'[q].status = "SLEEP" => pd'[q].cpu_index = pd'[q].io_index + 1
    <3>1. CASE q = p
      BY <1>1, <1>2, <1>3, <3>1 DEF SimInv, BurstsInStep
    <3>2. CASE q # p
      BY <1>3, <3>2 DEF SimInv, BurstsInStep
    <3> QED  BY <3>1, <3>2
  <2> QED  BY <2>1 DEF BurstsInStep
<1>11. ThreadsStarted'
  BY DEF SimInv, ThreadsStarted, CpuUnchanged, Serving
<1> QED  BY <1>5, <1>6, <1>7, <1>8, <1>9, <1>10, <1>11 DEF SimInv

LEMMA CpuEnqueueInv ==
    ASSUME NEW CONSTANT L, SimTypeOK(L), SimInv, CpuEnqueue
    PROVE  SimTypeOK(L)' /\ SimInv'
<1>1. /\ sched_pc = "enqueue" /\ sched_pc' = "post"
      /\ waitQueue' = AddTo(waitQueue, running_pd, pd[running_pd].priority)
      /\ UNCHANGED <<pd, readyQueue, wait_count, global_counter, TERMINATED_PROCESS, running_pd,
                     log>>
      /\ CpuUnchanged
  BY DEF CpuEnqueue, SchedStep
<1>2. /\ running_pd \in Pids /\ OnCpu = {running_pd} /\ OnCpu' = {}
      /\ OnIo' = OnIo /\ Retired' = Retired
  BY <1>1, OwnedIsProcess DEF OnCpu, OnIo, Retired, CpuUnchanged
<1>3. /\ waitQueue' \in Seq(Node) /\ Len(waitQueue') = Len(waitQueue) + 1
      /\ Carried(waitQueue') = Carried(waitQueue) \cup {running_pd}
      /\ NoDuplicates(waitQueue')
  <2>1. waitQueue \in Seq(Node) /\ pd[running_pd].priority \in Int
    BY <1>2 DEF SimTypeOK, process_t
  <2>2. NoDuplicates(waitQueue) /\ running_pd \notin Carried(waitQueue)
    BY <1>2 DEF SimInv, OneOwner, Apart
  <2>3. waitQueue' = AddTo(waitQueue, running_pd, pd[running_pd].priority)
    BY <1>1
  <2> QED  BY <1>2, <2>1, <2>2, <2>3, AddToFacts
<1>4. SimTypeOK(L)'
  BY <1>1, <1>3 DEF SimTypeOK, CpuUnchanged, log, DispatchLabels
<1>5. SemaphoresCountQueues'
  <2>1. Len(waitQueue) = wait_count + Flag(wake_pc = "remove") + 0
    BY <1>1 DEF SimInv, SemaphoresCountQueues, Flag
  <2>2. Len(waitQueue') = wait_count' + Flag(wake_pc' = "remove") + 1
    BY <1>1, <1>3, <2>1 DEF SimTypeOK, Flag, CpuUnchanged
  <2> QED  BY <1>1, <2>2 DEF SimInv, SemaphoresCountQueues, CpuUnchanged, Flag
<1>6. OneOwner'
  BY <1>1, <1>2, <1>3 DEF SimInv, OneOwner, Apart, CpuUnchanged
<1>7. StatusByPlace'
  BY <1>1, <1>3 DEF SimInv, StatusByPlace, CpuUnchanged
<1>8. BurstsInStep'
  BY <1>1 DEF SimInv, BurstsInStep, CpuUnchanged
<1>9. ThreadsStarted'
  BY <1>1, <1>2 DEF SimInv, ThreadsStarted, CpuUnchanged
<1> QED  BY <1>4, <1>5, <1>6, <1>7, <1>8, <1>9 DEF SimInv

LEMMA CpuPostInv ==
    ASSUME NEW CONSTANT L, SimTypeOK(L), SimInv, CpuPost
    PROVE  SimTypeOK(L)' /\ SimInv'
<1>1. /\ sched_pc = "post" /\ sched_pc' = "log" /\ wait_count' = wait_count + 1
      /\ UNCHANGED <<pd, queues, global_counter, TERMINATED_PROCESS, running_pd, log>>
      /\ CpuUnchanged
  BY DEF CpuPost, SchedStep
<1>2. SimTypeOK(L)'
  <2>1. wait_count' \in Nat
    BY <1>1 DEF SimTypeOK
  <2> QED  BY <1>1, <2>1 DEF SimTypeOK, CpuUnchanged, queues, log, DispatchLabels
<1>3. SemaphoresCountQueues'
  <2>1. Len(waitQueue) = wait_count + Flag(wake_pc = "remove") + 1
    BY <1>1 DEF SimInv, SemaphoresCountQueues, Flag
  <2>2. Len(waitQueue') = wait_count' + Flag(wake_pc' = "remove") + 0
    BY <1>1, <2>1 DEF SimTypeOK, Flag, CpuUnchanged, queues
  <2> QED  BY <1>1, <2>2 DEF SimInv, SemaphoresCountQueues, CpuUnchanged, queues, Flag
<1>4. OneOwner'
  BY <1>1, PlacesUnchanged DEF SimInv, CpuUnchanged, queues, OnCpu, OnIo
<1>5. StatusByPlace'
  BY <1>1 DEF SimInv, StatusByPlace, CpuUnchanged, queues
<1>6. BurstsInStep'
  BY <1>1 DEF SimInv, BurstsInStep, CpuUnchanged
<1>7. ThreadsStarted'
  BY <1>1 DEF SimInv, ThreadsStarted, CpuUnchanged
<1> QED  BY <1>2, <1>3, <1>4, <1>5, <1>6, <1>7 DEF SimInv

LEMMA CpuLogInv ==
    ASSUME NEW CONSTANT L, SimTypeOK(L), SimInv, CpuLog
    PROVE  SimTypeOK(L)' /\ SimInv'
<1>1. /\ sched_pc = "log" /\ sched_pc' = "check"
      /\ task_log' = Append(task_log, LogLineOf(running_pd, end_time))
      /\ UNCHANGED <<pd, queues, wait_count, global_counter, TERMINATED_PROCESS, running_pd,
                     start_time, end_time>>
      /\ CpuUnchanged
  BY DEF CpuLog, SchedStep
<1>2. SimTypeOK(L)'
  <2>1. running_pd \in Pids
    BY <1>1 DEF SimInv, ThreadsStarted
  <2>2. LogLineOf(running_pd, end_time) \in LogLine
    BY <2>1 DEF SimTypeOK, LogLineOf, LogLine, process_t
  <2>3. task_log' \in Seq(LogLine)
    BY <1>1, <2>2 DEF SimTypeOK
  <2> QED  BY <1>1, <2>3 DEF SimTypeOK, CpuUnchanged, queues, DispatchLabels
<1>3. SemaphoresCountQueues'
  BY <1>1 DEF SimInv, SemaphoresCountQueues, CpuUnchanged, queues, Flag
<1>4. OneOwner'
  BY <1>1, PlacesUnchanged DEF SimInv, CpuUnchanged, queues, OnCpu, OnIo
<1>5. StatusByPlace'
  BY <1>1 DEF SimInv, StatusByPlace, CpuUnchanged, queues
<1>6. BurstsInStep'
  BY <1>1 DEF SimInv, BurstsInStep, CpuUnchanged
<1>7. ThreadsStarted'
  BY <1>1 DEF SimInv, ThreadsStarted, CpuUnchanged
<1> QED  BY <1>2, <1>3, <1>4, <1>5, <1>6, <1>7 DEF SimInv
-----------------------------------------------------------------------------
(* The wake-up thread. *)

LEMMA WakeLooksInv ==
    ASSUME NEW CONSTANT L, SimTypeOK(L), SimInv, WakeCheck \/ WakeTryWait
    PROVE  SimTypeOK(L)' /\ SimInv'
<1>1. /\ UNCHANGED <<pd, queues, ready_count, global_counter, TERMINATED_PROCESS, sleeping_pd>>
      /\ WakeUnchanged
      /\ wake_pc \in {"check", "trywait"} /\ wake_pc' \in {"check", "trywait", "remove", "exit"}
  BY DEF WakeCheck, WakeTryWait, WakeStep, semaphores
<1>2. \/ wait_count' = wait_count /\ wake_pc' # "remove"
      \/ wait_count > 0 /\ wait_count' = wait_count - 1 /\ wake_pc' = "remove"
  BY DEF WakeCheck, WakeTryWait, WakeStep, semaphores
<1>3. SimTypeOK(L)'
  <2>1. wait_count' \in Nat
    <3>1. wait_count \in Nat
      BY DEF SimTypeOK
    <3> QED  BY <1>2, <3>1
  <2> QED  BY <1>1, <2>1 DEF SimTypeOK, WakeUnchanged, queues, log
<1>4. SemaphoresCountQueues'
  <2>1. wait_count' + Flag(wake_pc' = "remove") = wait_count + Flag(wake_pc = "remove")
    <3>1. wait_count \in Nat /\ wake_pc # "remove"
      BY <1>1 DEF SimTypeOK
    <3> QED  BY <1>2, <3>1 DEF Flag
  <2>2. wake_pc # "post" /\ wake_pc' # "post"
    BY <1>1
  <2> QED  BY <1>1, <2>1, <2>2 DEF SimInv, SemaphoresCountQueues, WakeUnchanged, queues, Flag
<1>5. OneOwner'
  BY <1>1, PlacesUnchanged DEF SimInv, WakeUnchanged, queues, OnCpu, OnIo
<1>6. StatusByPlace'
  BY <1>1 DEF SimInv, StatusByPlace, WakeUnchanged, queues
<1>7. BurstsInStep'
  BY <1>1 DEF SimInv, BurstsInStep, WakeUnchanged
<1>8. ThreadsStarted'
  BY <1>1 DEF SimInv, ThreadsStarted, WakeUnchanged
<1> QED  BY <1>3, <1>4, <1>5, <1>6, <1>7, <1>8 DEF SimInv

LEMMA WakeRemoveInv ==
    ASSUME NEW CONSTANT L, SimTypeOK(L), SimInv, WakeRemove
    PROVE  SimTypeOK(L)' /\ SimInv'
<1> DEFINE r == dequeue(waitQueue)
           p == dequeued(waitQueue)
<1>1. waitQueue \in Seq(Node) /\ Len(waitQueue) \in Nat /\ Len(waitQueue) # 0
  BY LenProperties DEF SimTypeOK, SimInv, SemaphoresCountQueues, WakeRemove, WakeStep, Flag
<1>2. /\ r \in Seq(Node) /\ p \in Pids /\ p # NULL
      /\ Len(r) = Len(waitQueue) - 1
      /\ Carried(waitQueue) = Carried(r) \cup {p}
      /\ NoDuplicates(r) /\ p \notin Carried(r)
  BY <1>1, RemoveFacts DEF SimInv, OneOwner
<1>3. /\ wake_pc = "remove" /\ wake_pc' = "io" /\ waitQueue' = r /\ sleeping_pd' = p
      /\ UNCHANGED <<pd, readyQueue, semaphores, global_counter, TERMINATED_PROCESS>>
      /\ WakeUnchanged
  BY <1>2 DEF WakeRemove, WakeStep
<1> HIDE DEF r, p
<1>4. SimTypeOK(L)'
  BY <1>2, <1>3 DEF SimTypeOK, WakeUnchanged, semaphores, log
<1>5. SemaphoresCountQueues'
  BY <1>1, <1>2, <1>3 DEF SimInv, SemaphoresCountQueues, WakeUnchanged, semaphores, SimTypeOK, Flag
<1>6. OneOwner'
  <2>1. OnIo = {} /\ OnIo' = {p} /\ OnCpu' = OnCpu /\ Retired' = Retired
    BY <1>3 DEF OnCpu, OnIo, Retired, WakeUnchanged
  <2> QED  BY <1>2, <1>3, <2>1 DEF SimInv, OneOwner, Apart, WakeUnchanged
<1>7. StatusByPlace'
  BY <1>2, <1>3 DEF SimInv, StatusByPlace, WakeUnchanged
<1>8. BurstsInStep'
  BY <1>3 DEF SimInv, BurstsInStep, WakeUnchanged
<1>9. ThreadsStarted'
  BY <1>3 DEF SimInv, ThreadsStarted, WakeUnchanged
<1> QED  BY <1>4, <1>5, <1>6, <1>7, <1>8, <1>9 DEF SimInv

LEMMA IoFinishedInv ==
    ASSUME NEW CONSTANT L, SimTypeOK(L), SimInv, IoFinished
    PROVE  SimTypeOK(L)' /\ SimInv'
<1>1. /\ wake_pc = "io" /\ wake_pc' = "retire"
      /\ TERMINATED_PROCESS' = TERMINATED_PROCESS + 1
      /\ UNCHANGED <<pd, queues, semaphores, global_counter, sleeping_pd>> /\ WakeUnchanged
  BY DEF IoFinished, WakeStep
<1>2. SimTypeOK(L)'
  <2>1. TERMINATED_PROCESS' \in Nat
    BY <1>1 DEF SimTypeOK
  <2> QED  BY <1>1, <2>1 DEF SimTypeOK, WakeUnchanged, queues, semaphores, log
<1>3. SemaphoresCountQueues'
  BY <1>1 DEF SimInv, SemaphoresCountQueues, WakeUnchanged, queues, semaphores, Flag
<1>4. OneOwner'
  BY <1>1, PlacesUnchanged DEF SimInv, WakeUnchanged, queues, OnCpu, OnIo
<1>5. StatusByPlace'
  BY <1>1 DEF SimInv, StatusByPlace, WakeUnchanged, queues
<1>6. BurstsInStep'
  BY <1>1 DEF SimInv, BurstsInStep, WakeUnchanged
<1>7. ThreadsStarted'
  BY <1>1 DEF SimInv, ThreadsStarted, WakeUnchanged
<1> QED  BY <1>2, <1>3, <1>4, <1>5, <1>6, <1>7 DEF SimInv

LEMMA IoRetireInv ==
    ASSUME NEW CONSTANT L, SimTypeOK(L), SimInv, IoRetire
    PROVE  SimTypeOK(L)' /\ SimInv'
<1>1. /\ wake_pc = "retire" /\ wake_pc' = "check" /\ retire(sleeping_pd)
      /\ UNCHANGED <<queues, semaphores, global_counter, TERMINATED_PROCESS, sleeping_pd>>
      /\ WakeUnchanged
  BY DEF IoRetire, WakeStep
<1>2. sleeping_pd \in Pids /\ OnIo = {sleeping_pd} /\ OnIo' = {} /\ OnCpu' = OnCpu
  BY <1>1, OwnedIsProcess DEF OnCpu, OnIo, WakeUnchanged
<1>3. /\ pd' \in [Pids -> process_t]
      /\ Retired' = Retired \cup {sleeping_pd}
      /\ pd'[sleeping_pd].status = "TERMINATED"
      /\ \A q \in Pids : /\ q # sleeping_pd => pd'[q] = pd[q]
                         /\ pd'[q].cpu_index = pd[q].cpu_index
                         /\ pd'[q].io_index = pd[q].io_index
  BY <1>1, <1>2, RetireFacts DEF SimTypeOK
<1>4. SimTypeOK(L)'
  BY <1>1, <1>3 DEF SimTypeOK, WakeUnchanged, queues, semaphores, log
<1>5. SemaphoresCountQueues'
  BY <1>1 DEF SimInv, SemaphoresCountQueues, WakeUnchanged, queues, semaphores, Flag
<1>6. OneOwner'
  BY <1>1, <1>2, <1>3 DEF SimInv, OneOwner, Apart, WakeUnchanged, queues
<1>7. \A q \in Carried(readyQueue) \cup Carried(waitQueue) \cup OnCpu :
        q \in Pids /\ pd'[q] = pd[q]
  <2>1. \A q \in Carried(readyQueue) \cup Carried(waitQueue) \cup OnCpu :
          q \in Pids /\ q # sleeping_pd
    BY <1>2, TotalAssumption DEF SimInv, OneOwner, Apart, SimTypeOK, Pids
  <2> QED  BY <1>3, <2>1
<1>8. StatusByPlace'
  BY <1>1, <1>7 DEF SimInv, StatusByPlace, OnCpu, WakeUnchanged, queues
<1>9. BurstsInStep'
  BY <1>1, <1>3, <1>7 DEF SimInv, BurstsInStep, OnCpu, WakeUnchanged
<1>10. ThreadsStarted'
  BY <1>1 DEF SimInv, ThreadsStarted, WakeUnchanged
<1> QED  BY <1>4, <1>5, <1>6, <1>8, <1>9, <1>10 DEF SimInv

(* A line of a burst file, and what alternation says of its two lengths.   *)
LEMMA LineFacts ==
    ASSUME NEW CONSTANT L, SimTypeOK(L), NEW p \in Pids
    PROVE  /\ process_d[p].cpu_burst \in Seq(Nat) /\ process_d[p].io_burst \in Seq(Nat)
           /\ Len(process_d[p].cpu_burst) \in Nat /\ Len(process_d[p].io_burst) \in Nat
           /\ Len(process_d[p].io_burst) <= Len(process_d[p].cpu_burst)
           /\ Len(process_d[p].cpu_burst) <= Len(process_d[p].io_burst) + 1
           /\ pd[p] \in process_t
<1>1. process_d[p] \in burst_line /\ Alternates(process_d[p])
  BY WorkloadAssumption DEF SimTypeOK
<1>2. process_d[p].cpu_burst \in Seq(Nat) /\ process_d[p].io_burst \in Seq(Nat)
  BY <1>1 DEF burst_line
<1>3. pd[p] \in process_t
  BY DEF SimTypeOK
<1> QED  BY <1>1, <1>2, <1>3, LenProperties DEF Alternates

LEMMA RunningFacts ==
    ASSUME NEW CONSTANT L, SimTypeOK(L), SimInv, sched_pc \in Serving
    PROVE  /\ running_pd \in Pids /\ pd \in [Pids -> process_t]
           /\ pd[running_pd] \in process_t /\ pd[running_pd].status \in {"NEW", "READY"}
           /\ sched_pc # "cpu" =>
                pd[running_pd].cpu_index < Len(process_d[running_pd].cpu_burst)
<1>1. running_pd \in Pids
  BY ServingHoldsCpu, OwnedIsProcess
<1> QED  BY <1>1 DEF SimTypeOK, SimInv, StatusByPlace, BurstsInStep, Serving

LEMMA NextRemainingIsInt ==
    ASSUME NEW CONSTANT L, SimTypeOK(L), NEW p \in Pids
    PROVE  NextRemaining(p) \in Int
<1> DEFINE next == pd[p].cpu_index + 1
           cpu == process_d[p].cpu_burst
<1>1. cpu \in Seq(Nat) /\ Len(cpu) \in Nat /\ pd[p] \in process_t
  BY LineFacts
<1>2. next \in Nat /\ next >= 1 /\ pd[p].remaining_time \in Int
  BY <1>1 DEF process_t
<1>3. CASE next < Len(cpu)
  <2>1. next + 1 \in 1 .. Len(cpu)
    BY <1>1, <1>2, <1>3
  <2>2. cpu[next + 1] \in Nat
    BY <1>1, <2>1, ElementOfSeq
  <2> QED  BY <1>3, <2>2 DEF NextRemaining
<1>4. CASE ~ (next < Len(cpu))
  BY <1>2, <1>4 DEF NextRemaining
<1> QED  BY <1>3, <1>4

(* The guards of _should_terminate are enough to index the burst arrays.   *)
LEMMA BurstIndices ==
    ASSUME NEW CONSTANT L, SimTypeOK(L), SimInv
    PROVE  BurstIndexInBounds
<1>1. ASSUME sched_pc = "cpu", ~ should_terminate(running_pd)
      PROVE  pd[running_pd].cpu_index < Len(process_d[running_pd].cpu_burst)
  <2> DEFINE c == Len(process_d[running_pd].cpu_burst)
             i == Len(process_d[running_pd].io_burst)
             m == pd[running_pd].cpu_index
             k == pd[running_pd].io_index
  <2>1. running_pd \in Pids
    BY <1>1, OwnedIsProcess DEF OnCpu
  <2>2. c \in Nat /\ i \in Nat /\ i <= c /\ m \in Nat /\ k \in Nat
    BY <2>1, LineFacts DEF process_t
  <2>3. m = k
    BY <1>1, <2>1 DEF SimInv, StatusByPlace, BurstsInStep
  <2>4. ~ (\/ c = 0
           \/ i = 0 /\ m >= c
           \/ i # 0 /\ ~ (m < c /\ k <= i) /\ ~ (m <= c /\ k < i))
    BY <1>1 DEF should_terminate
  <2> HIDE DEF c, i, m, k
  <2>5. m < c
    BY <2>2, <2>3, <2>4
  <2> QED  BY <2>5 DEF c, m
<1>2. ASSUME wake_pc = "io", ~ should_terminate(sleeping_pd)
      PROVE  pd[sleeping_pd].io_index < Len(process_d[sleeping_pd].io_burst)
  <2> DEFINE c == Len(process_d[sleeping_pd].cpu_burst)
             i == Len(process_d[sleeping_pd].io_burst)
             m == pd[sleeping_pd].cpu_index
             k == pd[sleeping_pd].io_index
  <2>1. sleeping_pd \in Pids
    BY <1>2, OwnedIsProcess DEF OnIo
  <2>2. c \in Nat /\ i \in Nat /\ c <= i + 1 /\ m \in Nat /\ k \in Nat
    BY <2>1, LineFacts DEF process_t
  <2>3. m = k + 1
    BY <1>2, <2>1 DEF SimInv, StatusByPlace, BurstsInStep
  <2>4. ~ (\/ c = 0
           \/ i = 0 /\ m >= c
           \/ i # 0 /\ ~ (m < c /\ k <= i) /\ ~ (m <= c /\ k < i))
    BY <1>2 DEF should_terminate
  <2> HIDE DEF c, i, m, k
  <2>5. k < i
    BY <2>2, <2>3, <2>4
  <2> QED  BY <2>5 DEF i, k
<1> QED  BY <1>1, <1>2 DEF BurstIndexInBounds, SimInv, BurstsInStep

LEMMA IoBurstDoneInv ==
    ASSUME NEW CONSTANT L, SimTypeOK(L), SimInv, IoBurstDone
    PROVE  SimTypeOK(L)' /\ SimInv'
<1> DEFINE p == sleeping_pd
           burst == IoBurst(p)
           served == [pd[p] EXCEPT !.io_time = @ + burst, !.process_time = @ + burst,
                                   !.io_index = @ + 1, !.status = "READY"]
<1>1. /\ wake_pc = "io" /\ ~ should_terminate(p)
      /\ UNCHANGED <<queues, semaphores, TERMINATED_PROCESS, sleeping_pd>> /\ WakeUnchanged
  BY DEF IoBurstDone
<1>2. p \in Pids /\ OnIo = {p} /\ OnCpu' = OnCpu
  BY <1>1, OwnedIsProcess DEF OnCpu, OnIo, WakeUnchanged
<1>3. pd \in [Pids -> process_t] /\ pd[p] \in process_t /\ pd[p].status = "SLEEP"
  BY <1>1, <1>2 DEF SimTypeOK, SimInv, StatusByPlace
<1>4. /\ wake_pc' = "enqueue" /\ global_counter' = global_counter + burst
      /\ pd' = [pd EXCEPT ![p] = served]
  BY <1>3 DEF IoBurstDone, WakeStep
<1>5. burst \in Nat
  <2>1. /\ process_d[p].io_burst \in Seq(Nat) /\ Len(process_d[p].io_burst) \in Nat
        /\ pd[p].io_index \in Nat
    BY <1>2, <1>3, LineFacts DEF process_t
  <2>2. pd[p].io_index < Len(process_d[p].io_burst)
    BY <1>1, BurstIndices DEF BurstIndexInBounds
  <2>3. pd[p].io_index + 1 \in 1 .. Len(process_d[p].io_burst)
    BY <2>1, <2>2
  <2> QED  BY <2>1, <2>3, ElementOfSeq DEF IoBurst
<1> HIDE DEF burst
<1>6. /\ served \in process_t /\ served.status = "READY" /\ served.io_index = pd[p].io_index + 1
      /\ served.cpu_index = pd[p].cpu_index
  <2>1. pd[p] \in process_t
    BY <1>3
  <2>2. pd[p].io_time \in Nat /\ pd[p].process_time \in Nat /\ pd[p].io_index \in Nat
    BY <2>1 DEF process_t
  <2>3. /\ pd[p].io_time + burst \in Nat /\ pd[p].process_time + burst \in Nat
        /\ pd[p].io_index + 1 \in Nat
    BY <1>5, <2>2
  <2> QED  BY <2>1, <2>3 DEF process_t
<1> HIDE DEF served
<1>7. /\ pd' \in [Pids -> process_t] /\ pd'[p] = served
      /\ \A q \in Pids : q # p => pd'[q] = pd[q]
  BY <1>2, <1>3, <1>4, <1>6
<1> HIDE DEF p
<1>8. \A q \in Carried(readyQueue) \cup Carried(waitQueue) \cup OnCpu :
        q \in Pids /\ pd'[q] = pd[q]
  <2>1. \A q \in Carried(readyQueue) \cup Carried(waitQueue) \cup OnCpu : q \in Pids /\ q # p
    BY <1>2, TotalAssumption DEF SimInv, OneOwner, Apart, SimTypeOK, Pids
  <2> QED  BY <1>7, <2>1
<1>9. SimTypeOK(L)'
  <2>1. global_counter' \in Nat
    BY <1>4, <1>5 DEF SimTypeOK
  <2> QED  BY <1>1, <1>4, <1>7, <2>1 DEF SimTypeOK, WakeUnchanged, queues, semaphores, log
<1>10. SemaphoresCountQueues'
  BY <1>1, <1>4 DEF SimInv, SemaphoresCountQueues, WakeUnchanged, queues, semaphores, Flag
<1>11. OneOwner'
  <2>1. Retired' = Retired /\ OnIo' = OnIo
    BY <1>1, <1>3, <1>4, <1>6, <1>7 DEF Retired, OnIo, p
  <2> QED  BY <1>1, <1>2, <2>1 DEF SimInv, OneOwner, WakeUnchanged, queues
<1>12. StatusByPlace'
  BY <1>1, <1>4, <1>6, <1>7, <1>8 DEF SimInv, StatusByPlace, OnCpu, WakeUnchanged, queues, p
<1>13. BurstsInStep'
  <2>1. /\ pd'[p].cpu_index = pd'[p].io_index /\ pd'[p].status = "READY"
    <3>1. pd[p].cpu_index = pd[p].io_index + 1
      BY <1>2, <1>3 DEF SimInv, BurstsInStep
    <3> QED  BY <1>6, <1>7, <3>1
  <2>2. \A q \in Pids :
          /\ pd'[q].status \in {"NEW", "READY"} => pd'[q].cpu_index = pd'[q].io_index
          /\ pd'[q].status = "NEW" => pd'[q].cpu_index = 0
          /\ pd'[q].status = "SLEEP" => pd'[q].cpu_index = pd'[q].io_index + 1
    <3> SUFFICES ASSUME NEW q \in Pids
                 PROVE  /\ pd'[q].status \in {"NEW", "READY"} =>
                             pd'[q].cpu_index = pd'[q].io_index
                        /\ pd'[q].status = "NEW" => pd'[q].cpu_index = 0
                        /\ pd'[q].status = "SLEEP" => pd'[q].cpu_index = pd'[q].io_index + 1
      OBVIOUS
    <3>1. CASE q = p
      BY <2>1, <3>1
    <3>2. CASE q # p
      BY <1>7, <3>2 DEF SimInv, BurstsInStep
    <3> QED  BY <3>1, <3>2
  <2> QED  BY <1>1, <1>8, <2>2 DEF SimInv, BurstsInStep, OnCpu, WakeUnchanged
<1>14. ThreadsStarted'
  BY <1>1, <1>4 DEF SimInv, ThreadsStarted, WakeUnchanged
<1> QED  BY <1>9, <1>10, <1>11, <1>12, <1>13, <1>14 DEF SimInv

LEMMA IoEnqueueInv ==
    ASSUME NEW CONSTANT L, SimTypeOK(L), SimInv, IoEnqueue
    PROVE  SimTypeOK(L)' /\ SimInv'
<1>1. /\ wake_pc = "enqueue" /\ wake_pc' = "post"
      /\ readyQueue' = AddTo(readyQueue, sleeping_pd, pd[sleeping_pd].priority)
      /\ UNCHANGED <<pd, waitQueue, semaphores, global_counter, TERMINATED_PROCESS, sleeping_pd>>
      /\ WakeUnchanged
  BY DEF IoEnqueue, WakeStep
<1>2. /\ sleeping_pd \in Pids /\ OnIo = {sleeping_pd} /\ OnIo' = {}
      /\ OnCpu' = OnCpu /\ Retired' = Retired
  BY <1>1, OwnedIsProcess DEF OnCpu, OnIo, Retired, WakeUnchanged
<1>3. /\ readyQueue' \in Seq(Node) /\ Len(readyQueue') = Len(readyQueue) + 1
      /\ Carried(readyQueue') = Carried(readyQueue) \cup {sleeping_pd}
      /\ NoDuplicates(readyQueue')
  <2>1. readyQueue \in Seq(Node) /\ pd[sleeping_pd].priority \in Int
    BY <1>2 DEF SimTypeOK, process_t
  <2>2. NoDuplicates(readyQueue) /\ sleeping_pd \notin Carried(readyQueue)
    BY <1>2 DEF SimInv, OneOwner, Apart
  <2>3. readyQueue' = AddTo(readyQueue, sleeping_pd, pd[sleeping_pd].priority)
    BY <1>1
  <2> QED  BY <1>2, <2>1, <2>2, <2>3, AddToFacts
<1>4. SimTypeOK(L)'
  BY <1>1, <1>3 DEF SimTypeOK, WakeUnchanged, semaphores, log
<1>5. SemaphoresCountQueues'
  <2>1. Len(readyQueue) = ready_count + Flag(sched_pc \in {"remove", "redispatch"}) + 0
    BY <1>1 DEF SimInv, SemaphoresCountQueues, Flag
  <2>2. Len(readyQueue') = ready_count' + Flag(sched_pc' \in {"remove", "redispatch"}) + 1
    BY <1>1, <1>3, <2>1 DEF SimTypeOK, Flag, WakeUnchanged, semaphores
  <2> QED  BY <1>1, <2>2 DEF SimInv, SemaphoresCountQueues, WakeUnchanged, semaphores, Flag
<1>6. OneOwner'
  BY <1>1, <1>2, <1>3 DEF SimInv, OneOwner, Apart, WakeUnchanged
<1>7. StatusByPlace'
  BY <1>1, <1>3 DEF SimInv, StatusByPlace, WakeUnchanged
<1>8. BurstsInStep'
  BY <1>1 DEF SimInv, BurstsInStep, WakeUnchanged
<1>9. ThreadsStarted'
  BY <1>1 DEF SimInv, ThreadsStarted, WakeUnchanged
<1> QED  BY <1>4, <1>5, <1>6, <1>7, <1>8, <1>9 DEF SimInv

LEMMA IoPostInv ==
    ASSUME NEW CONSTANT L, SimTypeOK(L), SimInv, IoPost
    PROVE  SimTypeOK(L)' /\ SimInv'
<1>1. /\ wake_pc = "post" /\ wake_pc' = "check" /\ ready_count' = ready_count + 1
      /\ UNCHANGED <<pd, queues, wait_count, global_counter, TERMINATED_PROCESS, sleeping_pd>>
      /\ WakeUnchanged
  BY DEF IoPost, WakeStep
<1>2. SimTypeOK(L)'
  <2>1. ready_count' \in Nat
    BY <1>1 DEF SimTypeOK
  <2> QED  BY <1>1, <2>1 DEF SimTypeOK, WakeUnchanged, queues, log
<1>3. SemaphoresCountQueues'
  <2>1. Len(readyQueue) = ready_count + Flag(sched_pc \in {"remove", "redispatch"}) + 1
    BY <1>1 DEF SimInv, SemaphoresCountQueues, Flag
  <2>2. Len(readyQueue') = ready_count' + Flag(sched_pc' \in {"remove", "redispatch"}) + 0
    BY <1>1, <2>1 DEF SimTypeOK, Flag, WakeUnchanged, queues
  <2> QED  BY <1>1, <2>2 DEF SimInv, SemaphoresCountQueues, WakeUnchanged, queues, Flag
<1>4. OneOwner'
  BY <1>1, PlacesUnchanged DEF SimInv, WakeUnchanged, queues, OnCpu, OnIo
<1>5. StatusByPlace'
  BY <1>1 DEF SimInv, StatusByPlace, WakeUnchanged, queues
<1>6. BurstsInStep'
  BY <1>1 DEF SimInv, BurstsInStep, WakeUnchanged
<1>7. ThreadsStarted'
  BY <1>1 DEF SimInv, ThreadsStarted, WakeUnchanged
<1> QED  BY <1>2, <1>3, <1>4, <1>5, <1>6, <1>7 DEF SimInv

LEMMA WakeUpInv ==
    ASSUME NEW CONSTANT L, SimTypeOK(L), SimInv, wakeUp
    PROVE  SimTypeOK(L)' /\ SimInv'
  BY WakeLooksInv, WakeRemoveInv, IoFinishedInv, IoRetireInv, IoBurstDoneInv, IoEnqueueInv,
     IoPostInv DEF wakeUp
-----------------------------------------------------------------------------
(* main and the arrival thread. *)

LEMMA MainInv ==
    ASSUME NEW CONSTANT L, SimTypeOK(L), SimInv, main
    PROVE  SimTypeOK(L)' /\ SimInv'
<1>1. /\ UNCHANGED <<tables, queues, semaphores, global_counter, TERMINATED_PROCESS,
                     running_pd, sleeping_pd, log>>
      /\ main_pc' \in {"create_wakeup", "join_wakeup", "join_scheduler", "write_result", "done"}
      /\ \/ UNCHANGED <<sched_pc, wake_pc>>
         \/ main_pc = "join_arrival" /\ sched_pc' = "check" /\ wake_pc' = wake_pc
         \/ main_pc = "create_wakeup" /\ wake_pc' = "check" /\ sched_pc' = sched_pc
      /\ main_pc' = "create_wakeup" => main_pc = "join_arrival" /\ wake_pc' = wake_pc
  BY DEF main, CreateScheduler, CreateWakeup, JoinWakeup, JoinScheduler, write_result, MainStep
<1>2. \/ UNCHANGED <<sched_pc, wake_pc>>
      \/ sched_pc = "unborn" /\ sched_pc' = "check" /\ wake_pc' = wake_pc
      \/ wake_pc = "unborn" /\ wake_pc' = "check" /\ sched_pc' = sched_pc
  BY <1>1 DEF SimInv, ThreadsStarted
<1>3. reported' \in Seq(Pids \X Nat)
  <2>1. CASE reported' = reported
    BY <2>1 DEF SimTypeOK
  <2>2. CASE write_result
    <3>1. /\ reported' = [i \in 1 .. Len(task_list) |->
                            <<task_list[i].data, pd[task_list[i].data].turnaround_time>>]
          /\ Len(task_list) \in Nat
      BY <2>2, LenProperties DEF write_result, SimTypeOK
    <3>2. \A i \in 1 .. Len(task_list) :
            <<task_list[i].data, pd[task_list[i].data].turnaround_time>> \in Pids \X Nat
      <4> SUFFICES ASSUME NEW i \in 1 .. Len(task_list)
                   PROVE  <<task_list[i].data, pd[task_list[i].data].turnaround_time>>
                            \in Pids \X Nat
        OBVIOUS
      <4>1. task_list[i] \in Node
        BY ElementOfSeq DEF SimTypeOK
      <4>2. task_list[i].data \in Pids
        BY <4>1 DEF Node
      <4>3. pd[task_list[i].data] \in process_t
        BY <4>2 DEF SimTypeOK
      <4>4. pd[task_list[i].data].turnaround_time \in Nat
        BY <4>3 DEF process_t
      <4> QED  BY <4>2, <4>4
    <3> QED  BY <3>1, <3>2, SeqDef
  <2> QED  BY <2>1, <2>2 DEF main, CreateScheduler, CreateWakeup, JoinWakeup, JoinScheduler
<1>4. SimTypeOK(L)'
  BY <1>1, <1>2, <1>3 DEF SimTypeOK, tables, queues, semaphores, log, DispatchLabels
<1>5. SemaphoresCountQueues'
  <2>1. /\ sched_pc' \in {"remove", "redispatch"} <=> sched_pc \in {"remove", "redispatch"}
        /\ sched_pc' = "post" <=> sched_pc = "post"
        /\ wake_pc' = "post" <=> wake_pc = "post"
        /\ wake_pc' = "remove" <=> wake_pc = "remove"
    BY <1>2
  <2> QED  BY <1>1, <2>1 DEF SimInv, SemaphoresCountQueues, queues, semaphores, Flag
<1>6. OneOwner'
  <2>1. OnCpu' = OnCpu /\ OnIo' = OnIo
    BY <1>1, <1>2 DEF OnCpu, OnIo
  <2> QED  BY <1>1, <2>1, PlacesUnchanged DEF SimInv, tables, queues
<1>7. StatusByPlace'
  BY <1>1, <1>2 DEF SimInv, StatusByPlace, tables, queues
<1>8. BurstsInStep'
  BY <1>1, <1>2 DEF SimInv, BurstsInStep, tables, queues
<1>9. ThreadsStarted'
  BY <1>1, <1>2 DEF SimInv, ThreadsStarted
<1> QED  BY <1>4, <1>5, <1>6, <1>7, <1>8, <1>9 DEF SimInv

LEMMA ArrivalTickInv ==
    ASSUME NEW CONSTANT L, SimTypeOK(L), SimInv, ArrivalTick
    PROVE  SimTypeOK(L)' /\ SimInv'
<1>1. /\ global_counter' = global_counter + 1
      /\ UNCHANGED <<tables, queues, semaphores, TERMINATED_PROCESS, running_pd, sleeping_pd, log,
                     reported, main_pc, sched_pc, wake_pc>>
  BY DEF ArrivalTick
<1>2. SimTypeOK(L)'
  <2>1. global_counter' \in Nat
    BY <1>1 DEF SimTypeOK
  <2> QED  BY <1>1, <2>1 DEF SimTypeOK, tables, queues, semaphores, log
<1>3. SemaphoresCountQueues'
  BY <1>1 DEF SimInv, SemaphoresCountQueues, queues, semaphores
<1>4. OneOwner'
  BY <1>1, PlacesUnchanged DEF SimInv, tables, queues, OnCpu, OnIo
<1>5. StatusByPlace' /\ BurstsInStep' /\ ThreadsStarted'
  BY <1>1 DEF SimInv, StatusByPlace, BurstsInStep, ThreadsStarted, tables, queues
<1> QED  BY <1>2, <1>3, <1>4, <1>5 DEF SimInv

(* Admission: the new process is on no queue yet, because every process    *)
(* that is somewhere has been admitted.                                    *)
LEMMA ArrivalAdmitInv ==
    ASSUME NEW CONSTANT L, SimTypeOK(L), SimInv, ArrivalAdmit
    PROVE  SimTypeOK(L)' /\ SimInv'
<1> DEFINE p == T_PROCESS
<1>1. /\ main_pc = "join_arrival" /\ p < TOTAL_PROCESS
      /\ ready_count' = ready_count + 1 /\ T_PROCESS' = p + 1
      /\ global_counter' = IF T_PROCESS' = TOTAL_PROCESS THEN global_counter
                           ELSE global_counter + 1
      /\ UNCHANGED <<process_d, waitQueue, wait_count, TERMINATED_PROCESS, running_pd,
                     sleeping_pd, log, reported, main_pc, sched_pc, wake_pc>>
  BY DEF ArrivalAdmit
<1>2. sched_pc = "unborn" /\ wake_pc = "unborn"
  BY <1>1 DEF SimInv, ThreadsStarted
<1>3. p \in Nat /\ p \in Pids /\ T_PROCESS' \in 0 .. TOTAL_PROCESS
  BY <1>1, TotalAssumption DEF SimTypeOK, Pids
<1>4. p \notin 0 .. p - 1 /\ 0 .. T_PROCESS' - 1 = (0 .. p - 1) \cup {p}
  BY <1>1, <1>3
<1>5. p \notin Carried(readyQueue) \cup Carried(waitQueue) \cup Retired
  BY <1>4 DEF SimInv, OneOwner
<1>6. PICK first \in FirstBurst(process_d[p]) :
        LET priority == IF Policy \in {"sjf", "srtf"} THEN first ELSE 0
            remaining == IF Policy \in {"rr", "srtf"} THEN first ELSE 0
        IN  /\ pd' = [pd EXCEPT ![p] = [create_process EXCEPT !.priority = priority,
                                                              !.remaining_time = remaining]]
            /\ readyQueue' = AddTo(readyQueue, p, priority)
            /\ task_list' = AddTo(task_list, p, priority)
  BY DEF ArrivalAdmit
<1> DEFINE priority == IF Policy \in {"sjf", "srtf"} THEN first ELSE 0
           remaining == IF Policy \in {"rr", "srtf"} THEN first ELSE 0
           new == [create_process EXCEPT !.priority = priority, !.remaining_time = remaining]
<1>7. /\ pd' = [pd EXCEPT ![p] = new]
      /\ readyQueue' = AddTo(readyQueue, p, priority)
      /\ task_list' = AddTo(task_list, p, priority)
  BY <1>6
<1>8. first \in Int
  <2>1. process_d[p].cpu_burst \in Seq(Nat)
    BY <1>3, LineFacts
  <2>2. process_d[p].cpu_burst # <<>> => process_d[p].cpu_burst[1] \in Nat
    BY <2>1
  <2> QED  BY <2>2, GarbageAssumption DEF FirstBurst
<1>9. priority \in Int /\ remaining \in Int
  BY <1>8
<1> HIDE DEF priority, remaining
<1>10. new \in process_t /\ new.status = "NEW" /\ new.cpu_index = 0 /\ new.io_index = 0
  BY <1>9 DEF process_t, create_process
<1> HIDE DEF new
<1>11. /\ pd' \in [Pids -> process_t] /\ pd'[p] = new
       /\ \A q \in Pids : q # p => pd'[q] = pd[q]
  BY <1>3, <1>7, <1>10 DEF SimTypeOK
<1>12. /\ readyQueue' \in Seq(Node) /\ Len(readyQueue') = Len(readyQueue) + 1
       /\ Carried(readyQueue') = Carried(readyQueue) \cup {p}
       /\ NoDuplicates(readyQueue')
  <2>1. readyQueue \in Seq(Node) /\ NoDuplicates(readyQueue)
    BY DEF SimTypeOK, SimInv, OneOwner
  <2>2. readyQueue' = AddTo(readyQueue, p, priority)
    BY <1>7
  <2> QED  BY <1>3, <1>5, <1>9, <2>1, <2>2, AddToFacts
<1>13. task_list' \in Seq(Node)
  <2>1. task_list \in Seq(Node)
    BY DEF SimTypeOK
  <2>2. task_list' = AddTo(task_list, p, priority)
    BY <1>7
  <2> QED  BY <1>3, <1>9, <2>1, <2>2, AddToFacts
<1> HIDE DEF p
<1>14. \A q \in Carried(readyQueue) \cup Carried(waitQueue) : q \in Pids /\ pd'[q] = pd[q]
  <2>1. \A q \in Carried(readyQueue) \cup Carried(waitQueue) : q \in Pids /\ q # p
    BY <1>5, TotalAssumption DEF SimInv, OneOwner, SimTypeOK, Pids
  <2> QED  BY <1>11, <2>1
<1>15. SimTypeOK(L)'
  <2>1. global_counter' \in Nat /\ ready_count' \in Nat
    BY <1>1 DEF SimTypeOK
  <2> QED  BY <1>1, <1>3, <1>11, <1>12, <1>13, <2>1 DEF SimTypeOK, log
<1>16. SemaphoresCountQueues'
  <2>1. Len(readyQueue) = ready_count + 0 + 0
    BY <1>2 DEF SimInv, SemaphoresCountQueues, Flag
  <2>2. Len(readyQueue') = ready_count' + 0 + 0
    BY <1>1, <1>12, <2>1 DEF SimTypeOK
  <2> QED  BY <1>1, <1>2, <2>2 DEF SimInv, SemaphoresCountQueues, Flag
<1>17. OneOwner'
  <2>1. OnCpu = {} /\ OnCpu' = {} /\ OnIo = {} /\ OnIo' = {}
    BY <1>1, <1>2 DEF OnCpu, OnIo
  <2>2. Retired' = Retired
    BY <1>5, <1>10, <1>11 DEF Retired
  <2> QED  BY <1>1, <1>4, <1>5, <1>12, <2>1, <2>2 DEF SimInv, OneOwner, Apart, p
<1>18. StatusByPlace'
  BY <1>1, <1>2, <1>10, <1>11, <1>12, <1>14 DEF SimInv, StatusByPlace
<1>19. BurstsInStep'
  BY <1>1, <1>2, <1>10, <1>11 DEF SimInv, BurstsInStep
<1>20. ThreadsStarted'
  BY <1>1 DEF SimInv, ThreadsStarted
<1> QED  BY <1>15, <1>16, <1>17, <1>18, <1>19, <1>20 DEF SimInv

LEMMA ArrivalInv ==
    ASSUME NEW CONSTANT L, SimTypeOK(L), SimInv, add_arrival
    PROVE  SimTypeOK(L)' /\ SimInv'
  BY ArrivalTickInv, ArrivalAdmitInv DEF add_arrival

LEMMA StutterInv ==
    ASSUME NEW CONSTANT L, SimTypeOK(L), SimInv, UNCHANGED vars
    PROVE  SimTypeOK(L)' /\ SimInv'
<1>1. /\ UNCHANGED <<process_d, pd, T_PROCESS, task_list, readyQueue, waitQueue, ready_count>>
      /\ UNCHANGED <<wait_count, global_counter, TERMINATED_PROCESS, running_pd, sleeping_pd>>
      /\ UNCHANGED <<start_time, end_time, task_log, reported, main_pc, sched_pc, wake_pc>>
  BY DEF vars, tables, queues, semaphores, log
<1>2. SimTypeOK(L)'
  BY <1>1 DEF SimTypeOK
<1>3. SemaphoresCountQueues'
  BY <1>1 DEF SimInv, SemaphoresCountQueues
<1>4. OneOwner'
  BY <1>1, PlacesUnchanged DEF SimInv, OnCpu, OnIo
<1>5. StatusByPlace' /\ BurstsInStep' /\ ThreadsStarted'
  BY <1>1 DEF SimInv, StatusByPlace, BurstsInStep, ThreadsStarted
<1> QED  BY <1>2, <1>3, <1>4, <1>5 DEF SimInv

LEMMA InitInv ==
    ASSUME NEW CONSTANT L, Init
    PROVE  SimTypeOK(L) /\ SimInv
<1>1. create_process \in process_t /\ create_process.status = "NEW"
      /\ create_process.cpu_index = 0 /\ create_process.io_index = 0
  BY DEF create_process, process_t
<1>2. \A p \in Pids : pd[p] = create_process
  BY DEF Init
<1>3. Carried(<<>>) = {} /\ NoDuplicates(<<>>) /\ Len(<<>>) = 0
  <2>1. <<>> \in Seq(NodeOf(Pids)) /\ Len(<<>>) = 0
    OBVIOUS
  <2>2. Carried(<<>>) = {(<<>>)[i].data : i \in 1 .. Len(<<>>)}
    BY <2>1, CarriedByIndex
  <2> QED  BY <2>1, <2>2 DEF NoDuplicates
<1>4. SimTypeOK(L)
  BY <1>1, TotalAssumption DEF Init, SimTypeOK, DispatchLabels
<1>5. SemaphoresCountQueues
  BY <1>3 DEF Init, SemaphoresCountQueues, Flag
<1>6. OneOwner
  <2>1. Retired = {} /\ OnCpu = {} /\ OnIo = {}
    BY <1>1, <1>2 DEF Init, Retired, OnCpu, OnIo
  <2> QED  BY <1>3, <2>1 DEF Init, OneOwner, Apart
<1>7. StatusByPlace /\ ThreadsStarted
  BY <1>3 DEF Init, StatusByPlace, ThreadsStarted
<1>8. BurstsInStep
  BY <1>1, <1>2 DEF Init, BurstsInStep
<1> QED  BY <1>4, <1>5, <1>6, <1>7, <1>8 DEF SimInv
-----------------------------------------------------------------------------
(* The counter of terminated processes. *)

Counted == CounterMatchesRetired /\ ExitCounted

LEMMA RetiredFinite ==
    ASSUME NEW CONSTANT L, SimTypeOK(L)
    PROVE  /\ IsFiniteSet(Retired) /\ Cardinality(Retired) \in Nat
           /\ IsFiniteSet(Pids) /\ Cardinality(Pids) = TOTAL_PROCESS
<1>1. IsFiniteSet(Pids) /\ Cardinality(Pids) = TOTAL_PROCESS
  <2>1. 0 \in Int /\ TOTAL_PROCESS - 1 \in Int /\ ~ (0 > TOTAL_PROCESS - 1)
    BY TotalAssumption
  <2>2. /\ IsFiniteSet(0 .. TOTAL_PROCESS - 1)
        /\ Cardinality(0 .. TOTAL_PROCESS - 1) = TOTAL_PROCESS - 1 - 0 + 1
    BY <2>1, FS_Interval
  <2> QED  BY <2>2, TotalAssumption DEF Pids
<1>2. Retired \in SUBSET Pids
  BY DEF Retired
<1>3. IsFiniteSet(Retired)
  BY <1>1, <1>2, FS_Subset
<1> QED  BY <1>1, <1>3, FS_CardinalityType

(* A step that neither counts nor retires keeps the counter in step, as    *)
(* long as no loop is left before its condition holds.                     *)
LEMMA NothingRetires ==
    ASSUME Counted, UNCHANGED TERMINATED_PROCESS, Retired' = Retired,
           sched_pc' = "retire" <=> sched_pc = "retire",
           wake_pc' = "retire" <=> wake_pc = "retire",
           sched_pc' \in {"ready empty?", "wait empty?", "exit"} =>
             sched_pc \in {"ready empty?", "wait empty?", "exit"} \/ all_terminated,
           wake_pc' = "exit" => wake_pc = "exit" \/ all_terminated
    PROVE  Counted'
<1>1. CounterMatchesRetired'
  BY DEF Counted, CounterMatchesRetired, Flag
<1>2. ExitCounted'
  BY DEF Counted, ExitCounted, all_terminated
<1> QED  BY <1>1, <1>2 DEF Counted

LEMMA InitCounted == Init => Counted
<1> SUFFICES ASSUME Init PROVE Counted
  OBVIOUS
<1>1. Retired = {}
  BY DEF Init, Retired, create_process
<1>2. CounterMatchesRetired
  BY <1>1, FS_EmptySet DEF Init, CounterMatchesRetired, Flag
<1> QED  BY <1>2 DEF Init, Counted, ExitCounted

LEMMA DispatchCounted ==
    ASSUME Counted, dispatch
    PROVE  Counted'
<1>1. UNCHANGED TERMINATED_PROCESS /\ pd' = pd /\ wake_pc' = wake_pc
  BY DEF dispatch, SchedCheck, SchedDoneCounter, SchedDoneReady, SchedDoneWait, SchedTryWait,
         SchedRemove, SchedUnchanged, tables
<1>2. /\ sched_pc' # "retire" /\ sched_pc # "retire"
      /\ sched_pc' \in {"ready empty?", "wait empty?", "exit"} =>
           sched_pc \in {"ready empty?", "wait empty?", "exit"} \/ all_terminated
  BY DEF dispatch, SchedCheck, SchedDoneCounter, SchedDoneReady, SchedDoneWait, SchedTryWait,
         SchedRemove, SchedStep
<1>3. Retired' = Retired
  BY <1>1 DEF Retired
<1> QED  BY <1>1, <1>2, <1>3, NothingRetires

LEMMA MainCounted ==
    ASSUME SimInv, Counted, main
    PROVE  Counted'
<1>1. UNCHANGED TERMINATED_PROCESS /\ pd' = pd
  BY DEF main, CreateScheduler, CreateWakeup, JoinWakeup, JoinScheduler, write_result, tables
<1>2. \/ UNCHANGED <<sched_pc, wake_pc>>
      \/ sched_pc = "unborn" /\ sched_pc' = "check" /\ wake_pc' = wake_pc
      \/ wake_pc = "unborn" /\ wake_pc' = "check" /\ sched_pc' = sched_pc
  BY DEF main, CreateScheduler, CreateWakeup, JoinWakeup, JoinScheduler, write_result, MainStep,
         SimInv, ThreadsStarted
<1>3. Retired' = Retired
  BY <1>1 DEF Retired
<1> QED  BY <1>1, <1>2, <1>3, NothingRetires

LEMMA ArrivalCounted ==
    ASSUME NEW CONSTANT L, SimTypeOK(L), SimInv, Counted, add_arrival
    PROVE  Counted'
<1>1. UNCHANGED <<TERMINATED_PROCESS, sched_pc, wake_pc>>
  BY DEF add_arrival, ArrivalTick, ArrivalAdmit
<1>2. Retired' = Retired
  <2>1. CASE ArrivalTick
    BY <2>1 DEF ArrivalTick, Retired, tables
  <2>2. CASE ArrivalAdmit
    <3>1. PICK new : new.status = "NEW" /\ pd' = [pd EXCEPT ![T_PROCESS] = new]
      BY <2>2 DEF ArrivalAdmit, create_process
    <3>2. T_PROCESS \notin Retired
      BY DEF SimInv, OneOwner, SimTypeOK
    <3>3. pd \in [Pids -> process_t]
      BY DEF SimTypeOK
    <3> QED  BY <3>1, <3>2, <3>3 DEF Retired
  <2> QED  BY <2>1, <2>2 DEF add_arrival
<1> QED  BY <1>1, <1>2, NothingRetires

(* The count is taken one step before the status changes: the label in     *)
(* between is what the flags stand for.                                    *)
LEMMA CpuFinishedCounted ==
    ASSUME NEW CONSTANT L, SimTypeOK(L), Counted, CpuFinished
    PROVE  Counted'
<1>1. /\ TERMINATED_PROCESS' = TERMINATED_PROCESS + 1 /\ pd' = pd /\ wake_pc' = wake_pc
      /\ sched_pc = "cpu" /\ sched_pc' = "retire"
  BY DEF CpuFinished, SchedStep, CpuUnchanged
<1>2. Retired' = Retired /\ Cardinality(Retired) \in Nat /\ TERMINATED_PROCESS \in Nat
  BY <1>1, RetiredFinite DEF Retired, SimTypeOK
<1>3. CounterMatchesRetired'
  BY <1>1, <1>2 DEF Counted, CounterMatchesRetired, Flag
<1>4. ExitCounted'
  BY <1>1, <1>2, TotalAssumption DEF Counted, ExitCounted, all_terminated
<1> QED  BY <1>3, <1>4 DEF Counted

LEMMA IoFinishedCounted ==
    ASSUME NEW CONSTANT L, SimTypeOK(L), Counted, IoFinished
    PROVE  Counted'
<1>1. /\ TERMINATED_PROCESS' = TERMINATED_PROCESS + 1 /\ pd' = pd /\ sched_pc' = sched_pc
      /\ wake_pc = "io" /\ wake_pc' = "retire"
  BY DEF IoFinished, WakeStep, WakeUnchanged
<1>2. Retired' = Retired /\ Cardinality(Retired) \in Nat /\ TERMINATED_PROCESS \in Nat
  BY <1>1, RetiredFinite DEF Retired, SimTypeOK
<1>3. CounterMatchesRetired'
  BY <1>1, <1>2 DEF Counted, CounterMatchesRetired, Flag
<1>4. ExitCounted'
  <2>1. TERMINATED_PROCESS >= TOTAL_PROCESS => TERMINATED_PROCESS' >= TOTAL_PROCESS
    BY <1>1, <1>2, TotalAssumption
  <2> QED  BY <1>1, <2>1 DEF Counted, ExitCounted, all_terminated
<1> QED  BY <1>3, <1>4 DEF Counted

LEMMA CpuRetireCounted ==
    ASSUME NEW CONSTANT L, SimTypeOK(L), SimInv, Counted, CpuRetire
    PROVE  Counted'
<1>1. /\ TERMINATED_PROCESS' = TERMINATED_PROCESS /\ wake_pc' = wake_pc
      /\ sched_pc = "retire" /\ sched_pc' = "check" /\ retire(running_pd)
  BY DEF CpuRetire, SchedStep, CpuUnchanged
<1>2. running_pd \in Pids /\ running_pd \notin Retired
  BY <1>1, OwnedIsProcess DEF SimInv, OneOwner, Apart, OnCpu
<1>3. Retired' = Retired \cup {running_pd}
  BY <1>1, <1>2, RetireFacts DEF SimTypeOK
<1>4. Cardinality(Retired') = Cardinality(Retired) + 1 /\ Cardinality(Retired) \in Nat
  BY <1>2, <1>3, RetiredFinite, FS_AddElement
<1>5. CounterMatchesRetired'
  BY <1>1, <1>4 DEF Counted, CounterMatchesRetired, Flag
<1>6. ExitCounted'
  BY <1>1 DEF Counted, ExitCounted, all_terminated
<1> QED  BY <1>5, <1>6 DEF Counted

LEMMA IoRetireCounted ==
    ASSUME NEW CONSTANT L, SimTypeOK(L), SimInv, Counted, IoRetire
    PROVE  Counted'
<1>1. /\ TERMINATED_PROCESS' = TERMINATED_PROCESS /\ sched_pc' = sched_pc
      /\ wake_pc = "retire" /\ wake_pc' = "check" /\ retire(sleeping_pd)
  BY DEF IoRetire, WakeStep, WakeUnchanged
<1>2. sleeping_pd \in Pids /\ sleeping_pd \notin Retired
  BY <1>1, OwnedIsProcess DEF SimInv, OneOwner, Apart, OnIo
<1>3. Retired' = Retired \cup {sleeping_pd}
  BY <1>1, <1>2, RetireFacts DEF SimTypeOK
<1>4. Cardinality(Retired') = Cardinality(Retired) + 1 /\ Cardinality(Retired) \in Nat
  BY <1>2, <1>3, RetiredFinite, FS_AddElement
<1>5. CounterMatchesRetired'
  BY <1>1, <1>4 DEF Counted, CounterMatchesRetired, Flag
<1>6. ExitCounted'
  BY <1>1 DEF Counted, ExitCounted, all_terminated
<1> QED  BY <1>5, <1>6 DEF Counted

(* The other steps of _process_cpu's two ends and of the wake-up thread.   *)
LEMMA CpuPassesCounted ==
    ASSUME Counted, CpuEnqueue \/ CpuPost \/ CpuLog
    PROVE  Counted'
<1>1. /\ TERMINATED_PROCESS' = TERMINATED_PROCESS /\ pd' = pd /\ wake_pc' = wake_pc
      /\ sched_pc \notin {"retire", "exit"} /\ sched_pc' \in {"post", "log", "check"}
  BY DEF CpuEnqueue, CpuPost, CpuLog, SchedStep, CpuUnchanged
<1>2. Retired' = Retired
  BY <1>1 DEF Retired
<1> QED  BY <1>1, <1>2, NothingRetires

LEMMA WakeUpCounted ==
    ASSUME NEW CONSTANT L, SimTypeOK(L), SimInv, Counted, wakeUp
    PROVE  Counted'
<1>1. CASE IoFinished \/ IoRetire
  BY <1>1, IoFinishedCounted, IoRetireCounted
<1>2. CASE WakeCheck \/ WakeTryWait \/ WakeRemove \/ IoEnqueue \/ IoPost
  <2>1. TERMINATED_PROCESS' = TERMINATED_PROCESS /\ pd' = pd /\ sched_pc' = sched_pc
    BY <1>2 DEF WakeCheck, WakeTryWait, WakeRemove, IoEnqueue, IoPost, WakeUnchanged
  <2>2. /\ wake_pc # "retire" /\ wake_pc' # "retire"
        /\ wake_pc' = "exit" => all_terminated
    BY <1>2 DEF WakeCheck, WakeTryWait, WakeRemove, IoEnqueue, IoPost, WakeStep
  <2>3. Retired' = Retired
    BY <2>1 DEF Retired
  <2> QED  BY <2>1, <2>2, <2>3, NothingRetires
<1>3. CASE IoBurstDone
  <2>1. /\ TERMINATED_PROCESS' = TERMINATED_PROCESS /\ sched_pc' = sched_pc
        /\ wake_pc = "io" /\ wake_pc' \in {"enqueue", "check"}
    BY <1>3 DEF IoBurstDone, WakeStep, WakeUnchanged
  <2>2. Retired' = Retired
    <3>1. pd[sleeping_pd].status = "SLEEP" /\ sleeping_pd \in Pids
      BY <2>1, OwnedIsProcess DEF SimInv, StatusByPlace, OnIo
    <3>2. pd \in [Pids -> process_t] /\ pd[sleeping_pd] \in process_t
      BY <3>1 DEF SimTypeOK
    <3>3. PICK served : served.status = "READY" /\ pd' = [pd EXCEPT ![sleeping_pd] = served]
      <4> DEFINE served == [pd[sleeping_pd] EXCEPT
                              !.io_time = @ + IoBurst(sleeping_pd),
                              !.process_time = @ + IoBurst(sleeping_pd),
                              !.io_index = @ + 1, !.status = "READY"]
      <4>1. pd' = [pd EXCEPT ![sleeping_pd] = served]
        BY <1>3, <3>1 DEF IoBurstDone
      <4>2. served.status = "READY"
        BY <3>2 DEF process_t
      <4> QED  BY <4>1, <4>2
    <3> QED  BY <3>1, <3>2, <3>3 DEF Retired
  <2> QED  BY <2>1, <2>2, NothingRetires
<1> QED  BY <1>1, <1>2, <1>3 DEF wakeUp

(* Once a loop is left, every process is retired or about to be.           *)
LEMMA CountedDrains ==
    ASSUME NEW CONSTANT L, SimTypeOK(L), SimInv, Counted
    PROVE  ExitDrained
<1> DEFINE leaving == (IF sched_pc = "retire" THEN OnCpu ELSE {})
                        \cup (IF wake_pc = "retire" THEN OnIo ELSE {})
           D == Retired \cup leaving
<1> SUFFICES ASSUME sched_pc = "exit" \/ wake_pc = "exit"
             PROVE  /\ readyQueue = <<>> /\ waitQueue = <<>>
                    /\ ready_count = 0 /\ wait_count = 0
                    /\ Pids = D
  BY DEF ExitDrained, isEmpty
<1>1. TERMINATED_PROCESS >= TOTAL_PROCESS /\ TERMINATED_PROCESS \in Nat
  BY DEF Counted, ExitCounted, all_terminated, SimTypeOK
<1>2. IsFiniteSet(D) /\ Cardinality(D) = TERMINATED_PROCESS
  <2>1. sched_pc = "retire" => OnCpu = {running_pd} /\ running_pd \notin Retired \cup OnIo
    BY DEF OnCpu, SimInv, OneOwner, Apart
  <2>2. wake_pc = "retire" => OnIo = {sleeping_pd} /\ sleeping_pd \notin Retired
    BY DEF OnIo, SimInv, OneOwner, Apart
  <2>3. CASE sched_pc = "exit"
    <3>1. CASE wake_pc = "retire"
      <4>1. D = Retired \cup {sleeping_pd}
        BY <2>2, <2>3, <3>1
      <4> QED  BY <2>2, <2>3, <3>1, <4>1, RetiredFinite, FS_AddElement
                  DEF Counted, CounterMatchesRetired, Flag
    <3>2. CASE wake_pc # "retire"
      BY <2>3, <3>2, RetiredFinite DEF Counted, CounterMatchesRetired, Flag
    <3> QED  BY <3>1, <3>2
  <2>4. CASE wake_pc = "exit"
    <3>1. CASE sched_pc = "retire"
      <4>1. D = Retired \cup {running_pd}
        BY <2>1, <2>4, <3>1
      <4> QED  BY <2>1, <2>4, <3>1, <4>1, RetiredFinite, FS_AddElement
                  DEF Counted, CounterMatchesRetired, Flag
    <3>2. CASE sched_pc # "retire"
      BY <2>4, <3>2, RetiredFinite DEF Counted, CounterMatchesRetired, Flag
    <3> QED  BY <3>1, <3>2
  <2> QED  BY <2>3, <2>4
<1>3. D \in SUBSET Pids
  BY OwnedIsProcess DEF Retired, OnCpu, OnIo
<1>4. D = Pids
  <2>1. Cardinality(D) <= Cardinality(Pids) /\ (Cardinality(Pids) = Cardinality(D) => Pids = D)
    BY <1>3, RetiredFinite, FS_Subset
  <2>2. Cardinality(Pids) = TOTAL_PROCESS
    BY RetiredFinite
  <2> QED  BY <1>1, <1>2, <2>1, <2>2, TotalAssumption
<1>5. Carried(readyQueue) = {} /\ Carried(waitQueue) = {}
  <2>1. Carried(readyQueue) \cup Carried(waitQueue) \subseteq Pids
    BY TotalAssumption DEF SimInv, OneOwner, SimTypeOK, Pids
  <2>2. (Carried(readyQueue) \cup Carried(waitQueue)) \cap D = {}
    BY DEF SimInv, OneOwner, Apart
  <2> QED  BY <1>4, <2>1, <2>2
<1>6. Len(readyQueue) = 0 /\ Len(waitQueue) = 0
  <2>1. readyQueue \in Seq(NodeOf(Pids)) /\ waitQueue \in Seq(NodeOf(Pids))
    BY DEF SimTypeOK, Node, NodeOf
  <2>2. /\ {readyQueue[i].data : i \in 1 .. Len(readyQueue)} = {}
        /\ {waitQueue[i].data : i \in 1 .. Len(waitQueue)} = {}
    BY <1>5, <2>1, CarriedByIndex
  <2>3. 1 \notin 1 .. Len(readyQueue) /\ 1 \notin 1 .. Len(waitQueue)
    BY <2>2
  <2> QED  BY <2>1, <2>3, LenProperties
<1>7. readyQueue = <<>> /\ waitQueue = <<>>
  BY <1>6, EmptySeq DEF SimTypeOK
<1>8. ready_count = 0 /\ wait_count = 0
  <2>1. ready_count \in Nat /\ wait_count \in Nat
    BY DEF SimTypeOK
  <2> QED  BY <1>6, <2>1 DEF SimInv, SemaphoresCountQueues, Flag
<1> QED  BY <1>4, <1>7, <1>8
-----------------------------------------------------------------------------
(* The order of the ready queue under the two policies with priorities: it *)
(* is sorted, and every node carries the priority its process has now.     *)
Filed ==
    /\ Ordered(readyQueue)
    /\ \A i \in 1 .. Len(readyQueue) :
         readyQueue[i].priority = pd[readyQueue[i].data].priority

(* The process dequeue takes is of the least priority value.               *)
LEMMA FrontIsLeast ==
    ASSUME NEW CONSTANT L, SimTypeOK(L), Filed, ~ isEmpty(readyQueue)
    PROVE  \A q \in Carried(readyQueue) : pd[dequeued(readyQueue)].priority <= pd[q].priority
<1>1. readyQueue \in Seq(NodeOf(Pids)) /\ Len(readyQueue) \in Nat /\ Len(readyQueue) # 0
  BY LenProperties, EmptySeq DEF SimTypeOK, Node, NodeOf, isEmpty
<1>2. /\ dequeued(readyQueue) = readyQueue[1].data
      /\ \A i \in 1 .. Len(readyQueue) : readyQueue[1].priority <= readyQueue[i].priority
  BY <1>1, DequeueOrdered DEF Filed
<1>3. Carried(readyQueue) = {readyQueue[i].data : i \in 1 .. Len(readyQueue)}
  BY <1>1, CarriedByIndex
<1>4. 1 \in 1 .. Len(readyQueue)
  BY <1>1
<1> QED  BY <1>2, <1>3, <1>4 DEF Filed

LEMMA CarriedAt ==
    ASSUME NEW CONSTANT L, SimTypeOK(L), NEW i \in 1 .. Len(readyQueue)
    PROVE  readyQueue[i].data \in Carried(readyQueue) /\ readyQueue[i].data \in Pids
<1>1. readyQueue \in Seq(NodeOf(Pids)) /\ Len(readyQueue) \in Nat
  BY LenProperties DEF SimTypeOK, Node, NodeOf
<1>2. Carried(readyQueue) = {readyQueue[j].data : j \in 1 .. Len(readyQueue)}
  BY <1>1, CarriedByIndex
<1>3. readyQueue[i] \in NodeOf(Pids)
  BY <1>1, ElementOfSeq
<1> QED  BY <1>2, <1>3 DEF NodeOf

LEMMA FiledKept ==
    ASSUME NEW CONSTANT L, SimTypeOK(L), Filed, readyQueue' = readyQueue,
           \A q \in Carried(readyQueue) : pd'[q].priority = pd[q].priority
    PROVE  Filed'
<1>1. \A i \in 1 .. Len(readyQueue) : readyQueue[i].data \in Carried(readyQueue)
  BY CarriedAt
<1> QED  BY <1>1 DEF Filed

LEMMA FiledTaken ==
    ASSUME NEW CONSTANT L, SimTypeOK(L), Filed, readyQueue' = dequeue(readyQueue), pd' = pd
    PROVE  Filed'
<1>1. CASE isEmpty(readyQueue)
  BY <1>1 DEF Filed, dequeue
<1>2. CASE ~ isEmpty(readyQueue)
  <2>1. readyQueue \in Seq(NodeOf(Pids)) /\ Len(readyQueue) \in Nat
    BY LenProperties DEF SimTypeOK, Node, NodeOf
  <2>2. /\ Ordered(readyQueue') /\ Len(readyQueue') = Len(readyQueue) - 1
        /\ \A i \in 1 .. Len(readyQueue) - 1 : readyQueue'[i] = readyQueue[i + 1]
    BY <1>2, <2>1, DequeueOrdered DEF Filed
  <2>3. \A i \in 1 .. Len(readyQueue) - 1 : i + 1 \in 1 .. Len(readyQueue)
    BY <2>1
  <2> QED  BY <2>2, <2>3 DEF Filed
<1> QED  BY <1>1, <1>2

LEMMA FiledAdded ==
    ASSUME NEW CONSTANT L, SimTypeOK(L), Filed, Policy \in {"sjf", "srtf"},
           NEW p \in Pids, NEW priority \in Int,
           readyQueue' = AddTo(readyQueue, p, priority), pd'[p].priority = priority,
           \A q \in Carried(readyQueue) : pd'[q].priority = pd[q].priority
    PROVE  Filed'
<1>1. readyQueue \in Seq(NodeOf(Pids)) /\ Len(readyQueue) \in Nat /\ Ordered(readyQueue)
  BY LenProperties DEF SimTypeOK, Node, NodeOf, Filed
<1>2. readyQueue' = p_enqueue(readyQueue, p, priority)
  BY DEF AddTo
<1>3. /\ Ordered(readyQueue')
      /\ \E k \in 1 .. Len(readyQueue) + 1 :
           Inserted(readyQueue, readyQueue', k, node(p, priority))
  BY <1>1, <1>2, PEnqueueOrders
<1>4. PICK k \in 1 .. Len(readyQueue) + 1 :
        Inserted(readyQueue, readyQueue', k, node(p, priority))
  BY <1>3
<1>5. ASSUME NEW i \in 1 .. Len(readyQueue')
      PROVE  readyQueue'[i].priority = pd'[readyQueue'[i].data].priority
  <2>1. Len(readyQueue') = Len(readyQueue) + 1 /\ i \in Int /\ k \in Int
    BY <1>1, <1>4 DEF Inserted
  <2>2. CASE i = k
    BY <1>4, <2>2 DEF Inserted, node
  <2>3. CASE i < k
    <3>1. i \in 1 .. Len(readyQueue) /\ readyQueue'[i] = readyQueue[i]
      BY <1>1, <1>4, <2>1, <2>3 DEF Inserted
    <3> QED  BY <3>1, CarriedAt DEF Filed
  <2>4. CASE i > k
    <3>1. i - 1 \in 1 .. Len(readyQueue) /\ readyQueue'[i] = readyQueue[i - 1]
      BY <1>1, <1>4, <2>1, <2>4 DEF Inserted
    <3> QED  BY <3>1, CarriedAt DEF Filed
  <2> QED  BY <2>1, <2>2, <2>3, <2>4
<1> QED  BY <1>3, <1>5 DEF Filed

LEMMA ReadyArePids ==
    ASSUME NEW CONSTANT L, SimTypeOK(L)
    PROVE  Carried(readyQueue) \subseteq Pids
<1>1. readyQueue \in Seq(NodeOf(Pids))
  BY DEF SimTypeOK, Node, NodeOf
<1>2. Carried(readyQueue) = {readyQueue[i].data : i \in 1 .. Len(readyQueue)}
  BY <1>1, CarriedByIndex
<1> QED  BY <1>2, CarriedAt

LEMMA MainFiles ==
    ASSUME NEW CONSTANT L, SimTypeOK(L), Filed, main \/ UNCHANGED vars
    PROVE  Filed'
<1>1. readyQueue' = readyQueue /\ pd' = pd
  BY DEF main, CreateScheduler, CreateWakeup, JoinWakeup, JoinScheduler, write_result, vars,
         tables, queues
<1> QED  BY <1>1, FiledKept

LEMMA ArrivalFiles ==
    ASSUME NEW CONSTANT L, SimTypeOK(L), SimInv, Filed, Policy \in {"sjf", "srtf"}, add_arrival
    PROVE  Filed'
<1>1. CASE ArrivalTick
  <2>1. readyQueue' = readyQueue /\ pd' = pd
    BY <1>1 DEF ArrivalTick, tables, queues
  <2> QED  BY <2>1, FiledKept
<1>2. CASE ArrivalAdmit
  <2> DEFINE p == T_PROCESS
  <2>1. p \in Pids /\ p \notin Carried(readyQueue)
    <3>1. p \in Nat /\ p < TOTAL_PROCESS
      BY <1>2 DEF ArrivalAdmit, SimTypeOK
    <3>2. p \in Pids /\ p \notin 0 .. p - 1
      BY <3>1, TotalAssumption DEF Pids
    <3> QED  BY <3>2 DEF SimInv, OneOwner
  <2> DEFINE remaining(first) == IF Policy \in {"rr", "srtf"} THEN first ELSE 0
  <2>2. PICK first \in FirstBurst(process_d[p]) :
          /\ pd' = [pd EXCEPT ![p] = [create_process EXCEPT !.priority = first,
                                                            !.remaining_time = remaining(first)]]
          /\ readyQueue' = AddTo(readyQueue, p, first)
    BY <1>2 DEF ArrivalAdmit
  <2>3. first \in Int
    <3>1. process_d[p].cpu_burst \in Seq(Nat)
      BY <2>1, LineFacts
    <3>2. process_d[p].cpu_burst # <<>> => process_d[p].cpu_burst[1] \in Nat
      BY <3>1
    <3> QED  BY <3>2, GarbageAssumption DEF FirstBurst
  <2>4. pd'[p].priority = first /\ \A q \in Pids : q # p => pd'[q] = pd[q]
    BY <2>1, <2>2 DEF SimTypeOK, create_process
  <2> HIDE DEF p
  <2>5. \A q \in Carried(readyQueue) : pd'[q].priority = pd[q].priority
    BY <2>1, <2>4, ReadyArePids
  <2> QED  BY <2>1, <2>2, <2>3, <2>4, <2>5, FiledAdded
<1> QED  BY <1>1, <1>2 DEF add_arrival

LEMMA DispatchFiles ==
    ASSUME NEW CONSTANT L, SimTypeOK(L), Filed, dispatch
    PROVE  Filed'
<1>1. CASE SchedRemove
  <2>1. readyQueue' = dequeue(readyQueue) /\ pd' = pd
    BY <1>1 DEF SchedRemove, SchedUnchanged, tables
  <2> QED  BY <2>1, FiledTaken
<1>2. CASE SchedCheck \/ SchedDoneCounter \/ SchedDoneReady \/ SchedDoneWait \/ SchedTryWait
  <2>1. readyQueue' = readyQueue /\ pd' = pd
    BY <1>2 DEF SchedCheck, SchedDoneCounter, SchedDoneReady, SchedDoneWait, SchedTryWait,
                SchedUnchanged, tables
  <2> QED  BY <2>1, FiledKept
<1> QED  BY <1>1, <1>2 DEF dispatch

LEMMA WakeUpFiles ==
    ASSUME NEW CONSTANT L, SimTypeOK(L), SimInv, Filed, Policy \in {"sjf", "srtf"}, wakeUp
    PROVE  Filed'
<1>1. CASE WakeCheck \/ WakeTryWait \/ WakeRemove \/ IoFinished \/ IoPost
  <2>1. readyQueue' = readyQueue /\ pd' = pd
    BY <1>1 DEF WakeCheck, WakeTryWait, WakeRemove, IoFinished, IoPost, queues
  <2> QED  BY <2>1, FiledKept
<1>2. CASE IoRetire \/ IoBurstDone
  <2>1. readyQueue' = readyQueue
    BY <1>2 DEF IoRetire, IoBurstDone, queues
  <2>2. \A q \in Pids : pd'[q].priority = pd[q].priority
    <3>1. CASE IoRetire
      BY <3>1 DEF IoRetire, retire, SimTypeOK, process_t
    <3>2. CASE IoBurstDone
      <4>1. \/ pd' = pd
            \/ pd' = [pd EXCEPT ![sleeping_pd].io_time = @ + IoBurst(sleeping_pd),
                                ![sleeping_pd].process_time = @ + IoBurst(sleeping_pd),
                                ![sleeping_pd].io_index = @ + 1,
                                ![sleeping_pd].status = "READY"]
        BY <3>2 DEF IoBurstDone
      <4>2. pd \in [Pids -> process_t]
        BY DEF SimTypeOK
      <4> QED  BY <4>1, <4>2 DEF process_t
    <3> QED  BY <1>2, <3>1, <3>2
  <2> QED  BY <2>1, <2>2, ReadyArePids, FiledKept
<1>3. CASE IoEnqueue
  <2>1. /\ wake_pc = "enqueue" /\ pd' = pd
        /\ readyQueue' = AddTo(readyQueue, sleeping_pd, pd[sleeping_pd].priority)
    BY <1>3 DEF IoEnqueue, WakeStep
  <2>2. sleeping_pd \in Pids
    BY <2>1, OwnedIsProcess DEF OnIo
  <2>3. pd[sleeping_pd].priority \in Int
    BY <2>2 DEF SimTypeOK, process_t
  <2> QED  BY <2>1, <2>2, <2>3, FiledAdded
<1> QED  BY <1>1, <1>2, <1>3 DEF wakeUp

LEMMA CpuPassesFiled ==
    ASSUME NEW CONSTANT L, SimTypeOK(L), Filed,
           CpuFinished \/ CpuRetire \/ CpuEnqueue \/ CpuPost \/ CpuLog
    PROVE  Filed'
<1>1. readyQueue' = readyQueue
  BY DEF CpuFinished, CpuRetire, CpuEnqueue, CpuPost, CpuLog, queues
<1>2. \A q \in Pids : pd'[q].priority = pd[q].priority
  <2>1. CASE CpuRetire
    BY <2>1 DEF CpuRetire, retire, SimTypeOK, process_t
  <2>2. CASE CpuFinished \/ CpuEnqueue \/ CpuPost \/ CpuLog
    BY <2>2 DEF CpuFinished, CpuEnqueue, CpuPost, CpuLog
  <2> QED  BY <2>1, <2>2
<1> QED  BY <1>1, <1>2, ReadyArePids, FiledKept

LEMMA InitFiled == Init => Filed
  BY DEF Init, Filed, Ordered
-----------------------------------------------------------------------------
(* The refinement of ProcessLifecycle.  A step of the threads moves at     *)
(* most one process from one place to another; the invariant below says    *)
(* that what it has of its line is what ProcessLifecycle asks for.         *)

(* No index gets past its list; who is being retired has had its whole     *)
(* line; who is not yet created has had nothing.                           *)
WithinLine ==
    \A p \in Pids : /\ pd[p].cpu_index <= Len(process_d[p].cpu_burst)
                    /\ pd[p].io_index <= Len(process_d[p].io_burst)

Ended(p) ==
    /\ pd[p].cpu_index = Len(process_d[p].cpu_burst)
    /\ pd[p].io_index = Len(process_d[p].io_burst)

RetiresEnded ==
    /\ sched_pc = "retire" => Ended(running_pd)
    /\ wake_pc = "retire" => Ended(sleeping_pd)

Uncreated == \A p \in Pids : p >= T_PROCESS => pd[p].cpu_index = 0 /\ pd[p].io_index = 0

LifeInv == WithinLine /\ RetiresEnded /\ Uncreated

(* The bursts a process has had, as Lifecycle counts them.                 *)
CpuDone(p) == pd[p].cpu_index - Flag(sched_pc = "enqueue" /\ p = running_pd)
IoDone(p) == pd[p].io_index - Flag(wake_pc = "enqueue" /\ p = sleeping_pd)

SameCounts == \A p \in Pids : CpuDone(p)' = CpuDone(p) /\ IoDone(p)' = IoDone(p)

LifeStep == Lifecycle!LifecycleNext \/ UNCHANGED Lifecycle!lifecycle

(* Only p changes its phase, in this way.                                  *)
Moved(p, from, to) ==
    /\ PhaseOf(p) = from /\ PhaseOf(p)' = to
    /\ \A q \in Pids \ {p} : PhaseOf(q)' = PhaseOf(q)

LEMMA MapStutters ==
    ASSUME process_d' = process_d, \A p \in Pids : PhaseOf(p)' = PhaseOf(p), SameCounts
    PROVE  LifeStep
<1>1. UNCHANGED [p \in Pids |-> PhaseOf(p)]
  OBVIOUS
<1>2. UNCHANGED <<[p \in Pids |-> CpuDone(p)], [p \in Pids |-> IoDone(p)]>>
  BY DEF SameCounts
<1> QED  BY <1>1, <1>2 DEF LifeStep, Lifecycle!lifecycle, CpuDone, IoDone

LEMMA MapMoves ==
    ASSUME NEW p \in Pids, NEW from, NEW to, Moved(p, from, to)
    PROVE  Lifecycle!Move(p, from, to)
  BY DEF Moved, Lifecycle!Move

(* The moves without a burst done.                                         *)
LEMMA MapPlain ==
    ASSUME process_d' = process_d, SameCounts, NEW p \in Pids,
           \/ Moved(p, "absent", "ready") /\ \A q \in Pids : q < p => PhaseOf(q) # "absent"
           \/ Moved(p, "ready", "cpu") /\ \A q \in Pids : PhaseOf(q) # "cpu"
           \/ Moved(p, "waiting", "io") /\ \A q \in Pids : PhaseOf(q) # "io"
           \/ Moved(p, "cpu", "ready") /\ Policy = "srtf"
    PROVE  LifeStep
<1>1. UNCHANGED <<[q \in Pids |-> CpuDone(q)], [q \in Pids |-> IoDone(q)]>>
  BY DEF SameCounts
<1>2. CASE Moved(p, "absent", "ready") /\ \A q \in Pids : q < p => PhaseOf(q) # "absent"
  <2>1. Lifecycle!Arrive(p)
    BY <1>1, <1>2, MapMoves DEF Lifecycle!Arrive, CpuDone, IoDone
  <2> QED  BY <2>1 DEF LifeStep, Lifecycle!LifecycleNext
<1>3. CASE Moved(p, "ready", "cpu") /\ \A q \in Pids : PhaseOf(q) # "cpu"
  <2>1. Lifecycle!Dispatch(p)
    BY <1>1, <1>3, MapMoves DEF Lifecycle!Dispatch, Lifecycle!Free, CpuDone, IoDone
  <2> QED  BY <2>1 DEF LifeStep, Lifecycle!LifecycleNext
<1>4. CASE Moved(p, "waiting", "io") /\ \A q \in Pids : PhaseOf(q) # "io"
  <2>1. Lifecycle!StartIo(p)
    BY <1>1, <1>4, MapMoves DEF Lifecycle!StartIo, Lifecycle!Free, CpuDone, IoDone
  <2> QED  BY <2>1 DEF LifeStep, Lifecycle!LifecycleNext
<1>5. CASE Moved(p, "cpu", "ready") /\ Policy = "srtf"
  <2>1. Lifecycle!Preempt(p)
    BY <1>1, <1>5, MapMoves DEF Lifecycle!Preempt, CpuDone, IoDone
  <2> QED  BY <2>1 DEF LifeStep, Lifecycle!LifecycleNext
<1> QED  BY <1>2, <1>3, <1>4, <1>5

LEMMA MapTerminate ==
    ASSUME process_d' = process_d, SameCounts, NEW p \in Pids,
           Moved(p, "cpu", "terminated") \/ Moved(p, "io", "terminated"),
           CpuDone(p) = Len(process_d[p].cpu_burst), IoDone(p) = Len(process_d[p].io_burst)
    PROVE  LifeStep
<1>1. UNCHANGED <<[q \in Pids |-> CpuDone(q)], [q \in Pids |-> IoDone(q)]>>
  BY DEF SameCounts
<1>2. Lifecycle!Terminate(p)
  BY <1>1, MapMoves DEF Lifecycle!Terminate, CpuDone, IoDone
<1> QED  BY <1>2 DEF LifeStep, Lifecycle!LifecycleNext

LEMMA MapCpuBurstDone ==
    ASSUME process_d' = process_d, NEW p \in Pids, Moved(p, "cpu", "waiting"),
           CpuDone(p)' = CpuDone(p) + 1,
           \A q \in Pids \ {p} : CpuDone(q)' = CpuDone(q),
           \A q \in Pids : IoDone(q)' = IoDone(q),
           CpuDone(p) = IoDone(p), CpuDone(p) < Len(process_d[p].cpu_burst)
    PROVE  LifeStep
<1>1. UNCHANGED [q \in Pids |-> IoDone(q)]
  OBVIOUS
<1>2. [q \in Pids |-> CpuDone(q)]' = [[q \in Pids |-> CpuDone(q)] EXCEPT ![p] = @ + 1]
  OBVIOUS
<1>3. Lifecycle!CpuBurstDone(p)
  BY <1>1, <1>2, MapMoves DEF Lifecycle!CpuBurstDone, CpuDone, IoDone
<1> QED  BY <1>3 DEF LifeStep, Lifecycle!LifecycleNext

LEMMA MapIoBurstDone ==
    ASSUME process_d' = process_d, NEW p \in Pids, Moved(p, "io", "ready"),
           IoDone(p)' = IoDone(p) + 1,
           \A q \in Pids \ {p} : IoDone(q)' = IoDone(q),
           \A q \in Pids : CpuDone(q)' = CpuDone(q),
           IoDone(p) + 1 = CpuDone(p), IoDone(p) < Len(process_d[p].io_burst)
    PROVE  LifeStep
<1>1. UNCHANGED [q \in Pids |-> CpuDone(q)]
  OBVIOUS
<1>2. [q \in Pids |-> IoDone(q)]' = [[q \in Pids |-> IoDone(q)] EXCEPT ![p] = @ + 1]
  OBVIOUS
<1>3. Lifecycle!IoBurstDone(p)
  BY <1>1, <1>2, MapMoves DEF Lifecycle!IoBurstDone, CpuDone, IoDone
<1> QED  BY <1>3 DEF LifeStep, Lifecycle!LifecycleNext

(* In which phase the processes of each place are.                         *)
LEMMA PhaseFacts ==
    ASSUME OneOwner, NEW p \in Pids
    PROVE  /\ p \in Retired => PhaseOf(p) = "terminated"
           /\ p \in OnCpu <=> PhaseOf(p) = "cpu"
           /\ p \in OnIo <=> PhaseOf(p) = "io"
           /\ p \in Carried(readyQueue) => PhaseOf(p) = "ready"
           /\ p \in Carried(waitQueue) => PhaseOf(p) = "waiting"
           /\ p \notin 0 .. T_PROCESS - 1 <=> PhaseOf(p) = "absent"
  BY DEF PhaseOf, OneOwner, Apart

LEMMA PhaseFactsNext ==
    ASSUME OneOwner', NEW p \in Pids
    PROVE  /\ p \in Retired' => PhaseOf(p)' = "terminated"
           /\ p \in OnCpu' => PhaseOf(p)' = "cpu"
           /\ p \in OnIo' => PhaseOf(p)' = "io"
           /\ p \in Carried(readyQueue)' => PhaseOf(p)' = "ready"
           /\ p \in Carried(waitQueue)' => PhaseOf(p)' = "waiting"
  BY DEF PhaseOf, OneOwner, Apart

(* A process that stays in its place stays in its phase.                   *)
Stays(p) ==
    /\ p \in Retired' <=> p \in Retired
    /\ p \in OnCpu' <=> p \in OnCpu
    /\ p \in OnIo' <=> p \in OnIo
    /\ p \in Carried(readyQueue)' <=> p \in Carried(readyQueue)
    /\ p \in Carried(waitQueue)' <=> p \in Carried(waitQueue)

LEMMA StaysInPhase ==
    ASSUME NEW p \in Pids, Stays(p)
    PROVE  PhaseOf(p)' = PhaseOf(p)
  BY DEF PhaseOf, Stays

(* The steps that move nobody and finish no burst.                         *)
LEMMA QuietMaps ==
    ASSUME process_d' = process_d, readyQueue' = readyQueue, waitQueue' = waitQueue,
           OnCpu' = OnCpu, OnIo' = OnIo, Retired' = Retired, SameCounts
    PROVE  LifeStep
<1>1. \A p \in Pids : Stays(p)
  BY DEF Stays
<1> QED  BY <1>1, StaysInPhase, MapStutters

(* The steps that move no index.                                           *)
LEMMA LifeKept ==
    ASSUME LifeInv, UNCHANGED <<process_d, T_PROCESS>>,
           \A p \in Pids : /\ pd'[p].cpu_index = pd[p].cpu_index
                           /\ pd'[p].io_index = pd[p].io_index,
           sched_pc' = "retire" => running_pd' \in Pids /\ Ended(running_pd)
                                                        /\ running_pd' = running_pd,
           wake_pc' = "retire" => sleeping_pd' \in Pids /\ Ended(sleeping_pd)
                                                        /\ sleeping_pd' = sleeping_pd
    PROVE  LifeInv'
<1>1. WithinLine'
  BY DEF LifeInv, WithinLine
<1>2. RetiresEnded'
  BY DEF RetiresEnded, Ended
<1>3. Uncreated'
  BY DEF LifeInv, Uncreated
<1> QED  BY <1>1, <1>2, <1>3 DEF LifeInv

(* Steps of one thread that move nobody and leave the processes alone.     *)
LEMMA QuietLife ==
    ASSUME NEW CONSTANT L, SimTypeOK(L), SimInv, LifeInv,
           UNCHANGED <<process_d, T_PROCESS, pd, readyQueue, waitQueue, running_pd, sleeping_pd>>,
           OnCpu' = OnCpu, OnIo' = OnIo,
           sched_pc' = "enqueue" <=> sched_pc = "enqueue",
           wake_pc' = "enqueue" <=> wake_pc = "enqueue",
           sched_pc' = "retire" => Ended(running_pd) /\ running_pd \in Pids,
           wake_pc' = "retire" => Ended(sleeping_pd) /\ sleeping_pd \in Pids
    PROVE  LifeStep /\ LifeInv'
<1>1. SameCounts
  BY DEF SameCounts, CpuDone, IoDone, Flag
<1>2. Retired' = Retired
  BY DEF Retired
<1>3. LifeStep
  BY <1>1, <1>2, QuietMaps
<1>4. LifeInv'
  BY LifeKept
<1> QED  BY <1>3, <1>4

LEMMA RetireesAreProcesses ==
    ASSUME NEW CONSTANT L, SimTypeOK(L), SimInv, LifeInv
    PROVE  /\ sched_pc = "retire" => Ended(running_pd) /\ running_pd \in Pids
           /\ wake_pc = "retire" => Ended(sleeping_pd) /\ sleeping_pd \in Pids
  BY OwnedIsProcess DEF OnCpu, OnIo, LifeInv, RetiresEnded

LEMMA MainLife ==
    ASSUME NEW CONSTANT L, SimTypeOK(L), SimInv, LifeInv, main \/ UNCHANGED vars
    PROVE  LifeStep /\ LifeInv'
<1>1. /\ UNCHANGED <<process_d, T_PROCESS, pd, readyQueue, waitQueue, running_pd, sleeping_pd>>
      /\ \/ UNCHANGED <<sched_pc, wake_pc>>
         \/ sched_pc = "unborn" /\ sched_pc' = "check" /\ wake_pc' = wake_pc
         \/ wake_pc = "unborn" /\ wake_pc' = "check" /\ sched_pc' = sched_pc
  <2>1. CASE main
    BY <2>1 DEF main, CreateScheduler, CreateWakeup, JoinWakeup, JoinScheduler, write_result,
                MainStep, tables, queues, SimInv, ThreadsStarted
  <2>2. CASE UNCHANGED vars
    BY <2>2 DEF vars, tables, queues
  <2> QED  BY <2>1, <2>2
<1>2. OnCpu' = OnCpu /\ OnIo' = OnIo
  BY <1>1 DEF OnCpu, OnIo
<1> QED  BY <1>1, <1>2, RetireesAreProcesses, QuietLife

LEMMA ArrivalLife ==
    ASSUME NEW CONSTANT L, SimTypeOK(L), SimInv, LifeInv, add_arrival, SimInv'
    PROVE  LifeStep /\ LifeInv'
<1>1. CASE ArrivalTick
  <2>1. /\ UNCHANGED <<process_d, T_PROCESS, pd, readyQueue, waitQueue, running_pd, sleeping_pd>>
        /\ UNCHANGED <<sched_pc, wake_pc>>
    BY <1>1 DEF ArrivalTick, tables, queues
  <2>2. OnCpu' = OnCpu /\ OnIo' = OnIo
    BY <2>1 DEF OnCpu, OnIo
  <2> QED  BY <2>1, <2>2, RetireesAreProcesses, QuietLife
<1>2. CASE ArrivalAdmit
  <2>0. PICK p \in Pids : p = T_PROCESS
    BY <1>2, TotalAssumption DEF ArrivalAdmit, SimTypeOK, Pids
  <2>1. /\ main_pc = "join_arrival" /\ p < TOTAL_PROCESS /\ T_PROCESS' = p + 1
        /\ UNCHANGED <<process_d, waitQueue, running_pd, sleeping_pd, sched_pc, wake_pc>>
    BY <1>2, <2>0 DEF ArrivalAdmit
  <2>2. sched_pc = "unborn" /\ wake_pc = "unborn"
    BY <2>1 DEF SimInv, ThreadsStarted
  <2>3. p \in Nat /\ p \in Pids
    BY TotalAssumption DEF Pids
  <2>4. PICK first \in FirstBurst(process_d[p]) :
          LET priority == IF Policy \in {"sjf", "srtf"} THEN first ELSE 0
              remaining == IF Policy \in {"rr", "srtf"} THEN first ELSE 0
          IN  /\ pd' = [pd EXCEPT ![p] = [create_process EXCEPT !.priority = priority,
                                                                !.remaining_time = remaining]]
              /\ readyQueue' = AddTo(readyQueue, p, priority)
    BY <1>2, <2>0 DEF ArrivalAdmit
  <2> DEFINE priority == IF Policy \in {"sjf", "srtf"} THEN first ELSE 0
             remaining == IF Policy \in {"rr", "srtf"} THEN first ELSE 0
             new == [create_process EXCEPT !.priority = priority, !.remaining_time = remaining]
  <2>5. pd' = [pd EXCEPT ![p] = new] /\ readyQueue' = AddTo(readyQueue, p, priority)
    BY <2>4
  <2>6. first \in Int
    <3>1. process_d[p].cpu_burst \in Seq(Nat)
      BY <2>3, LineFacts
    <3>2. process_d[p].cpu_burst # <<>> => process_d[p].cpu_burst[1] \in Nat
      BY <3>1
    <3> QED  BY <3>2, GarbageAssumption DEF FirstBurst
  <2>7. priority \in Int
    BY <2>6
  <2> HIDE DEF priority, remaining
  <2>8. new.cpu_index = 0 /\ new.io_index = 0 /\ new.status = "NEW"
    BY DEF create_process
  <2> HIDE DEF new
  <2>9. pd'[p] = new /\ \A q \in Pids : q # p => pd'[q] = pd[q]
    BY <2>3, <2>5 DEF SimTypeOK
  <2>10. pd[p].cpu_index = 0 /\ pd[p].io_index = 0
    BY <2>0, <2>3 DEF LifeInv, Uncreated
  <2>11. \A q \in Pids : pd'[q].cpu_index = pd[q].cpu_index /\ pd'[q].io_index = pd[q].io_index
    BY <2>8, <2>9, <2>10
  <2>12. Carried(readyQueue') = Carried(readyQueue) \cup {p}
    BY <2>3, <2>5, <2>7, AddToFacts DEF SimTypeOK
  <2>13. p \notin 0 .. T_PROCESS - 1 /\ p \notin Retired
    BY <2>0, <2>3 DEF SimInv, OneOwner
  <2>14. Retired' = Retired
    BY <2>8, <2>9, <2>13 DEF Retired
  <2>15. Moved(p, "absent", "ready")
    <3>1. PhaseOf(p) = "absent"
      BY <2>3, <2>13, PhaseFacts DEF SimInv
    <3>2. PhaseOf(p)' = "ready"
      <4>1. OneOwner' /\ p \in Carried(readyQueue)'
        BY <2>12 DEF SimInv
      <4> QED  BY <2>3, <4>1, PhaseFactsNext
    <3>3. \A q \in Pids \ {p} : Stays(q)
      BY <2>1, <2>12, <2>14 DEF Stays, OnCpu, OnIo
    <3> QED  BY <3>1, <3>2, <3>3, StaysInPhase DEF Moved
  <2>16. \A q \in Pids : q < p => PhaseOf(q) # "absent"
    <3> SUFFICES ASSUME NEW q \in Pids, q < p PROVE PhaseOf(q) # "absent"
      OBVIOUS
    <3>1. q \in 0 .. T_PROCESS - 1
      BY <2>0, <2>3 DEF Pids
    <3> QED  BY <3>1, PhaseFacts DEF SimInv
  <2>17. SameCounts
    BY <2>1, <2>2, <2>11 DEF SameCounts, CpuDone, IoDone, Flag
  <2>18. LifeStep
    BY <2>1, <2>3, <2>15, <2>16, <2>17, MapPlain
  <2>19. WithinLine' /\ RetiresEnded'
    BY <2>1, <2>2, <2>11 DEF LifeInv, WithinLine, RetiresEnded
  <2>20. Uncreated'
    BY <2>0, <2>1, <2>3, <2>11 DEF LifeInv, Uncreated, Pids
  <2> QED  BY <2>18, <2>19, <2>20 DEF LifeInv
<1> QED  BY <1>1, <1>2 DEF add_arrival

LEMMA DispatchLife ==
    ASSUME NEW CONSTANT L, SimTypeOK(L), SimInv, LifeInv, dispatch, SimInv'
    PROVE  LifeStep /\ LifeInv'
<1>1. CASE SchedRemove
  <2>1. readyQueue \in Seq(Node) /\ Len(readyQueue) # 0
    BY <1>1, LenProperties DEF SimTypeOK, SimInv, SemaphoresCountQueues, SchedRemove, SchedStep, Flag
  <2>2. PICK p \in Pids :
          /\ p = dequeued(readyQueue) /\ p # NULL
          /\ Carried(readyQueue) = Carried(dequeue(readyQueue)) \cup {p}
          /\ p \notin Carried(dequeue(readyQueue))
    BY <2>1, RemoveFacts DEF SimInv, OneOwner
  <2>3. /\ sched_pc = "remove" /\ sched_pc' = "cpu" /\ readyQueue' = dequeue(readyQueue)
        /\ running_pd' = p /\ pd' = pd
        /\ UNCHANGED <<process_d, T_PROCESS, waitQueue, sleeping_pd, wake_pc>>
    BY <1>1, <2>2 DEF SchedRemove, SchedStep, SchedUnchanged, tables
  <2>4. OnCpu = {} /\ OnCpu' = {p} /\ OnIo' = OnIo /\ Retired' = Retired
    BY <2>3 DEF OnCpu, OnIo, Retired
  <2>5. Moved(p, "ready", "cpu")
    <3>1. PhaseOf(p) = "ready"
      BY <2>2, PhaseFacts DEF SimInv
    <3>2. PhaseOf(p)' = "cpu"
      <4>1. OneOwner' /\ p \in OnCpu'
        BY <2>4 DEF SimInv
      <4> QED  BY <2>2, <4>1, PhaseFactsNext
    <3>3. \A q \in Pids \ {p} : Stays(q)
      BY <2>2, <2>3, <2>4 DEF Stays
    <3> QED  BY <3>1, <3>2, <3>3, StaysInPhase DEF Moved
  <2>6. \A q \in Pids : PhaseOf(q) # "cpu"
    BY <2>4, PhaseFacts DEF SimInv
  <2>7. SameCounts
    BY <2>3 DEF SameCounts, CpuDone, IoDone, Flag
  <2>8. LifeStep
    BY <2>2, <2>3, <2>5, <2>6, <2>7, MapPlain
  <2>9. LifeInv'
    BY <2>3, RetireesAreProcesses, LifeKept
  <2> QED  BY <2>8, <2>9
<1>2. CASE SchedCheck \/ SchedDoneCounter \/ SchedDoneReady \/ SchedDoneWait \/ SchedTryWait
  <2>1. /\ UNCHANGED <<process_d, T_PROCESS, pd, readyQueue, waitQueue, running_pd, sleeping_pd>>
        /\ wake_pc' = wake_pc
        /\ sched_pc \in {"check", "done?", "ready empty?", "wait empty?", "trywait"}
        /\ sched_pc' \in {"check", "done?", "ready empty?", "wait empty?", "trywait", "remove",
                          "exit"}
    BY <1>2 DEF SchedCheck, SchedDoneCounter, SchedDoneReady, SchedDoneWait, SchedTryWait,
                SchedStep, SchedUnchanged, tables
  <2>2. OnCpu' = OnCpu /\ OnIo' = OnIo
    BY <2>1 DEF OnCpu, OnIo
  <2> QED  BY <2>1, <2>2, RetireesAreProcesses, QuietLife
<1> QED  BY <1>1, <1>2 DEF dispatch

(* Whoever retires has had all of its line: _should_terminate says no more *)
(* than that, given how far the two indices may be apart.                  *)
LEMMA NothingLeft ==
    ASSUME NEW CONSTANT L, SimTypeOK(L), SimInv, LifeInv, NEW p \in Pids,
           pd[p].status \in {"NEW", "READY", "SLEEP"}, should_terminate(p)
    PROVE  Ended(p)
<1> DEFINE c == Len(process_d[p].cpu_burst)
           i == Len(process_d[p].io_burst)
           m == pd[p].cpu_index
           k == pd[p].io_index
<1>1. c \in Nat /\ i \in Nat /\ i <= c /\ c <= i + 1 /\ m \in Nat /\ k \in Nat
  BY LineFacts DEF process_t
<1>2. m = k \/ m = k + 1
  BY DEF SimInv, BurstsInStep
<1>3. m <= c /\ k <= i
  BY DEF LifeInv, WithinLine
<1>4. \/ c = 0
      \/ i = 0 /\ m >= c
      \/ i # 0 /\ ~ (m < c /\ k <= i) /\ ~ (m <= c /\ k < i)
  BY DEF should_terminate
<1>5. m = c /\ k = i <=> Ended(p)
  BY DEF Ended
<1> HIDE DEF c, i, m, k
<1>6. m = c /\ k = i
  BY <1>1, <1>2, <1>3, <1>4
<1> QED  BY <1>5, <1>6

LEMMA CpuFinishedLife ==
    ASSUME NEW CONSTANT L, SimTypeOK(L), SimInv, LifeInv, CpuFinished
    PROVE  LifeStep /\ LifeInv'
<1>1. /\ sched_pc = "cpu" /\ sched_pc' = "retire" /\ should_terminate(running_pd)
      /\ UNCHANGED <<process_d, T_PROCESS, pd, readyQueue, waitQueue, running_pd, sleeping_pd,
                     wake_pc>>
  BY DEF CpuFinished, SchedStep, CpuUnchanged, queues
<1>2. running_pd \in Pids /\ OnCpu' = OnCpu /\ OnIo' = OnIo
  BY <1>1, OwnedIsProcess DEF OnCpu, OnIo
<1>3. Ended(running_pd)
  BY <1>1, <1>2, NothingLeft DEF SimInv, StatusByPlace
<1> QED  BY <1>1, <1>2, <1>3, RetireesAreProcesses, QuietLife

LEMMA CpuRetireLife ==
    ASSUME NEW CONSTANT L, SimTypeOK(L), SimInv, LifeInv, CpuRetire, SimInv'
    PROVE  LifeStep /\ LifeInv'
<1>1. /\ sched_pc = "retire" /\ sched_pc' = "check" /\ retire(running_pd)
      /\ UNCHANGED <<process_d, T_PROCESS, readyQueue, waitQueue, running_pd, sleeping_pd, wake_pc>>
  BY DEF CpuRetire, SchedStep, CpuUnchanged, queues
<1>2. PICK p \in Pids : p = running_pd /\ Ended(p)
  BY <1>1, RetireesAreProcesses
<1>3. OnCpu = {p} /\ OnCpu' = {} /\ OnIo' = OnIo
  BY <1>1, <1>2 DEF OnCpu, OnIo
<1>4. /\ Retired' = Retired \cup {p}
      /\ \A q \in Pids : pd'[q].cpu_index = pd[q].cpu_index /\ pd'[q].io_index = pd[q].io_index
  BY <1>1, <1>2, RetireFacts DEF SimTypeOK
<1>5. Moved(p, "cpu", "terminated")
  <2>1. PhaseOf(p) = "cpu"
    BY <1>3, PhaseFacts DEF SimInv
  <2>2. PhaseOf(p)' = "terminated"
    BY <1>4, PhaseFactsNext DEF SimInv
  <2>3. \A q \in Pids \ {p} : Stays(q)
    BY <1>1, <1>3, <1>4 DEF Stays
  <2> QED  BY <2>1, <2>2, <2>3, StaysInPhase DEF Moved
<1>6. SameCounts
  BY <1>1, <1>4 DEF SameCounts, CpuDone, IoDone, Flag
<1>7. CpuDone(p) = Len(process_d[p].cpu_burst) /\ IoDone(p) = Len(process_d[p].io_burst)
  <2>1. ~ (wake_pc = "enqueue" /\ p = sleeping_pd)
    BY <1>3 DEF SimInv, OneOwner, Apart, OnIo
  <2>2. pd[p].cpu_index \in Nat /\ pd[p].io_index \in Nat
    BY LineFacts DEF process_t
  <2>3. CpuDone(p) = pd[p].cpu_index /\ IoDone(p) = pd[p].io_index
    BY <1>1, <2>1, <2>2 DEF CpuDone, IoDone, Flag
  <2> QED  BY <1>2, <2>3 DEF Ended
<1>8. LifeStep
  BY <1>1, <1>5, <1>6, <1>7, MapTerminate
<1>9. LifeInv'
  BY <1>1, <1>4, RetireesAreProcesses, LifeKept
<1> QED  BY <1>8, <1>9

LEMMA CpuEnqueueLife ==
    ASSUME NEW CONSTANT L, SimTypeOK(L), SimInv, LifeInv, CpuEnqueue, SimInv'
    PROVE  LifeStep /\ LifeInv'
<1>1. /\ sched_pc = "enqueue" /\ sched_pc' = "post"
      /\ waitQueue' = AddTo(waitQueue, running_pd, pd[running_pd].priority)
      /\ UNCHANGED <<process_d, T_PROCESS, pd, readyQueue, running_pd, sleeping_pd, wake_pc>>
  BY DEF CpuEnqueue, SchedStep, CpuUnchanged
<1>2. PICK p \in Pids : p = running_pd
  BY <1>1, OwnedIsProcess DEF OnCpu
<1>3. OnCpu = {p} /\ OnCpu' = {} /\ OnIo' = OnIo /\ Retired' = Retired
  BY <1>1, <1>2 DEF OnCpu, OnIo, Retired
<1>4. Carried(waitQueue') = Carried(waitQueue) \cup {p}
  <2>1. waitQueue \in Seq(Node) /\ pd[p].priority \in Int
    BY DEF SimTypeOK, process_t
  <2>2. waitQueue' = AddTo(waitQueue, p, pd[p].priority)
    BY <1>1, <1>2
  <2> QED  BY <2>1, <2>2, AddToFacts
<1>5. /\ pd[p] \in process_t /\ pd[p].cpu_index \in Nat /\ pd[p].io_index \in Nat
      /\ Len(process_d[p].cpu_burst) \in Nat
  BY LineFacts DEF process_t
<1>6. pd[p].cpu_index = pd[p].io_index + 1 /\ pd[p].cpu_index <= Len(process_d[p].cpu_burst)
  BY <1>1, <1>2 DEF SimInv, StatusByPlace, BurstsInStep, LifeInv, WithinLine
<1>7. Moved(p, "cpu", "waiting")
  <2>1. PhaseOf(p) = "cpu"
    BY <1>3, PhaseFacts DEF SimInv
  <2>2. PhaseOf(p)' = "waiting"
    <3>1. OneOwner' /\ p \in Carried(waitQueue)'
      BY <1>4 DEF SimInv
    <3> QED  BY <3>1, PhaseFactsNext
  <2>3. \A q \in Pids \ {p} : Stays(q)
    BY <1>1, <1>3, <1>4 DEF Stays
  <2> QED  BY <2>1, <2>2, <2>3, StaysInPhase DEF Moved
<1>8. /\ CpuDone(p) = pd[p].cpu_index - 1 /\ CpuDone(p)' = pd[p].cpu_index
      /\ IoDone(p) = pd[p].io_index
  <2>1. ~ (wake_pc = "enqueue" /\ p = sleeping_pd)
    BY <1>3 DEF SimInv, OneOwner, Apart, OnIo
  <2> QED  BY <1>1, <1>2, <1>5, <2>1 DEF CpuDone, IoDone, Flag
<1>9. /\ \A q \in Pids \ {p} : CpuDone(q)' = CpuDone(q)
      /\ \A q \in Pids : IoDone(q)' = IoDone(q)
  BY <1>1, <1>2 DEF CpuDone, IoDone, Flag
<1>10. LifeStep
  <2>1. CpuDone(p)' = CpuDone(p) + 1 /\ CpuDone(p) = IoDone(p)
    BY <1>5, <1>6, <1>8
  <2>2. CpuDone(p) < Len(process_d[p].cpu_burst)
    BY <1>5, <1>6, <1>8
  <2> QED  BY <1>1, <1>7, <1>9, <2>1, <2>2, MapCpuBurstDone
<1>11. LifeInv'
  BY <1>1, RetireesAreProcesses, LifeKept
<1> QED  BY <1>10, <1>11

LEMMA CpuPassesLife ==
    ASSUME NEW CONSTANT L, SimTypeOK(L), SimInv, LifeInv, CpuPost \/ CpuLog
    PROVE  LifeStep /\ LifeInv'
<1>1. /\ sched_pc \in {"post", "log"} /\ sched_pc' \in {"log", "check"}
      /\ UNCHANGED <<process_d, T_PROCESS, pd, readyQueue, waitQueue, running_pd, sleeping_pd,
                     wake_pc>>
  BY DEF CpuPost, CpuLog, SchedStep, CpuUnchanged, queues
<1>2. OnCpu' = OnCpu /\ OnIo' = OnIo
  BY <1>1 DEF OnCpu, OnIo
<1> QED  BY <1>1, <1>2, RetireesAreProcesses, QuietLife

LEMMA CpuLife ==
    ASSUME NEW CONSTANT L, SimTypeOK(L), SimInv, LifeInv, SimInv',
           CpuFinished \/ CpuRetire \/ CpuEnqueue \/ CpuPost \/ CpuLog
    PROVE  LifeStep /\ LifeInv'
  BY CpuFinishedLife, CpuRetireLife, CpuEnqueueLife, CpuPassesLife

LEMMA WakeRemoveLife ==
    ASSUME NEW CONSTANT L, SimTypeOK(L), SimInv, LifeInv, WakeRemove, SimInv'
    PROVE  LifeStep /\ LifeInv'
<1>1. waitQueue \in Seq(Node) /\ Len(waitQueue) # 0
  BY LenProperties DEF SimTypeOK, SimInv, SemaphoresCountQueues, WakeRemove, WakeStep, Flag
<1>2. PICK p \in Pids :
        /\ p = dequeued(waitQueue) /\ p # NULL
        /\ Carried(waitQueue) = Carried(dequeue(waitQueue)) \cup {p}
        /\ p \notin Carried(dequeue(waitQueue))
  BY <1>1, RemoveFacts DEF SimInv, OneOwner
<1>3. /\ wake_pc = "remove" /\ wake_pc' = "io" /\ waitQueue' = dequeue(waitQueue)
      /\ sleeping_pd' = p /\ pd' = pd
      /\ UNCHANGED <<process_d, T_PROCESS, readyQueue, running_pd, sched_pc>>
  BY <1>2 DEF WakeRemove, WakeStep, WakeUnchanged
<1>4. OnIo = {} /\ OnIo' = {p} /\ OnCpu' = OnCpu /\ Retired' = Retired
  BY <1>3 DEF OnCpu, OnIo, Retired
<1>5. Moved(p, "waiting", "io")
  <2>1. PhaseOf(p) = "waiting"
    BY <1>2, PhaseFacts DEF SimInv
  <2>2. PhaseOf(p)' = "io"
    BY <1>4, PhaseFactsNext DEF SimInv
  <2>3. \A q \in Pids \ {p} : Stays(q)
    BY <1>2, <1>3, <1>4 DEF Stays
  <2> QED  BY <2>1, <2>2, <2>3, StaysInPhase DEF Moved
<1>6. \A q \in Pids : PhaseOf(q) # "io"
  BY <1>4, PhaseFacts DEF SimInv
<1>7. SameCounts
  BY <1>3 DEF SameCounts, CpuDone, IoDone, Flag
<1>8. LifeStep
  BY <1>3, <1>5, <1>6, <1>7, MapPlain
<1>9. LifeInv'
  BY <1>3, RetireesAreProcesses, LifeKept
<1> QED  BY <1>8, <1>9

LEMMA IoFinishedLife ==
    ASSUME NEW CONSTANT L, SimTypeOK(L), SimInv, LifeInv, IoFinished
    PROVE  LifeStep /\ LifeInv'
<1>1. /\ wake_pc = "io" /\ wake_pc' = "retire" /\ should_terminate(sleeping_pd)
      /\ UNCHANGED <<process_d, T_PROCESS, pd, readyQueue, waitQueue, running_pd, sleeping_pd,
                     sched_pc>>
  BY DEF IoFinished, WakeStep, WakeUnchanged, queues
<1>2. sleeping_pd \in Pids /\ OnCpu' = OnCpu /\ OnIo' = OnIo
  BY <1>1, OwnedIsProcess DEF OnCpu, OnIo
<1>3. Ended(sleeping_pd)
  BY <1>1, <1>2, NothingLeft DEF SimInv, StatusByPlace
<1> QED  BY <1>1, <1>2, <1>3, RetireesAreProcesses, QuietLife

LEMMA IoRetireLife ==
    ASSUME NEW CONSTANT L, SimTypeOK(L), SimInv, LifeInv, IoRetire, SimInv'
    PROVE  LifeStep /\ LifeInv'
<1>1. /\ wake_pc = "retire" /\ wake_pc' = "check" /\ retire(sleeping_pd)
      /\ UNCHANGED <<process_d, T_PROCESS, readyQueue, waitQueue, running_pd, sleeping_pd, sched_pc>>
  BY DEF IoRetire, WakeStep, WakeUnchanged, queues
<1>2. PICK p \in Pids : p = sleeping_pd /\ Ended(p)
  BY <1>1, RetireesAreProcesses
<1>3. OnIo = {p} /\ OnIo' = {} /\ OnCpu' = OnCpu
  BY <1>1, <1>2 DEF OnCpu, OnIo
<1>4. /\ Retired' = Retired \cup {p}
      /\ \A q \in Pids : pd'[q].cpu_index = pd[q].cpu_index /\ pd'[q].io_index = pd[q].io_index
  BY <1>1, <1>2, RetireFacts DEF SimTypeOK
<1>5. Moved(p, "io", "terminated")
  <2>1. PhaseOf(p) = "io"
    BY <1>3, PhaseFacts DEF SimInv
  <2>2. PhaseOf(p)' = "terminated"
    BY <1>4, PhaseFactsNext DEF SimInv
  <2>3. \A q \in Pids \ {p} : Stays(q)
    BY <1>1, <1>3, <1>4 DEF Stays
  <2> QED  BY <2>1, <2>2, <2>3, StaysInPhase DEF Moved
<1>6. SameCounts
  BY <1>1, <1>4 DEF SameCounts, CpuDone, IoDone, Flag
<1>7. CpuDone(p) = Len(process_d[p].cpu_burst) /\ IoDone(p) = Len(process_d[p].io_burst)
  <2>1. ~ (sched_pc = "enqueue" /\ p = running_pd)
    <3>1. p \notin OnCpu
      BY <1>3 DEF SimInv, OneOwner, Apart
    <3> QED  BY <3>1 DEF OnCpu
  <2>2. pd[p].cpu_index \in Nat /\ pd[p].io_index \in Nat
    BY LineFacts DEF process_t
  <2>3. CpuDone(p) = pd[p].cpu_index /\ IoDone(p) = pd[p].io_index
    BY <1>1, <2>1, <2>2 DEF CpuDone, IoDone, Flag
  <2> QED  BY <1>2, <2>3 DEF Ended
<1>8. LifeStep
  BY <1>1, <1>5, <1>6, <1>7, MapTerminate
<1>9. LifeInv'
  BY <1>1, <1>4, RetireesAreProcesses, LifeKept
<1> QED  BY <1>8, <1>9

(* The I/O burst is counted when its process leaves, a step later.         *)
LEMMA IoBurstDoneLife ==
    ASSUME NEW CONSTANT L, SimTypeOK(L), SimInv, LifeInv, IoBurstDone
    PROVE  LifeStep /\ LifeInv'
<1>1. /\ wake_pc = "io" /\ ~ should_terminate(sleeping_pd)
      /\ UNCHANGED <<process_d, T_PROCESS, readyQueue, waitQueue, running_pd, sleeping_pd, sched_pc>>
  BY DEF IoBurstDone, WakeUnchanged, queues
<1>2. PICK p \in Pids : p = sleeping_pd
  BY <1>1, OwnedIsProcess DEF OnIo
<1>3. /\ pd \in [Pids -> process_t] /\ pd[p] \in process_t /\ pd[p].status = "SLEEP"
      /\ pd[p].io_index \in Nat
  BY <1>1, <1>2 DEF SimTypeOK, SimInv, StatusByPlace, process_t
<1> DEFINE served == [pd[p] EXCEPT !.io_time = @ + IoBurst(p), !.process_time = @ + IoBurst(p),
                                   !.io_index = @ + 1, !.status = "READY"]
<1>4. wake_pc' = "enqueue" /\ pd' = [pd EXCEPT ![p] = served]
  BY <1>2, <1>3 DEF IoBurstDone, WakeStep
<1>5. /\ served.status = "READY" /\ served.io_index = pd[p].io_index + 1
      /\ served.cpu_index = pd[p].cpu_index
  BY <1>3 DEF process_t
<1> HIDE DEF served
<1>6. pd'[p] = served /\ \A q \in Pids : q # p => pd'[q] = pd[q]
  BY <1>3, <1>4
<1>7. OnCpu' = OnCpu /\ OnIo = {p} /\ OnIo' = {p}
  BY <1>1, <1>2, <1>4 DEF OnCpu, OnIo
<1>8. Retired' = Retired
  BY <1>3, <1>5, <1>6 DEF Retired
<1>9. SameCounts
  <2> SUFFICES ASSUME NEW q \in Pids
               PROVE  CpuDone(q)' = CpuDone(q) /\ IoDone(q)' = IoDone(q)
    BY DEF SameCounts
  <2>1. pd'[q].cpu_index = pd[q].cpu_index
    BY <1>5, <1>6
  <2>2. CpuDone(q)' = CpuDone(q)
    BY <1>1, <2>1 DEF CpuDone
  <2>3. CASE q = p
    <3>1. IoDone(p) = pd[p].io_index - 0 /\ IoDone(p)' = pd'[p].io_index - 1
      BY <1>1, <1>2, <1>4 DEF IoDone, Flag
    <3> QED  BY <1>3, <1>5, <1>6, <2>2, <2>3, <3>1
  <2>4. CASE q # p
    <3>1. pd'[q] = pd[q]
      BY <1>6, <2>4
    <3> QED  BY <1>1, <1>2, <2>2, <2>4, <3>1 DEF IoDone, Flag
  <2> QED  BY <2>3, <2>4
<1>10. LifeStep
  BY <1>1, <1>7, <1>8, <1>9, QuietMaps
<1>11. pd[p].io_index + 1 <= Len(process_d[p].io_burst)
  <2>1. pd[p].io_index < Len(process_d[p].io_burst)
    BY <1>1, <1>2, BurstIndices DEF BurstIndexInBounds
  <2> QED  BY <1>3, <2>1, LineFacts
<1>12. WithinLine'
  BY <1>1, <1>5, <1>6, <1>11 DEF LifeInv, WithinLine
<1>13. RetiresEnded'
  <2>1. ASSUME sched_pc = "retire" PROVE running_pd \in Pids /\ running_pd # p
    BY <1>7, <2>1, OwnedIsProcess DEF OnCpu, SimInv, OneOwner, Apart
  <2> QED  BY <1>1, <1>4, <1>6, <2>1 DEF LifeInv, RetiresEnded, Ended
<1>14. Uncreated'
  <2>1. ~ (p >= T_PROCESS)
    <3>1. p \in 0 .. T_PROCESS - 1 /\ T_PROCESS \in Int
      BY <1>7 DEF SimInv, OneOwner, SimTypeOK
    <3> QED  BY <3>1
  <2> QED  BY <1>1, <1>6, <2>1 DEF LifeInv, Uncreated
<1> QED  BY <1>10, <1>12, <1>13, <1>14 DEF LifeInv

LEMMA IoEnqueueLife ==
    ASSUME NEW CONSTANT L, SimTypeOK(L), SimInv, LifeInv, IoEnqueue, SimInv'
    PROVE  LifeStep /\ LifeInv'
<1>1. /\ wake_pc = "enqueue" /\ wake_pc' = "post"
      /\ readyQueue' = AddTo(readyQueue, sleeping_pd, pd[sleeping_pd].priority)
      /\ UNCHANGED <<process_d, T_PROCESS, pd, waitQueue, running_pd, sleeping_pd, sched_pc>>
  BY DEF IoEnqueue, WakeStep, WakeUnchanged
<1>2. PICK p \in Pids : p = sleeping_pd
  BY <1>1, OwnedIsProcess DEF OnIo
<1>3. OnIo = {p} /\ OnIo' = {} /\ OnCpu' = OnCpu /\ Retired' = Retired
  BY <1>1, <1>2 DEF OnCpu, OnIo, Retired
<1>4. Carried(readyQueue') = Carried(readyQueue) \cup {p}
  <2>1. readyQueue \in Seq(Node) /\ pd[p].priority \in Int
    BY DEF SimTypeOK, process_t
  <2>2. readyQueue' = AddTo(readyQueue, p, pd[p].priority)
    BY <1>1, <1>2
  <2> QED  BY <2>1, <2>2, AddToFacts
<1>5. /\ pd[p] \in process_t /\ pd[p].cpu_index \in Nat /\ pd[p].io_index \in Nat
      /\ Len(process_d[p].io_burst) \in Nat
  BY LineFacts DEF process_t
<1>6. pd[p].cpu_index = pd[p].io_index /\ pd[p].io_index <= Len(process_d[p].io_burst)
  BY <1>1, <1>2 DEF SimInv, StatusByPlace, BurstsInStep, LifeInv, WithinLine
<1>7. Moved(p, "io", "ready")
  <2>1. PhaseOf(p) = "io"
    BY <1>3, PhaseFacts DEF SimInv
  <2>2. PhaseOf(p)' = "ready"
    <3>1. OneOwner' /\ p \in Carried(readyQueue)'
      BY <1>4 DEF SimInv
    <3> QED  BY <3>1, PhaseFactsNext
  <2>3. \A q \in Pids \ {p} : Stays(q)
    BY <1>1, <1>3, <1>4 DEF Stays
  <2> QED  BY <2>1, <2>2, <2>3, StaysInPhase DEF Moved
<1>8. /\ IoDone(p) = pd[p].io_index - 1 /\ IoDone(p)' = pd[p].io_index
      /\ CpuDone(p) = pd[p].cpu_index
  <2>1. ~ (sched_pc = "enqueue" /\ p = running_pd)
    <3>1. p \notin OnCpu
      BY <1>3 DEF SimInv, OneOwner, Apart
    <3> QED  BY <3>1 DEF OnCpu
  <2> QED  BY <1>1, <1>2, <1>5, <2>1 DEF CpuDone, IoDone, Flag
<1>9. /\ \A q \in Pids \ {p} : IoDone(q)' = IoDone(q)
      /\ \A q \in Pids : CpuDone(q)' = CpuDone(q)
  BY <1>1, <1>2 DEF CpuDone, IoDone, Flag
<1>10. LifeStep
  <2>1. IoDone(p)' = IoDone(p) + 1 /\ IoDone(p) + 1 = CpuDone(p)
    BY <1>5, <1>6, <1>8
  <2>2. IoDone(p) < Len(process_d[p].io_burst)
    BY <1>5, <1>6, <1>8
  <2> QED  BY <1>1, <1>7, <1>9, <2>1, <2>2, MapIoBurstDone
<1>11. LifeInv'
  BY <1>1, RetireesAreProcesses, LifeKept
<1> QED  BY <1>10, <1>11

LEMMA WakeUpLife ==
    ASSUME NEW CONSTANT L, SimTypeOK(L), SimInv, LifeInv, wakeUp, SimInv'
    PROVE  LifeStep /\ LifeInv'
<1>1. CASE WakeCheck \/ WakeTryWait \/ IoPost
  <2>1. /\ wake_pc \in {"check", "trywait", "post"}
        /\ wake_pc' \in {"check", "trywait", "remove", "exit"}
        /\ UNCHANGED <<process_d, T_PROCESS, pd, readyQueue, waitQueue, running_pd, sleeping_pd,
                       sched_pc>>
    BY <1>1 DEF WakeCheck, WakeTryWait, IoPost, WakeStep, WakeUnchanged, queues
  <2>2. OnCpu' = OnCpu /\ OnIo' = OnIo
    BY <2>1 DEF OnCpu, OnIo
  <2> QED  BY <2>1, <2>2, RetireesAreProcesses, QuietLife
<1>2. CASE WakeRemove \/ IoFinished \/ IoRetire \/ IoBurstDone \/ IoEnqueue
  BY <1>2, WakeRemoveLife, IoFinishedLife, IoRetireLife, IoBurstDoneLife, IoEnqueueLife
<1> QED  BY <1>1, <1>2 DEF wakeUp

(* The policies' own steps: the tables may change, but no index and no     *)
(* place does ...                                                          *)
LEMMA ServeLife ==
    ASSUME NEW CONSTANT L, SimTypeOK(L), SimInv, LifeInv,
           sched_pc \in Serving, sched_pc' \in Serving, Retired' = Retired,
           \A q \in Pids : /\ pd'[q].cpu_index = pd[q].cpu_index
                           /\ pd'[q].io_index = pd[q].io_index,
           UNCHANGED <<queues, running_pd>>, CpuUnchanged
    PROVE  LifeStep /\ LifeInv'
<1>1. /\ sched_pc # "enqueue" /\ sched_pc' # "enqueue" /\ sched_pc' # "retire"
      /\ UNCHANGED <<process_d, T_PROCESS, readyQueue, waitQueue, running_pd, sleeping_pd, wake_pc>>
  BY DEF Serving, CpuUnchanged, queues
<1>2. OnCpu' = OnCpu /\ OnIo' = OnIo
  <2>1. OnCpu = {running_pd} /\ OnCpu' = {running_pd'}
    BY ServingHoldsCpu, ServingHoldsCpuNext
  <2> QED  BY <1>1, <2>1 DEF OnIo
<1>3. SameCounts
  BY <1>1 DEF SameCounts, CpuDone, IoDone, Flag
<1>4. LifeStep
  BY <1>1, <1>2, <1>3, QuietMaps
<1>5. LifeInv'
  BY <1>1, RetireesAreProcesses, LifeKept
<1> QED  BY <1>4, <1>5

(* ... and the one that ends a burst moves the index before the process    *)
(* leaves the CPU: the burst is counted with CpuEnqueue.                   *)
LEMMA BurstOverLife ==
    ASSUME NEW CONSTANT L, SimTypeOK(L), SimInv, LifeInv, NEW slept \in process_t,
           sched_pc \in Serving \ {"cpu"}, sched_pc' = "enqueue", Retired' = Retired,
           pd' = [pd EXCEPT ![running_pd] = slept],
           slept.cpu_index = pd[running_pd].cpu_index + 1,
           slept.io_index = pd[running_pd].io_index,
           UNCHANGED <<queues, running_pd>>, CpuUnchanged
    PROVE  LifeStep /\ LifeInv'
<1>1. /\ sched_pc # "enqueue" /\ sched_pc # "cpu" /\ sched_pc' = "enqueue"
      /\ UNCHANGED <<process_d, T_PROCESS, readyQueue, waitQueue, running_pd, sleeping_pd, wake_pc>>
  BY DEF Serving, CpuUnchanged, queues
<1>2. PICK p \in Pids : p = running_pd
  BY RunningFacts
<1>3. /\ OnCpu = {p} /\ OnCpu' = {p} /\ OnIo' = OnIo
  <2>1. OnCpu = {running_pd} /\ OnCpu' = {running_pd'}
    BY ServingHoldsCpu, ServingHoldsCpuNext
  <2> QED  BY <1>1, <1>2, <2>1 DEF OnIo
<1>4. /\ pd \in [Pids -> process_t] /\ pd[p] \in process_t
      /\ pd[p].cpu_index < Len(process_d[p].cpu_burst)
      /\ pd[p].cpu_index \in Nat /\ Len(process_d[p].cpu_burst) \in Nat
  BY <1>1, <1>2, RunningFacts, LineFacts DEF process_t
<1>5. pd'[p] = slept /\ \A q \in Pids : q # p => pd'[q] = pd[q]
  BY <1>2, <1>4
<1>6. slept.cpu_index = pd[p].cpu_index + 1 /\ slept.io_index = pd[p].io_index
  BY <1>2
<1>7. SameCounts
  <2> SUFFICES ASSUME NEW q \in Pids
               PROVE  CpuDone(q)' = CpuDone(q) /\ IoDone(q)' = IoDone(q)
    BY DEF SameCounts
  <2>1. pd'[q].io_index = pd[q].io_index
    BY <1>5, <1>6
  <2>2. IoDone(q)' = IoDone(q)
    BY <1>1, <2>1 DEF IoDone
  <2>3. CASE q = p
    <3>1. CpuDone(p) = pd[p].cpu_index - 0 /\ CpuDone(p)' = pd'[p].cpu_index - 1
      BY <1>1, <1>2 DEF CpuDone, Flag
    <3> QED  BY <1>4, <1>5, <1>6, <2>2, <2>3, <3>1
  <2>4. CASE q # p
    <3>1. pd'[q] = pd[q]
      BY <1>5, <2>4
    <3> QED  BY <1>1, <1>2, <2>2, <2>4, <3>1 DEF CpuDone, Flag
  <2> QED  BY <2>3, <2>4
<1>8. LifeStep
  BY <1>1, <1>3, <1>7, QuietMaps
<1>9. WithinLine'
  BY <1>1, <1>4, <1>5, <1>6 DEF LifeInv, WithinLine
<1>10. RetiresEnded'
  <2>1. ASSUME wake_pc = "retire" PROVE sleeping_pd \in Pids /\ sleeping_pd # p
    BY <1>3, <2>1, OwnedIsProcess DEF OnIo, SimInv, OneOwner, Apart
  <2> QED  BY <1>1, <1>5, <2>1 DEF LifeInv, RetiresEnded, Ended
<1>11. Uncreated'
  <2>1. ~ (p >= T_PROCESS)
    <3>1. p \in 0 .. T_PROCESS - 1 /\ T_PROCESS \in Int
      BY <1>3 DEF SimInv, OneOwner, SimTypeOK
    <3> QED  BY <3>1
  <2> QED  BY <1>1, <1>5, <2>1 DEF LifeInv, Uncreated
<1> QED  BY <1>8, <1>9, <1>10, <1>11 DEF LifeInv

(* The steps every policy shares.                                          *)
LEMMA SharedLife ==
    ASSUME NEW CONSTANT L, SimTypeOK(L), SimInv, LifeInv, SimInv',
           \/ main \/ add_arrival \/ dispatch \/ wakeUp \/ UNCHANGED vars
           \/ CpuFinished \/ CpuRetire \/ CpuEnqueue \/ CpuPost \/ CpuLog
    PROVE  LifeStep /\ LifeInv'
  BY MainLife, ArrivalLife, DispatchLife, WakeUpLife, CpuLife

LEMMA InitLife ==
    ASSUME Init
    PROVE  Lifecycle!LifecycleInit /\ LifeInv
<1>1. \A p \in Pids : pd[p].cpu_index = 0 /\ pd[p].io_index = 0 /\ pd[p].status = "NEW"
  BY DEF Init, create_process
<1>2. sched_pc = "unborn" /\ wake_pc = "unborn" /\ process_d \in Workloads
  BY DEF Init
<1>3. \A p \in Pids : CpuDone(p) = 0 /\ IoDone(p) = 0
  BY <1>1, <1>2 DEF CpuDone, IoDone, Flag
<1>4. \A p \in Pids : PhaseOf(p) = "absent"
  <2>1. OnCpu = {} /\ OnIo = {} /\ Retired = {}
    BY <1>1, <1>2 DEF OnCpu, OnIo, Retired
  <2>2. Carried(readyQueue) = {} /\ Carried(waitQueue) = {}
    BY DEF Init, Carried, ToSet
  <2> QED  BY <2>1, <2>2 DEF PhaseOf
<1>5. Lifecycle!LifecycleInit
  BY <1>2, <1>3, <1>4 DEF Lifecycle!LifecycleInit, CpuDone, IoDone
<1>6. LifeInv
  <2>1. \A p \in Pids : /\ Len(process_d[p].cpu_burst) \in Nat
                       /\ Len(process_d[p].io_burst) \in Nat
    BY <1>2, WorkloadAssumption, LenProperties DEF burst_line
  <2> QED  BY <1>1, <1>2, <2>1 DEF LifeInv, WithinLine, RetiresEnded, Uncreated
<1> QED  BY <1>5, <1>6
-----------------------------------------------------------------------------
(***************************************************************************)
(* What the processes are charged: the bursts behind their times and the   *)
(* clock behind their sum; what is reported and logged of it; and whose    *)
(* turn it is.                                                             *)
(***************************************************************************)
(* The steps of the threads that leave the process table and the clock     *)
(* alone.                                                                  *)
Passive ==
    \/ main \/ dispatch \/ CpuFinished \/ CpuEnqueue \/ CpuPost \/ CpuLog
    \/ WakeCheck \/ WakeTryWait \/ WakeRemove \/ IoFinished \/ IoEnqueue \/ IoPost
    \/ UNCHANGED vars

LEMMA PassiveSteps ==
    ASSUME Passive
    PROVE  UNCHANGED <<process_d, T_PROCESS, pd, task_list, global_counter>>
<1>1. CASE main
  BY <1>1 DEF main, CreateScheduler, CreateWakeup, JoinWakeup, JoinScheduler, write_result, tables
<1>2. CASE dispatch
  BY <1>2 DEF dispatch, SchedCheck, SchedDoneCounter, SchedDoneReady, SchedDoneWait, SchedTryWait,
              SchedRemove, SchedUnchanged, tables
<1>3. CASE CpuFinished \/ CpuEnqueue \/ CpuPost \/ CpuLog
  BY <1>3 DEF CpuFinished, CpuEnqueue, CpuPost, CpuLog, CpuUnchanged
<1>4. CASE WakeCheck \/ WakeTryWait \/ WakeRemove \/ IoFinished \/ IoEnqueue \/ IoPost
  BY <1>4 DEF WakeCheck, WakeTryWait, WakeRemove, IoFinished, IoEnqueue, IoPost, WakeUnchanged
<1>5. CASE UNCHANGED vars
  BY <1>5 DEF vars, tables
<1> QED  BY <1>1, <1>2, <1>3, <1>4, <1>5 DEF Passive

(* A step that charges process p with some CPU and some I/O time: the      *)
(* clock advances by both, and nobody else is charged.                     *)
Charges(p, cpu, io) ==
    /\ process_d' = process_d /\ global_counter' = global_counter + (cpu + io)
    /\ pd'[p].cpu_time = pd[p].cpu_time + cpu
    /\ pd'[p].io_time = pd[p].io_time + io
    /\ pd'[p].process_time = pd[p].process_time + (cpu + io)
    /\ \A q \in Pids \ {p} : /\ pd'[q].cpu_time = pd[q].cpu_time
                             /\ pd'[q].io_time = pd[q].io_time
                             /\ pd'[q].process_time = pd[q].process_time

LEMMA TimesAreNat ==
    ASSUME NEW CONSTANT L, SimTypeOK(L), NEW p \in Pids
    PROVE  /\ pd[p].cpu_time \in Nat /\ pd[p].io_time \in Nat /\ pd[p].process_time \in Nat
           /\ pd[p].cpu_index \in Nat /\ pd[p].io_index \in Nat /\ pd[p].turnaround_time \in Nat
           /\ global_counter \in Nat
<1>1. pd[p] \in process_t
  BY DEF SimTypeOK
<1> QED  BY <1>1 DEF process_t, SimTypeOK

(* Retiring charges nobody.                                                *)
LEMMA RetireKeepsTimes ==
    ASSUME NEW CONSTANT L, SimTypeOK(L), NEW p \in Pids, retire(p)
    PROVE  /\ \A q \in Pids : /\ pd'[q].cpu_time = pd[q].cpu_time
                              /\ pd'[q].io_time = pd[q].io_time
                              /\ pd'[q].process_time = pd[q].process_time
                              /\ pd'[q].cpu_index = pd[q].cpu_index
                              /\ pd'[q].io_index = pd[q].io_index
                              /\ pd'[q].priority = pd[q].priority
                              /\ pd'[q].remaining_time = pd[q].remaining_time
                              /\ q # p => pd'[q] = pd[q]
           /\ pd'[p].turnaround_time = pd[p].process_time
<1> DEFINE retired == [pd[p] EXCEPT !.status = "TERMINATED",
                                    !.turnaround_time = pd[p].process_time]
<1>1. pd \in [Pids -> process_t] /\ pd[p] \in process_t
  BY DEF SimTypeOK
<1>2. pd' = [pd EXCEPT ![p] = retired]
  BY DEF retire
<1>3. /\ retired.cpu_time = pd[p].cpu_time /\ retired.io_time = pd[p].io_time
      /\ retired.process_time = pd[p].process_time
      /\ retired.cpu_index = pd[p].cpu_index /\ retired.io_index = pd[p].io_index
      /\ retired.priority = pd[p].priority
      /\ retired.remaining_time = pd[p].remaining_time
      /\ retired.turnaround_time = pd[p].process_time
  BY <1>1 DEF process_t
<1> HIDE DEF retired
<1>4. pd'[p] = retired /\ \A q \in Pids : q # p => pd'[q] = pd[q]
  BY <1>1, <1>2
<1> QED  BY <1>3, <1>4

(* The I/O burst is charged in full; no other shared step charges anybody. *)
LEMMA IoBurstIsNat ==
    ASSUME NEW CONSTANT L, SimTypeOK(L), SimInv, wake_pc = "io", ~ should_terminate(sleeping_pd)
    PROVE  /\ sleeping_pd \in Pids /\ pd[sleeping_pd].status = "SLEEP"
           /\ pd[sleeping_pd].io_index + 1 \in 1 .. Len(process_d[sleeping_pd].io_burst)
           /\ IoBurst(sleeping_pd) \in Nat
<1>1. sleeping_pd \in Pids
  BY OwnedIsProcess DEF OnIo
<1>2. pd[sleeping_pd].io_index < Len(process_d[sleeping_pd].io_burst)
  BY BurstIndices DEF BurstIndexInBounds
<1>3. pd[sleeping_pd].io_index \in Nat
  BY <1>1, TimesAreNat
<1>4. /\ process_d[sleeping_pd].io_burst \in Seq(Nat)
      /\ Len(process_d[sleeping_pd].io_burst) \in Nat
  BY <1>1, LineFacts
<1>5. pd[sleeping_pd].io_index + 1 \in 1 .. Len(process_d[sleeping_pd].io_burst)
  BY <1>2, <1>3, <1>4
<1>6. IoBurst(sleeping_pd) \in Nat
  BY <1>4, <1>5, ElementOfSeq DEF IoBurst
<1> QED  BY <1>1, <1>5, <1>6 DEF SimInv, StatusByPlace

LEMMA IoBurstCharges ==
    ASSUME NEW CONSTANT L, SimTypeOK(L), SimInv, IoBurstDone
    PROVE  \E p \in Pids :
             /\ p = sleeping_pd /\ pd[p].status = "SLEEP" /\ wake_pc = "io"
             /\ IoBurst(p) \in Nat /\ Charges(p, 0, IoBurst(p))
             /\ pd[p].io_index + 1 \in 1 .. Len(process_d[p].io_burst)
             /\ pd'[p].io_index = pd[p].io_index + 1
             /\ pd'[p].cpu_index = pd[p].cpu_index
             /\ pd'[p].priority = pd[p].priority
             /\ pd'[p].remaining_time = pd[p].remaining_time
             /\ pd'[p].status = "READY"
             /\ \A q \in Pids \ {p} : pd'[q] = pd[q]
<1>1. /\ wake_pc = "io" /\ ~ should_terminate(sleeping_pd) /\ process_d' = process_d
  BY DEF IoBurstDone, WakeUnchanged
<1>2. PICK p \in Pids : p = sleeping_pd
  BY <1>1, IoBurstIsNat
<1>3. /\ pd[p].status = "SLEEP" /\ IoBurst(p) \in Nat
      /\ pd[p].io_index + 1 \in 1 .. Len(process_d[p].io_burst)
  BY <1>1, <1>2, IoBurstIsNat
<1> DEFINE burst == IoBurst(p)
           served == [pd[p] EXCEPT !.io_time = @ + burst, !.process_time = @ + burst,
                                   !.io_index = @ + 1, !.status = "READY"]
<1>4. pd' = [pd EXCEPT ![p] = served] /\ global_counter' = global_counter + burst
  BY <1>2, <1>3 DEF IoBurstDone
<1>5. pd \in [Pids -> process_t] /\ pd[p] \in process_t
  BY DEF SimTypeOK
<1>6. /\ served.cpu_time = pd[p].cpu_time /\ served.io_time = pd[p].io_time + burst
      /\ served.process_time = pd[p].process_time + burst
      /\ served.io_index = pd[p].io_index + 1 /\ served.cpu_index = pd[p].cpu_index
      /\ served.priority = pd[p].priority /\ served.remaining_time = pd[p].remaining_time
      /\ served.status = "READY"
  BY <1>5 DEF process_t
<1>7. burst \in Nat
  BY <1>3
<1> HIDE DEF served, burst
<1>8. pd'[p] = served /\ \A q \in Pids \ {p} : pd'[q] = pd[q]
  BY <1>4, <1>5
<1>9. Charges(p, 0, burst)
  <2>1. 0 + burst = burst /\ pd[p].cpu_time + 0 = pd[p].cpu_time
    BY <1>7, TimesAreNat
  <2> QED  BY <1>1, <1>4, <1>6, <1>8, <2>1 DEF Charges
<1> QED  BY <1>1, <1>2, <1>3, <1>6, <1>8, <1>9 DEF burst
-----------------------------------------------------------------------------
(* The clock.  The recursive function LastAdmission reads its value from,  *)
(* for the lines d.                                                        *)
Admits(a, d) ==
    a = [p \in Pids |-> IF p = 0 THEN d[0].a_time
                        ELSE LET due == d[p].a_time
                                 free == a[p - 1] + 1
                             IN  IF due > free THEN due ELSE free]

Admitted(d) == CHOOSE a : Admits(a, d)

LEMMA LastIsAdmitted == LastAdmission = Admitted(process_d)[TOTAL_PROCESS - 1]
  BY DEF LastAdmission, Admitted, Admits

(* It exists, by induction on the number of processes.                     *)
LEMMA AdmissionExists ==
    ASSUME NEW d
    PROVE  \E a : Admits(a, d)
<1> DEFINE Next1(a, p) == IF d[p].a_time > a[p - 1] + 1 THEN d[p].a_time ELSE a[p - 1] + 1
           Partial(a, n) == a = [p \in 0 .. n |-> IF p = 0 THEN d[0].a_time ELSE Next1(a, p)]
           gaps == {n \in Nat : ~ \E a : Partial(a, n)}
<1>1. 0 \notin gaps
  <2> DEFINE a == [p \in 0 .. 0 |-> d[0].a_time]
  <2>1. Partial(a, 0)
    OBVIOUS
  <2> QED  BY <2>1
<1>2. ASSUME NEW n \in Nat, n \notin gaps
      PROVE  n + 1 \notin gaps
  <2>1. PICK a : Partial(a, n)
    BY <1>2
  <2> DEFINE b == [p \in 0 .. n + 1 |-> IF p = 0 THEN d[0].a_time ELSE Next1(a, p)]
  <2>2. \A p \in 0 .. n : p \in 0 .. n + 1 /\ b[p] = a[p]
    <3> SUFFICES ASSUME NEW p \in 0 .. n PROVE p \in 0 .. n + 1 /\ b[p] = a[p]
      OBVIOUS
    <3>1. p \in 0 .. n + 1
      OBVIOUS
    <3>2. a[p] = IF p = 0 THEN d[0].a_time ELSE Next1(a, p)
      BY <2>1
    <3> QED  BY <3>1, <3>2
  <2>3. \A p \in 0 .. n + 1 : p # 0 => p - 1 \in 0 .. n
    OBVIOUS
  <2>4. \A p \in 0 .. n + 1 : b[p] = IF p = 0 THEN d[0].a_time ELSE Next1(b, p)
    <3> SUFFICES ASSUME NEW p \in 0 .. n + 1
                 PROVE  b[p] = IF p = 0 THEN d[0].a_time ELSE Next1(b, p)
      OBVIOUS
    <3>1. b[p] = IF p = 0 THEN d[0].a_time ELSE Next1(a, p)
      OBVIOUS
    <3>2. p # 0 => b[p - 1] = a[p - 1]
      BY <2>2, <2>3
    <3> HIDE DEF b
    <3> QED  BY <3>1, <3>2
  <2>5. b = [p \in 0 .. n + 1 |-> b[p]]
    OBVIOUS
  <2> HIDE DEF b, Next1
  <2>6. Partial(b, n + 1)
    BY <2>4, <2>5
  <2> QED  BY <2>6
<1>3. gaps = {}
  <2> SUFFICES ASSUME gaps # {} PROVE FALSE
    OBVIOUS
  <2>1. gaps \in SUBSET Nat
    OBVIOUS
  <2> HIDE DEF gaps
  <2>2. PICK n \in gaps : \A m \in gaps : n <= m
    BY <2>1, LeastNatural
  <2>3. n \in Nat /\ n # 0
    BY <1>1, <2>1
  <2>4. n - 1 \in Nat /\ n - 1 \notin gaps /\ (n - 1) + 1 = n
    BY <2>2, <2>3
  <2> QED  BY <1>2, <2>4
<1>4. TOTAL_PROCESS - 1 \in Nat /\ 0 .. TOTAL_PROCESS - 1 = Pids
  BY TotalAssumption DEF Pids
<1>5. PICK a : Partial(a, TOTAL_PROCESS - 1)
  <2>1. TOTAL_PROCESS - 1 \notin gaps
    <3> HIDE DEF gaps
    <3> QED  BY <1>3
  <2> QED  BY <1>4, <2>1
<1>6. Admits(a, d)
  BY <1>4, <1>5 DEF Admits
<1> QED  BY <1>6

LEMMA AdmittedFacts ==
    ASSUME NEW d, \A p \in Pids : d[p].a_time \in Nat
    PROVE  /\ \A p \in Pids : Admitted(d)[p] \in Nat
           /\ Admitted(d)[0] = d[0].a_time
           /\ \A p \in Pids \ {0} :
                Admitted(d)[p] = IF d[p].a_time > Admitted(d)[p - 1] + 1
                                 THEN d[p].a_time ELSE Admitted(d)[p - 1] + 1
<1> DEFINE a == Admitted(d)
<1>1. Admits(a, d)
  BY AdmissionExists DEF Admitted
<1> HIDE DEF a
<1>2. \A p \in Pids : a[p] = IF p = 0 THEN d[0].a_time
                             ELSE IF d[p].a_time > a[p - 1] + 1 THEN d[p].a_time ELSE a[p - 1] + 1
  BY <1>1 DEF Admits
<1>3. 0 \in Pids /\ Pids \subseteq Nat /\ \A p \in Pids \ {0} : p - 1 \in Pids
  BY TotalAssumption DEF Pids
<1>4. \A p \in Pids : a[p] \in Nat
  <2> DEFINE B == {p \in Pids : a[p] \notin Nat}
  <2> SUFFICES ASSUME B # {} PROVE FALSE
    OBVIOUS
  <2>1. B \in SUBSET Nat
    BY <1>3
  <2> HIDE DEF B
  <2>2. PICK p \in B : \A q \in B : p <= q
    BY <2>1, LeastNatural
  <2>3. p \in Pids /\ a[p] \notin Nat /\ p \in Nat
    BY <1>3 DEF B
  <2>4. p # 0
    BY <1>2, <1>3, <2>3
  <2>5. p - 1 \in Pids /\ p - 1 \notin B
    BY <1>3, <2>2, <2>3, <2>4
  <2>6. a[p - 1] \in Nat
    BY <2>5 DEF B
  <2> QED  BY <1>2, <2>3, <2>4, <2>6
<1> QED  BY <1>2, <1>3, <1>4 DEF a

(* During the arrivals: nobody has been served, and the clock is where the *)
(* next admission finds it, at the earliest free tick or not yet past the  *)
(* arrival it waits for.                                                   *)
Arriving ==
    main_pc = "join_arrival" =>
        /\ \A p \in Pids : pd[p].process_time = 0
        /\ T_PROCESS = 0 => global_counter <= process_d[0].a_time
        /\ T_PROCESS = TOTAL_PROCESS => global_counter = Admitted(process_d)[TOTAL_PROCESS - 1]
        /\ 0 < T_PROCESS /\ T_PROCESS < TOTAL_PROCESS =>
             LET free == Admitted(process_d)[T_PROCESS - 1] + 1
             IN  \/ global_counter = free
                 \/ global_counter > free /\ global_counter <= process_d[T_PROCESS].a_time

ClockInv == Arriving /\ ClockAccounting

LEMMA ArrivalTimes ==
    ASSUME NEW CONSTANT L, SimTypeOK(L)
    PROVE  \A p \in Pids : process_d[p].a_time \in Nat
<1>1. \A p \in Pids : process_d[p] \in burst_line
  BY WorkloadAssumption DEF SimTypeOK
<1> QED  BY <1>1 DEF burst_line

LEMMA PidsFinite == IsFiniteSet(Pids)
  BY TotalAssumption, FS_Interval DEF Pids

(* A charge leaves the account balanced.                                   *)
LEMMA ChargesKeepClock ==
    ASSUME NEW CONSTANT L, SimTypeOK(L), SimTypeOK(L)', ClockInv, NEW p \in Pids,
           NEW cpu \in Nat, NEW io \in Nat, Charges(p, cpu, io),
           main_pc # "join_arrival", main_pc' # "join_arrival"
    PROVE  ClockInv'
<1> DEFINE f == [q \in Pids |-> pd[q].process_time]
           g == [q \in Pids |-> pd'[q].process_time]
<1>1. /\ \A q \in Pids : f[q] \in Int
      /\ g[p] = f[p] + (cpu + io) /\ \A q \in Pids \ {p} : g[q] = f[q]
  BY TimesAreNat DEF Charges
<1>2. DOMAIN f = Pids /\ DOMAIN g = Pids
  OBVIOUS
<1>3. global_counter = LastAdmission + SumFunction(f)
  BY DEF ClockInv, ClockAccounting
<1> HIDE DEF f, g
<1>4. g[p] \in Int
  BY <1>1
<1>5. SumFunctionOnSet(g, Pids) = SumFunctionOnSet(f, Pids) + (g[p] - f[p])
  BY <1>1, <1>4, PidsFinite, SumChanges
<1>6. SumFunctionOnSet(f, Pids) \in Int
  BY <1>1, PidsFinite, SumIsInt
<1>7. SumFunction(f) = SumFunctionOnSet(f, Pids) /\ SumFunction(g) = SumFunctionOnSet(g, Pids)
  BY <1>2 DEF SumFunction
<1>8. LastAdmission \in Int /\ LastAdmission' = LastAdmission
  <2>1. TOTAL_PROCESS - 1 \in Pids
    BY TotalAssumption DEF Pids
  <2>2. LastAdmission \in Int
    BY <2>1, LastIsAdmitted, ArrivalTimes, AdmittedFacts
  <2> QED  BY <2>2 DEF LastAdmission, Charges
<1>9. global_counter' = LastAdmission + SumFunction(g)
  BY <1>1, <1>3, <1>5, <1>6, <1>7, <1>8 DEF Charges
<1>10. ClockAccounting'
  BY <1>8, <1>9 DEF ClockAccounting, g
<1> QED  BY <1>10 DEF ClockInv, Arriving
LEMMA ArrivalKeepsClock ==
    ASSUME NEW CONSTANT L, SimTypeOK(L), ClockInv, add_arrival
    PROVE  ClockInv'
<1> DEFINE A == Admitted(process_d)
           T == T_PROCESS
<1>1. main_pc = "join_arrival" /\ main_pc' = main_pc /\ process_d' = process_d
  BY DEF add_arrival, ArrivalAdmit, ArrivalTick, tables
<1>2. /\ T \in Nat /\ T < TOTAL_PROCESS /\ T \in Pids /\ TOTAL_PROCESS \in Nat
      /\ global_counter \in Nat /\ process_d[T].a_time \in Nat
  <2>1. T \in Nat /\ T < TOTAL_PROCESS /\ TOTAL_PROCESS \in Nat
    <3>1. T < TOTAL_PROCESS
      BY DEF add_arrival, ArrivalAdmit, ArrivalTick
    <3>2. T \in 0 .. TOTAL_PROCESS
      BY DEF SimTypeOK
    <3> HIDE DEF T
    <3> QED  BY <3>1, <3>2, TotalAssumption
  <2>2. T \in Pids
    BY <2>1 DEF Pids
  <2> QED  BY <2>1, <2>2, ArrivalTimes DEF SimTypeOK
<1>3. /\ A[0] = process_d[0].a_time
      /\ T # 0 => /\ A[T - 1] \in Nat
                  /\ A[T] = IF process_d[T].a_time > A[T - 1] + 1
                            THEN process_d[T].a_time ELSE A[T - 1] + 1
      /\ A[T] \in Nat
  <2>1. T # 0 => T - 1 \in Pids
    BY <1>2 DEF Pids
  <2> QED  BY <1>2, <2>1, ArrivalTimes, AdmittedFacts
<1>4. /\ \A p \in Pids : pd[p].process_time = 0
      /\ T = 0 => global_counter <= process_d[0].a_time
      /\ T # 0 => \/ global_counter = A[T - 1] + 1
                  \/ global_counter > A[T - 1] + 1 /\ global_counter <= process_d[T].a_time
  BY <1>1, <1>2 DEF ClockInv, Arriving
<1>5. CASE ArrivalTick
  <2>1. /\ UNCHANGED <<pd, T_PROCESS>> /\ global_counter' = global_counter + 1
        /\ process_d[T].a_time > global_counter
    BY <1>5 DEF ArrivalTick, tables
  <2> DEFINE arrives == process_d[T].a_time
             free == A[T - 1] + 1
  <2>2. /\ T = 0 => global_counter + 1 <= process_d[0].a_time
        /\ T # 0 => \/ global_counter + 1 = free
                    \/ global_counter + 1 > free /\ global_counter + 1 <= arrives
    <3>1. T = 0 => arrives = process_d[0].a_time
      OBVIOUS
    <3>2. /\ arrives \in Nat /\ global_counter \in Nat /\ arrives > global_counter
          /\ T # 0 => free \in Nat /\ (\/ global_counter = free
                                       \/ global_counter > free /\ global_counter <= arrives)
      BY <1>2, <1>3, <1>4, <2>1
    <3> HIDE DEF arrives, free
    <3> QED  BY <3>1, <3>2
  <2>3. T # TOTAL_PROCESS
    BY <1>2
  <2> HIDE DEF A, T
  <2>4. Arriving'
    BY <1>1, <1>4, <2>1, <2>2, <2>3 DEF Arriving, A, T
  <2> QED  BY <1>1, <2>4 DEF ClockInv, ClockAccounting
<1>6. CASE ArrivalAdmit
  <2>1. /\ T_PROCESS' = T + 1 /\ process_d[T].a_time <= global_counter
        /\ global_counter' = IF T_PROCESS' = TOTAL_PROCESS THEN global_counter
                             ELSE global_counter + 1
        /\ \A p \in Pids : pd'[p] = pd[p] \/ pd'[p].process_time = 0
    <3>1. \A p \in Pids : pd'[p] = pd[p] \/ pd'[p].process_time = 0
      BY <1>6 DEF ArrivalAdmit, SimTypeOK, create_process
    <3> QED  BY <1>6, <3>1 DEF ArrivalAdmit
  <2>2. \A p \in Pids : pd'[p].process_time = 0
    BY <1>4, <2>1
  <2>3. global_counter = A[T]
    <3>1. CASE T = 0
      BY <1>2, <1>3, <1>4, <2>1, <3>1
    <3>2. CASE T # 0
      <4> DEFINE arrives == process_d[T].a_time
                 free == A[T - 1] + 1
                 now == A[T]
      <4>1. /\ arrives \in Nat /\ free \in Nat /\ global_counter \in Nat
            /\ arrives <= global_counter
            /\ now = IF arrives > free THEN arrives ELSE free
            /\ global_counter = free \/ (global_counter > free /\ global_counter <= arrives)
        BY <1>2, <1>3, <1>4, <2>1, <3>2
      <4> HIDE DEF arrives, free, now
      <4>2. global_counter = now
        BY <4>1
      <4> QED  BY <4>2 DEF now
    <3> QED  BY <3>1, <3>2
  <2>4. T_PROCESS' # 0 /\ T_PROCESS' - 1 = T
    BY <1>2, <2>1
  <2>5. T_PROCESS' = TOTAL_PROCESS => global_counter' = A[TOTAL_PROCESS - 1]
    BY <1>2, <2>1, <2>3
  <2>6. T_PROCESS' < TOTAL_PROCESS => global_counter' = A[T_PROCESS' - 1] + 1
    BY <1>2, <2>1, <2>3, <2>4
  <2> HIDE DEF T
  <2>7. Arriving'
    BY <1>1, <2>2, <2>4, <2>5, <2>6 DEF Arriving
  <2> QED  BY <1>1, <2>7 DEF ClockInv, ClockAccounting
<1> QED  BY <1>5, <1>6 DEF add_arrival

(* When main joins the arrival thread, the clock is at the last admission. *)
LEMMA CreateSchedulerKeepsClock ==
    ASSUME NEW CONSTANT L, SimTypeOK(L), ClockInv, CreateScheduler
    PROVE  ClockInv'
<1>1. /\ main_pc = "join_arrival" /\ main_pc' # "join_arrival" /\ T_PROCESS = TOTAL_PROCESS
      /\ UNCHANGED <<process_d, pd, global_counter>>
  BY DEF CreateScheduler, MainStep, tables
<1> DEFINE f == [q \in Pids |-> pd[q].process_time]
<1>2. (\A q \in Pids : f[q] = 0) /\ DOMAIN f = Pids
  BY <1>1 DEF ClockInv, Arriving
<1>3. global_counter = LastAdmission /\ global_counter \in Nat
  BY <1>1, LastIsAdmitted DEF ClockInv, Arriving, SimTypeOK
<1>4. LastAdmission' = LastAdmission
  BY <1>1 DEF LastAdmission
<1>5. f = [q \in Pids |-> pd'[q].process_time]
  BY <1>1
<1>6. SumFunction(f) = 0
  <2> HIDE DEF f
  <2> QED  BY <1>2, PidsFinite, SumOfZeros DEF SumFunction
<1>7. global_counter' = LastAdmission' + SumFunction([q \in Pids |-> pd'[q].process_time])
  BY <1>1, <1>3, <1>4, <1>5, <1>6
<1> QED  BY <1>1, <1>7 DEF ClockInv, Arriving, ClockAccounting

(* Any step that neither charges nor moves the clock.                      *)
LEMMA UnchargedKeepsClock ==
    ASSUME NEW CONSTANT L, SimTypeOK(L), SimTypeOK(L)', ClockInv,
           UNCHANGED <<process_d, T_PROCESS, global_counter>>,
           \A q \in Pids : pd'[q].process_time = pd[q].process_time,
           main_pc' = "join_arrival" <=> main_pc = "join_arrival"
    PROVE  ClockInv'
<1>1. Arriving'
  BY DEF ClockInv, Arriving
<1>2. LastAdmission' = LastAdmission
  BY DEF LastAdmission
<1>3. [q \in Pids |-> pd'[q].process_time] = [q \in Pids |-> pd[q].process_time]
  OBVIOUS
<1>4. ClockAccounting'
  BY <1>2, <1>3 DEF ClockInv, ClockAccounting
<1> QED  BY <1>1, <1>4 DEF ClockInv

(* The steps every policy shares.                                          *)
LEMMA SharedKeepsClock ==
    ASSUME NEW CONSTANT L, SimTypeOK(L), SimInv, SimTypeOK(L)', ClockInv,
           \/ main \/ add_arrival \/ dispatch \/ wakeUp \/ UNCHANGED vars
           \/ CpuFinished \/ CpuRetire \/ CpuEnqueue \/ CpuPost \/ CpuLog
    PROVE  ClockInv'
<1>1. CASE add_arrival
  BY <1>1, ArrivalKeepsClock
<1>2. CASE CreateScheduler
  BY <1>2, CreateSchedulerKeepsClock
<1>3. CASE Passive /\ ~ CreateScheduler
  <2>1. UNCHANGED <<process_d, T_PROCESS, pd, global_counter>>
    BY <1>3, PassiveSteps
  <2>2. main_pc' = "join_arrival" <=> main_pc = "join_arrival"
    BY <1>3 DEF Passive, main, CreateWakeup, JoinWakeup, JoinScheduler, write_result, MainStep,
                dispatch, SchedCheck, SchedDoneCounter, SchedDoneReady, SchedDoneWait,
                SchedTryWait, SchedRemove, SchedUnchanged,
                CpuFinished, CpuEnqueue, CpuPost, CpuLog, CpuUnchanged,
                WakeCheck, WakeTryWait, WakeRemove, IoFinished, IoEnqueue, IoPost, WakeUnchanged,
                vars
  <2> QED  BY <2>1, <2>2, UnchargedKeepsClock
<1>4. CASE CpuRetire \/ IoRetire
  <2>1. /\ \E p \in Pids : retire(p)
        /\ UNCHANGED <<process_d, T_PROCESS, global_counter, main_pc>>
    <3>1. CASE CpuRetire
      <4>1. running_pd \in Pids
        BY <3>1, OwnedIsProcess DEF CpuRetire, SchedStep, OnCpu
      <4> QED  BY <3>1, <4>1 DEF CpuRetire, CpuUnchanged
    <3>2. CASE IoRetire
      <4>1. sleeping_pd \in Pids
        BY <3>2, OwnedIsProcess DEF IoRetire, WakeStep, OnIo
      <4> QED  BY <3>2, <4>1 DEF IoRetire, WakeUnchanged
    <3> QED  BY <1>4, <3>1, <3>2
  <2>2. \A q \in Pids : pd'[q].process_time = pd[q].process_time
    BY <2>1, RetireKeepsTimes
  <2> QED  BY <2>1, <2>2, UnchargedKeepsClock
<1>5. CASE IoBurstDone
  <2>1. main_pc # "join_arrival" /\ main_pc' = main_pc
    BY <1>5 DEF SimInv, ThreadsStarted, IoBurstDone, WakeUnchanged
  <2>2. PICK p \in Pids : IoBurst(p) \in Nat /\ Charges(p, 0, IoBurst(p))
    BY <1>5, IoBurstCharges
  <2> QED  BY <2>1, <2>2, ChargesKeepClock
<1> QED  BY <1>1, <1>2, <1>3, <1>4, <1>5 DEF Passive, wakeUp

(* A tick of rr or srtf charges its process one unit of CPU time.          *)
LEMMA TickCharges ==
    ASSUME NEW CONSTANT L, SimTypeOK(L), NEW p \in Pids, NEW t, SpendTick(p, t),
           process_d' = process_d
    PROVE  /\ Charges(p, 1, 0)
           /\ pd'[p].status = pd[p].status /\ pd'[p].remaining_time = pd[p].remaining_time - 1
           /\ pd'[p].cpu_index = pd[p].cpu_index /\ pd'[p].io_index = pd[p].io_index
           /\ \A q \in Pids \ {p} : pd'[q] = pd[q]
<1> DEFINE served == [pd[p] EXCEPT !.cpu_time = @ + 1, !.process_time = @ + 1,
                                   !.remaining_time = @ - 1]
<1>1. global_counter' = global_counter + 1 /\ pd' = [pd EXCEPT ![p] = served]
  BY DEF SpendTick, Spent
<1>2. pd[p] \in process_t /\ pd \in [Pids -> process_t] /\ pd[p].io_time \in Nat
  BY TimesAreNat DEF SimTypeOK
<1>3. /\ served.cpu_time = pd[p].cpu_time + 1 /\ served.io_time = pd[p].io_time
      /\ served.process_time = pd[p].process_time + 1
      /\ served.remaining_time = pd[p].remaining_time - 1
      /\ served.cpu_index = pd[p].cpu_index /\ served.io_index = pd[p].io_index
      /\ served.status = pd[p].status
  BY <1>2 DEF process_t
<1> HIDE DEF served
<1>4. pd'[p] = served /\ \A q \in Pids \ {p} : pd'[q] = pd[q]
  BY <1>1, <1>2
<1>5. 1 + 0 = 1 /\ pd[p].io_time + 0 = pd[p].io_time
  BY <1>2
<1> QED  BY <1>1, <1>3, <1>4, <1>5 DEF Charges

LEMMA InitClock ==
    ASSUME Init
    PROVE  ClockInv
<1>1. process_d \in Workloads /\ T_PROCESS = 0 /\ global_counter = 0 /\ main_pc = "join_arrival"
  BY DEF Init
<1>2. process_d[0].a_time \in Nat
  <2>1. 0 \in Pids
    BY TotalAssumption DEF Pids
  <2>2. process_d[0] \in burst_line
    BY <1>1, <2>1, WorkloadAssumption
  <2> QED  BY <2>2 DEF burst_line
<1>3. \A p \in Pids : pd[p].process_time = 0
  BY DEF Init, create_process
<1>4. TOTAL_PROCESS # 0
  BY TotalAssumption
<1> QED  BY <1>1, <1>2, <1>3, <1>4 DEF ClockInv, Arriving, ClockAccounting
-----------------------------------------------------------------------------
(* The bursts behind the times: the I/O time of a process is the sum of    *)
(* the I/O bursts it has had, its process time covers both kinds, and who  *)
(* is retired has had its whole line and reports all of it.                *)
Ledger ==
    /\ \A p \in Pids : /\ pd[p].process_time = pd[p].cpu_time + pd[p].io_time
                       /\ pd[p].io_time = SumTo(process_d[p].io_burst, pd[p].io_index)
    /\ \A p \in Retired : Ended(p) /\ pd[p].turnaround_time = pd[p].process_time

(* What a line's prefix sums are.                                          *)
LEMMA PrefixSums ==
    ASSUME NEW s \in Seq(Nat), NEW n \in 0 .. Len(s)
    PROVE  /\ SumTo(s, n) \in Nat
           /\ n = 0 => SumTo(s, n) = 0
           /\ n < Len(s) => SumTo(s, n + 1) = SumTo(s, n) + s[n + 1]
<1>1. Len(s) \in Nat /\ n \in Nat /\ n <= Len(s)
  BY LenProperties
<1>2. \A i \in 1 .. Len(s) : s[i] \in Nat
  BY ElementOfSeq
<1>3. \A i \in 1 .. n : s[i] \in Nat
  BY <1>1, <1>2
<1>4. ASSUME n < Len(s)
      PROVE  SumTo(s, n + 1) = SumTo(s, n) + s[n + 1]
  <2>1. n + 1 \in Nat /\ n + 1 > 0 /\ (n + 1) - 1 = n
    BY <1>1
  <2>2. \A i \in 1 .. n + 1 : s[i] \in Nat
    BY <1>1, <1>2, <1>4
  <2>3. SumTo(s, n + 1) = SumTo(s, (n + 1) - 1) + s[n + 1]
    BY <2>1, <2>2, SumToFacts
  <2> QED  BY <2>1, <2>3
<1> QED  BY <1>1, <1>3, <1>4, SumToFacts

(* A step that charges p, who is not retired, and gives it n more I/O      *)
(* bursts that cost what is charged; nobody retires.                       *)
LEMMA ChargesKeepLedger ==
    ASSUME NEW CONSTANT L, SimTypeOK(L), Ledger, NEW p \in Pids, p \notin Retired,
           NEW cpu \in Nat, NEW io \in Nat, Charges(p, cpu, io), pd'[p].status # "TERMINATED",
           SumTo(process_d[p].io_burst, pd'[p].io_index) =
             SumTo(process_d[p].io_burst, pd[p].io_index) + io,
           \A q \in Pids \ {p} : pd'[q] = pd[q]
    PROVE  Ledger'
<1>1. /\ pd[p].cpu_time \in Nat /\ pd[p].io_time \in Nat
      /\ pd[p].process_time = pd[p].cpu_time + pd[p].io_time
      /\ pd[p].io_time = SumTo(process_d[p].io_burst, pd[p].io_index)
  BY TimesAreNat DEF Ledger
<1>2. Retired' = Retired
  BY DEF Retired
<1>3. /\ pd'[p].process_time = pd'[p].cpu_time + pd'[p].io_time
      /\ pd'[p].io_time = SumTo(process_d[p].io_burst, pd'[p].io_index)
  BY <1>1 DEF Charges
<1>4. process_d' = process_d
  BY DEF Charges
<1>5. \A q \in Pids : /\ pd'[q].process_time = pd'[q].cpu_time + pd'[q].io_time
                      /\ pd'[q].io_time = SumTo(process_d[q].io_burst, pd'[q].io_index)
  <2> SUFFICES ASSUME NEW q \in Pids
               PROVE  /\ pd'[q].process_time = pd'[q].cpu_time + pd'[q].io_time
                      /\ pd'[q].io_time = SumTo(process_d[q].io_burst, pd'[q].io_index)
    OBVIOUS
  <2>1. CASE q = p
    BY <1>3, <2>1
  <2>2. CASE q # p
    BY <2>2 DEF Ledger
  <2> QED  BY <2>1, <2>2
<1>6. \A q \in Retired : pd'[q] = pd[q] /\ Ended(q) /\ pd[q].turnaround_time = pd[q].process_time
  BY DEF Ledger, Retired
<1> QED  BY <1>2, <1>4, <1>5, <1>6 DEF Ledger, Ended

(* The steps every policy shares.                                          *)
LEMMA IoKeepsLedger ==
    ASSUME NEW CONSTANT L, SimTypeOK(L), SimInv, Ledger, IoBurstDone
    PROVE  Ledger'
<1>1. PICK p \in Pids :
        /\ p = sleeping_pd /\ pd[p].status = "SLEEP"
        /\ IoBurst(p) \in Nat /\ Charges(p, 0, IoBurst(p))
        /\ pd[p].io_index + 1 \in 1 .. Len(process_d[p].io_burst)
        /\ pd'[p].io_index = pd[p].io_index + 1
        /\ pd'[p].status = "READY"
        /\ \A q \in Pids \ {p} : pd'[q] = pd[q]
  BY IoBurstCharges
<1>2. p \notin Retired /\ pd'[p].status # "TERMINATED"
  BY <1>1 DEF Retired
<1>3. SumTo(process_d[p].io_burst, pd'[p].io_index) =
        SumTo(process_d[p].io_burst, pd[p].io_index) + IoBurst(p)
  <2> DEFINE s == process_d[p].io_burst
             n == pd[p].io_index
  <2>1. s \in Seq(Nat) /\ Len(s) \in Nat /\ n \in Nat /\ n + 1 \in 1 .. Len(s)
    BY <1>1, LineFacts, TimesAreNat
  <2>2. n \in 0 .. Len(s) /\ n < Len(s)
    BY <2>1
  <2>3. IoBurst(p) = s[n + 1]
    BY DEF IoBurst
  <2> HIDE DEF s, n
  <2>4. SumTo(s, n + 1) = SumTo(s, n) + s[n + 1]
    BY <2>1, <2>2, PrefixSums
  <2> QED  BY <1>1, <2>3, <2>4 DEF s, n
<1> QED  BY <1>1, <1>2, <1>3, ChargesKeepLedger

LEMMA RetireKeepsLedger ==
    ASSUME NEW CONSTANT L, SimTypeOK(L), Ledger, NEW p \in Pids, Ended(p), retire(p),
           process_d' = process_d
    PROVE  Ledger'
<1>1. /\ \A q \in Pids : /\ pd'[q].cpu_time = pd[q].cpu_time
                         /\ pd'[q].io_time = pd[q].io_time
                         /\ pd'[q].process_time = pd[q].process_time
                         /\ pd'[q].cpu_index = pd[q].cpu_index
                         /\ pd'[q].io_index = pd[q].io_index
                         /\ q # p => pd'[q] = pd[q]
      /\ pd'[p].turnaround_time = pd[p].process_time
  BY RetireKeepsTimes
<1>2. Retired' = Retired \cup {p}
  BY RetireFacts DEF SimTypeOK
<1>3. \A q \in Pids : Ended(q) => Ended(q)'
  BY <1>1 DEF Ended
<1>4. \A q \in Retired' : Ended(q)' /\ pd'[q].turnaround_time = pd'[q].process_time
  <2> SUFFICES ASSUME NEW q \in Retired'
               PROVE  Ended(q)' /\ pd'[q].turnaround_time = pd'[q].process_time
    OBVIOUS
  <2>1. CASE q = p
    BY <1>1, <1>3, <2>1
  <2>2. CASE q # p
    BY <1>1, <1>2, <1>3, <2>2 DEF Ledger, Retired
  <2> QED  BY <2>1, <2>2
<1>5. \A q \in Pids : /\ pd'[q].process_time = pd'[q].cpu_time + pd'[q].io_time
                      /\ pd'[q].io_time = SumTo(process_d[q].io_burst, pd'[q].io_index)
  BY <1>1 DEF Ledger
<1> QED  BY <1>4, <1>5 DEF Ledger

(* Who is admitted starts with nothing.                                    *)
LEMMA AdmittedAnew ==
    ASSUME NEW CONSTANT L, SimTypeOK(L), SimInv, ArrivalAdmit
    PROVE  \E p \in Pids :
             /\ p = T_PROCESS /\ p \notin Retired
             /\ pd'[p].cpu_index = 0 /\ pd'[p].io_index = 0 /\ pd'[p].status = "NEW"
             /\ pd'[p].cpu_time = 0 /\ pd'[p].io_time = 0 /\ pd'[p].process_time = 0
             /\ pd'[p].remaining_time \in IF Policy \in {"rr", "srtf"}
                                          THEN FirstBurst(process_d[p]) ELSE {0}
             /\ \A q \in Pids \ {p} : pd'[q] = pd[q]
<1>1. PICK p \in Pids : p = T_PROCESS
  <2>1. T_PROCESS \in 0 .. TOTAL_PROCESS /\ T_PROCESS < TOTAL_PROCESS
    BY DEF ArrivalAdmit, SimTypeOK
  <2> QED  BY <2>1, TotalAssumption DEF Pids
<1>2. p \notin Retired
  <2>1. Retired \subseteq 0 .. T_PROCESS - 1 /\ T_PROCESS \in Int
    BY TotalAssumption DEF SimInv, OneOwner, SimTypeOK
  <2> QED  BY <1>1, <2>1
<1>3. PICK priority, remaining :
        /\ pd' = [pd EXCEPT ![p] = [create_process EXCEPT !.priority = priority,
                                                          !.remaining_time = remaining]]
        /\ remaining \in IF Policy \in {"rr", "srtf"} THEN FirstBurst(process_d[p]) ELSE {0}
  BY <1>1 DEF ArrivalAdmit
<1> DEFINE new == [create_process EXCEPT !.priority = priority, !.remaining_time = remaining]
<1>4. /\ new.cpu_index = 0 /\ new.io_index = 0 /\ new.status = "NEW"
      /\ new.cpu_time = 0 /\ new.io_time = 0 /\ new.process_time = 0
      /\ new.remaining_time = remaining
  BY DEF create_process
<1> HIDE DEF new
<1>5. pd'[p] = new /\ \A q \in Pids \ {p} : pd'[q] = pd[q]
  BY <1>3 DEF SimTypeOK, new
<1> QED  BY <1>1, <1>2, <1>3, <1>4, <1>5

LEMMA SharedKeepsLedger ==
    ASSUME NEW CONSTANT L, SimTypeOK(L), SimInv, LifeInv, Ledger,
           \/ main \/ add_arrival \/ dispatch \/ wakeUp \/ UNCHANGED vars
           \/ CpuFinished \/ CpuRetire \/ CpuEnqueue \/ CpuPost \/ CpuLog
    PROVE  Ledger'
<1>1. CASE ArrivalAdmit
  <2>1. PICK p \in Pids :
          /\ p \notin Retired
          /\ pd'[p].cpu_index = 0 /\ pd'[p].io_index = 0 /\ pd'[p].status = "NEW"
          /\ pd'[p].cpu_time = 0 /\ pd'[p].io_time = 0 /\ pd'[p].process_time = 0
          /\ \A q \in Pids \ {p} : pd'[q] = pd[q]
    BY <1>1, AdmittedAnew
  <2>2. SumTo(process_d[p].io_burst, 0) = 0
    BY LineFacts, PrefixSums
  <2>3. \A q \in Pids : /\ pd'[q].process_time = pd'[q].cpu_time + pd'[q].io_time
                        /\ pd'[q].io_time = SumTo(process_d[q].io_burst, pd'[q].io_index)
    <3> SUFFICES ASSUME NEW q \in Pids
                 PROVE  /\ pd'[q].process_time = pd'[q].cpu_time + pd'[q].io_time
                        /\ pd'[q].io_time = SumTo(process_d[q].io_burst, pd'[q].io_index)
      OBVIOUS
    <3>1. CASE q = p
      BY <2>1, <2>2, <3>1
    <3>2. CASE q # p
      BY <2>1, <3>2 DEF Ledger
    <3> QED  BY <3>1, <3>2
  <2>4. Retired' = Retired /\ \A q \in Retired : pd'[q] = pd[q]
    BY <2>1 DEF Retired
  <2>5. process_d' = process_d
    BY <1>1 DEF ArrivalAdmit
  <2> QED  BY <2>3, <2>4, <2>5 DEF Ledger, Ended
<1>2. CASE ArrivalTick \/ Passive
  <2>1. UNCHANGED <<process_d, pd>>
    BY <1>2, PassiveSteps DEF ArrivalTick, tables
  <2> QED  BY <2>1 DEF Ledger, Retired, Ended
<1>3. CASE CpuRetire \/ IoRetire
  <2>1. (\E p \in Pids : retire(p) /\ Ended(p)) /\ process_d' = process_d
    <3>1. CASE CpuRetire
      BY <3>1, RetireesAreProcesses DEF CpuRetire, CpuUnchanged, SchedStep
    <3>2. CASE IoRetire
      BY <3>2, RetireesAreProcesses DEF IoRetire, WakeUnchanged, WakeStep
    <3> QED  BY <1>3, <3>1, <3>2
  <2> QED  BY <2>1, RetireKeepsLedger
<1>4. CASE IoBurstDone
  BY <1>4, IoKeepsLedger
<1> QED  BY <1>1, <1>2, <1>3, <1>4 DEF Passive, add_arrival, wakeUp

LEMMA InitLedger ==
    ASSUME Init
    PROVE  Ledger
<1>1. \A p \in Pids : /\ pd[p].process_time = 0 /\ pd[p].cpu_time = 0 /\ pd[p].io_time = 0
                      /\ pd[p].io_index = 0 /\ pd[p].status = "NEW"
  BY DEF Init, create_process
<1>2. \A p \in Pids : process_d[p].io_burst \in Seq(Nat) /\ Len(process_d[p].io_burst) \in Nat
  BY WorkloadAssumption, LenProperties DEF Init, burst_line
<1>3. \A p \in Pids : SumTo(process_d[p].io_burst, 0) = 0
  BY <1>2, PrefixSums
<1> QED  BY <1>1, <1>3 DEF Ledger, Retired

(* The shared steps spare the CPU side of the account, but for the         *)
(* admission, which opens it.                                              *)
LEMMA SharedSparesCpu ==
    ASSUME NEW CONSTANT L, SimTypeOK(L), SimInv,
           \/ main \/ add_arrival \/ dispatch \/ wakeUp \/ UNCHANGED vars
           \/ CpuFinished \/ CpuRetire \/ CpuEnqueue \/ CpuPost \/ CpuLog
    PROVE  /\ process_d' = process_d
           /\ \A p \in Pids :
                \/ /\ pd'[p].cpu_time = pd[p].cpu_time /\ pd'[p].cpu_index = pd[p].cpu_index
                   /\ pd'[p].remaining_time = pd[p].remaining_time
                \/ /\ pd'[p].cpu_time = 0 /\ pd'[p].cpu_index = 0
                   /\ sched_pc = "unborn" /\ sched_pc' = "unborn"
                   /\ ArrivalAdmit /\ p = T_PROCESS
<1>1. CASE ArrivalAdmit
  <2>1. process_d' = process_d /\ sched_pc = "unborn" /\ sched_pc' = "unborn"
    BY <1>1 DEF ArrivalAdmit, SimInv, ThreadsStarted
  <2> QED  BY <1>1, <2>1, AdmittedAnew
<1>2. CASE ArrivalTick \/ Passive
  BY <1>2, PassiveSteps DEF ArrivalTick, tables
<1>3. CASE CpuRetire \/ IoRetire
  <2>1. (\E p \in Pids : retire(p)) /\ process_d' = process_d
    <3>1. CASE CpuRetire
      BY <3>1, OwnedIsProcess DEF CpuRetire, CpuUnchanged, SchedStep, OnCpu
    <3>2. CASE IoRetire
      BY <3>2, OwnedIsProcess DEF IoRetire, WakeUnchanged, WakeStep, OnIo
    <3> QED  BY <1>3, <3>1, <3>2
  <2> QED  BY <2>1, RetireKeepsTimes
<1>4. CASE IoBurstDone
  <2>1. PICK p \in Pids :
          /\ IoBurst(p) \in Nat /\ Charges(p, 0, IoBurst(p))
          /\ pd'[p].cpu_index = pd[p].cpu_index
          /\ pd'[p].remaining_time = pd[p].remaining_time
          /\ \A q \in Pids \ {p} : pd'[q] = pd[q]
    BY <1>4, IoBurstCharges
  <2>2. pd'[p].cpu_time = pd[p].cpu_time /\ process_d' = process_d
    BY <2>1, TimesAreNat DEF Charges
  <2> QED  BY <2>1, <2>2
<1> QED  BY <1>1, <1>2, <1>3, <1>4 DEF Passive, add_arrival, wakeUp

LEMMA SharedAdmits ==
    ASSUME ~ ArrivalAdmit,
           \/ main \/ add_arrival \/ dispatch \/ wakeUp \/ UNCHANGED vars
           \/ CpuFinished \/ CpuRetire \/ CpuEnqueue \/ CpuPost \/ CpuLog
    PROVE  T_PROCESS' = T_PROCESS
<1>1. CASE ArrivalTick \/ Passive
  BY <1>1, PassiveSteps DEF ArrivalTick, tables
<1>2. CASE CpuRetire \/ IoRetire \/ IoBurstDone
  BY <1>2 DEF CpuRetire, CpuUnchanged, IoRetire, IoBurstDone, WakeUnchanged
<1> QED  BY <1>1, <1>2 DEF Passive, add_arrival, wakeUp
-----------------------------------------------------------------------------
(* The report.  main reads the task list, which has every process once,    *)
(* after both threads have ended.                                          *)
ReportInv ==
    /\ Len(task_list) = T_PROCESS /\ Carried(task_list) = 0 .. T_PROCESS - 1
    /\ main_pc # "join_arrival" => T_PROCESS = TOTAL_PROCESS
    /\ main_pc \in {"join_scheduler", "write_result", "done"} => wake_pc = "exit"
    /\ main_pc \in {"write_result", "done"} => sched_pc = "exit"
    /\ main_pc = "done" =>
         reported = [i \in 1 .. Len(task_list) |->
                       LET p == task_list[i].data IN <<p, pd[p].turnaround_time>>]

LEMMA SchedKeepsReport ==
    ASSUME ReportInv, sched_pc # "exit",
           UNCHANGED <<T_PROCESS, task_list, main_pc, wake_pc>>
    PROVE  ReportInv'
  BY DEF ReportInv

LEMMA WakeKeepsReport ==
    ASSUME ReportInv, wake_pc # "exit",
           UNCHANGED <<T_PROCESS, task_list, main_pc, sched_pc>>
    PROVE  ReportInv'
  BY DEF ReportInv

LEMMA SharedKeepsReport ==
    ASSUME NEW CONSTANT L, SimTypeOK(L), SimInv, ReportInv,
           \/ main \/ add_arrival \/ dispatch \/ wakeUp \/ UNCHANGED vars
           \/ CpuFinished \/ CpuRetire \/ CpuEnqueue \/ CpuPost \/ CpuLog
    PROVE  ReportInv'
<1>1. CASE CreateScheduler \/ CreateWakeup
  BY <1>1 DEF CreateScheduler, CreateWakeup, MainStep, ReportInv, tables
<1>2. CASE JoinWakeup \/ JoinScheduler
  BY <1>2 DEF JoinWakeup, JoinScheduler, MainStep, ReportInv, tables
<1>3. CASE write_result
  BY <1>3 DEF write_result, MainStep, ReportInv, tables
<1>4. CASE ArrivalTick
  BY <1>4 DEF ArrivalTick, ReportInv, tables
<1>5. CASE ArrivalAdmit
  <2>1. /\ main_pc = "join_arrival" /\ main_pc' = main_pc
        /\ T_PROCESS' = T_PROCESS + 1 /\ T_PROCESS \in Nat /\ T_PROCESS < TOTAL_PROCESS
    BY <1>5, TotalAssumption DEF ArrivalAdmit, SimTypeOK
  <2>2. T_PROCESS \in Pids
    BY <2>1, TotalAssumption DEF Pids
  <2>3. PICK priority \in Int : task_list' = AddTo(task_list, T_PROCESS, priority)
    <3>1. PICK first \in FirstBurst(process_d[T_PROCESS]) :
            task_list' = AddTo(task_list, T_PROCESS,
                               IF Policy \in {"sjf", "srtf"} THEN first ELSE 0)
      BY <1>5 DEF ArrivalAdmit
    <3>2. process_d[T_PROCESS].cpu_burst \in Seq(Nat)
      BY <2>2, LineFacts
    <3>3. first \in Int
      BY <3>2, GarbageAssumption DEF FirstBurst
    <3> QED  BY <3>1, <3>3
  <2>4. task_list \in Seq(Node)
    BY DEF SimTypeOK
  <2>5. /\ Len(task_list') = Len(task_list) + 1
        /\ Carried(task_list') = Carried(task_list) \cup {T_PROCESS}
    BY <2>2, <2>3, <2>4, AddToFacts
  <2>6. 0 .. T_PROCESS' - 1 = (0 .. T_PROCESS - 1) \cup {T_PROCESS}
    BY <2>1
  <2> QED  BY <2>1, <2>5, <2>6 DEF ReportInv
<1>6. CASE dispatch
  <2>1. sched_pc # "exit" /\ UNCHANGED <<T_PROCESS, task_list, main_pc, wake_pc>>
    BY <1>6 DEF dispatch, SchedCheck, SchedDoneCounter, SchedDoneReady, SchedDoneWait,
                SchedTryWait, SchedRemove, SchedStep, SchedUnchanged, tables
  <2> QED  BY <2>1, SchedKeepsReport
<1>7. CASE CpuFinished \/ CpuRetire \/ CpuEnqueue \/ CpuPost \/ CpuLog
  <2>1. sched_pc # "exit" /\ UNCHANGED <<T_PROCESS, task_list, main_pc, wake_pc>>
    BY <1>7 DEF CpuFinished, CpuRetire, CpuEnqueue, CpuPost, CpuLog, SchedStep, CpuUnchanged
  <2> QED  BY <2>1, SchedKeepsReport
<1>8. CASE wakeUp
  <2>1. wake_pc # "exit" /\ UNCHANGED <<T_PROCESS, task_list, main_pc, sched_pc>>
    BY <1>8 DEF wakeUp, WakeCheck, WakeTryWait, WakeRemove, IoFinished, IoRetire, IoBurstDone,
                IoEnqueue, IoPost, WakeStep, WakeUnchanged
  <2> QED  BY <2>1, WakeKeepsReport
<1>9. CASE UNCHANGED vars
  BY <1>9 DEF vars, tables, ReportInv
<1> QED  BY <1>1, <1>2, <1>3, <1>4, <1>5, <1>6, <1>7, <1>8, <1>9 DEF main, add_arrival

LEMMA InitReport == Init => ReportInv
  BY DEF Init, ReportInv, Carried, ToSet

(* What is reported of each process once main is done.                     *)
LEMMA ReportFacts ==
    ASSUME NEW CONSTANT L, SimTypeOK(L), ReportInv, Ledger, ExitDrained, main_pc = "done"
    PROVE  /\ Len(reported) = TOTAL_PROCESS
           /\ {reported[i][1] : i \in 1 .. Len(reported)} = Pids
           /\ \A i \in 1 .. Len(reported) :
                /\ reported[i][1] \in Pids /\ Ended(reported[i][1])
                /\ reported[i][2] = pd[reported[i][1]].process_time
<1>1. /\ task_list \in Seq(NodeOf(Pids)) /\ Len(task_list) = TOTAL_PROCESS
      /\ Carried(task_list) = Pids /\ TOTAL_PROCESS \in Nat
  BY TotalAssumption DEF ReportInv, Pids, SimTypeOK, Node, NodeOf
<1>2. Carried(task_list) = {task_list[i].data : i \in 1 .. Len(task_list)}
  BY <1>1, CarriedByIndex
<1> DEFINE P(i) == task_list[i].data
<1>3. reported = [i \in 1 .. Len(task_list) |-> <<P(i), pd[P(i)].turnaround_time>>]
  BY DEF ReportInv
<1>4. Pids = {P(i) : i \in 1 .. TOTAL_PROCESS}
  BY <1>1, <1>2
<1> HIDE DEF P
<1>5. reported \in Seq(Pids \X Nat)
  BY DEF SimTypeOK
<1>6. Len(reported) = TOTAL_PROCESS
  <2>1. DOMAIN reported = 1 .. TOTAL_PROCESS
    BY <1>1, <1>3
  <2>2. Len(reported) \in Nat /\ DOMAIN reported = 1 .. Len(reported)
    BY <1>5, LenProperties
  <2> QED  BY <1>1, <2>1, <2>2
<1>7. \A i \in 1 .. TOTAL_PROCESS : /\ reported[i][1] = P(i)
                                    /\ reported[i][2] = pd[P(i)].turnaround_time
  BY <1>1, <1>3
<1>8. Pids = Retired
  BY DEF ExitDrained, ReportInv
<1> QED  BY <1>4, <1>6, <1>7, <1>8 DEF Ledger
-----------------------------------------------------------------------------
(* The log, for policies that hold the CPU from "run" to the log line.     *)
(* due[p][k] is what the line of burst k of process p has to cover.        *)
Pending == {"enqueue", "post", "log"}
InTurn == {"run", "end"} \cup Pending

LineInv(due, line) ==
    /\ line.end <= end_time /\ line.cpu_index <= pd[line.pid].cpu_index
    /\ line.end - line.start >= due[line.pid][line.cpu_index]
    /\ sched_pc \in InTurn => line.end <= start_time
    /\ sched_pc \in Pending /\ line.pid = running_pd => line.cpu_index < pd[line.pid].cpu_index

LinesOrdered ==
    \A j, k \in 1 .. Len(task_log) :
        j < k => /\ task_log[j].end <= task_log[k].start
                 /\ task_log[j].pid = task_log[k].pid =>
                      task_log[j].cpu_index < task_log[k].cpu_index

(* A turn starts where the last line ended, at the earliest, and the line  *)
(* to come covers its burst.                                               *)
TurnInv(due) ==
    /\ sched_pc = "unborn" => task_log = <<>>
    /\ end_time <= global_counter
    /\ sched_pc \in Pending =>
         /\ running_pd \in Pids
         /\ end_time - start_time >= due[running_pd][pd[running_pd].cpu_index]

LogInv(due) ==
    TurnInv(due) /\ LinesOrdered /\ \A k \in 1 .. Len(task_log) : LineInv(due, task_log[k])

LEMMA LogLines ==
    ASSUME NEW CONSTANT L, SimTypeOK(L)
    PROVE  /\ Len(task_log) \in Nat
           /\ \A k \in 1 .. Len(task_log) :
                /\ task_log[k].pid \in Pids /\ task_log[k].cpu_index \in Nat
                /\ task_log[k].start \in Nat /\ task_log[k].end \in Nat
<1>1. task_log \in Seq(LogLine) /\ Len(task_log) \in Nat
  BY LenProperties DEF SimTypeOK
<1>2. \A k \in 1 .. Len(task_log) : task_log[k] \in LogLine
  BY <1>1, ElementOfSeq
<1> QED  BY <1>1, <1>2 DEF LogLine

(* A step that leaves the log and every burst index alone, and starts or   *)
(* ends no turn.                                                           *)
LEMMA LogKept ==
    ASSUME NEW CONSTANT L, NEW CONSTANT due, SimTypeOK(L), SimTypeOK(L)', LogInv(due),
           UNCHANGED log, global_counter <= global_counter',
           sched_pc = "unborn" \/ \A p \in Pids : pd'[p].cpu_index = pd[p].cpu_index,
           sched_pc' = "unborn" => sched_pc = "unborn",
           sched_pc' \in InTurn => sched_pc \in InTurn /\ running_pd' = running_pd,
           sched_pc' \in Pending => sched_pc \in Pending
    PROVE  LogInv(due)'
<1>1. UNCHANGED <<start_time, end_time, task_log>>
  BY DEF log
<1>2. sched_pc = "unborn" => /\ task_log = <<>> /\ sched_pc' \notin InTurn
                             /\ sched_pc' \notin Pending
  BY DEF LogInv, TurnInv, InTurn, Pending
<1>3. LinesOrdered'
  BY <1>1 DEF LogInv, LinesOrdered
<1>4. global_counter \in Nat /\ global_counter' \in Nat /\ end_time \in Nat
  BY DEF SimTypeOK
<1>5. TurnInv(due)'
  <2>1. end_time' <= global_counter'
    BY <1>1, <1>4 DEF LogInv, TurnInv
  <2>2. ASSUME sched_pc' \in Pending
        PROVE  /\ running_pd' \in Pids
               /\ end_time' - start_time' >= due[running_pd'][pd'[running_pd'].cpu_index]
    <3>1. /\ sched_pc \in Pending /\ running_pd' = running_pd /\ running_pd \in Pids
          /\ pd'[running_pd].cpu_index = pd[running_pd].cpu_index
          /\ end_time - start_time >= due[running_pd][pd[running_pd].cpu_index]
      BY <1>2, <2>2 DEF LogInv, TurnInv, InTurn
    <3> QED  BY <1>1, <3>1
  <2>3. sched_pc' = "unborn" => task_log' = <<>>
    BY <1>1 DEF LogInv, TurnInv
  <2> QED  BY <2>1, <2>2, <2>3 DEF TurnInv
<1>6. ASSUME NEW k \in 1 .. Len(task_log)
      PROVE  LineInv(due, task_log[k])'
  <2>1. sched_pc # "unborn"
    <3>1. task_log # <<>>
      OBVIOUS
    <3> QED  BY <1>2, <3>1
  <2>2. task_log[k].pid \in Pids
    BY LogLines
  <2>3. pd'[task_log[k].pid].cpu_index = pd[task_log[k].pid].cpu_index
    BY <2>1, <2>2
  <2>4. LineInv(due, task_log[k])
    BY DEF LogInv
  <2>5. /\ sched_pc' \in InTurn => sched_pc \in InTurn
        /\ sched_pc' \in Pending => sched_pc \in Pending /\ running_pd' = running_pd
    BY DEF InTurn
  <2> QED  BY <1>1, <2>3, <2>4, <2>5 DEF LineInv
<1> QED  BY <1>1, <1>3, <1>5, <1>6 DEF LogInv

(* A turn starts.                                                          *)
LEMMA TurnStarts ==
    ASSUME NEW CONSTANT L, NEW CONSTANT due, SimTypeOK(L), LogInv(due),
           sched_pc' = "run", start_time' = global_counter,
           UNCHANGED <<end_time, task_log, global_counter, pd>>
    PROVE  LogInv(due)'
<1>1. sched_pc' \notin Pending /\ sched_pc' # "unborn"
  BY DEF Pending
<1>2. ASSUME NEW k \in 1 .. Len(task_log)
      PROVE  LineInv(due, task_log[k])'
  <2>1. task_log[k].end <= end_time /\ task_log[k].end \in Nat
    BY LogLines DEF LogInv, LineInv
  <2>2. task_log[k].end <= start_time'
    BY <2>1 DEF LogInv, TurnInv, SimTypeOK
  <2> QED  BY <1>1, <2>2 DEF LogInv, LineInv
<1> QED  BY <1>1, <1>2 DEF LogInv, TurnInv, LinesOrdered

(* A turn ends, having covered its burst.                                  *)
LEMMA TurnEnds ==
    ASSUME NEW CONSTANT L, NEW CONSTANT due, SimTypeOK(L), SimTypeOK(L)', LogInv(due),
           NEW p \in Pids, p = running_pd, running_pd' = running_pd,
           sched_pc \in InTurn, sched_pc' = "enqueue",
           end_time' = global_counter, UNCHANGED <<start_time, task_log, global_counter>>,
           pd'[p].cpu_index = pd[p].cpu_index + 1,
           \A q \in Pids \ {p} : pd'[q] = pd[q],
           global_counter - start_time >= due[p][pd[p].cpu_index + 1]
    PROVE  LogInv(due)'
<1>1. sched_pc' \in Pending /\ sched_pc' # "unborn"
  BY DEF Pending
<1>2. ASSUME NEW k \in 1 .. Len(task_log)
      PROVE  LineInv(due, task_log[k])'
  <2> DEFINE line == task_log[k]
  <2>1. /\ line.pid \in Pids /\ line.cpu_index \in Nat /\ line.end \in Nat
        /\ pd[line.pid].cpu_index \in Nat
        /\ end_time \in Nat /\ global_counter \in Nat
    BY LogLines, TimesAreNat DEF SimTypeOK
  <2>2. /\ line.end <= end_time /\ line.cpu_index <= pd[line.pid].cpu_index
        /\ line.end - line.start >= due[line.pid][line.cpu_index]
        /\ line.end <= start_time /\ end_time <= global_counter
    BY DEF LogInv, LineInv, TurnInv
  <2>3. /\ line.pid = p => line.cpu_index < pd'[line.pid].cpu_index
        /\ line.pid # p => pd'[line.pid].cpu_index = pd[line.pid].cpu_index
    <3>1. line.pid = p => pd'[line.pid].cpu_index = pd[line.pid].cpu_index + 1
      OBVIOUS
    <3> QED  BY <2>1, <2>2, <3>1
  <2>4. line.cpu_index <= pd'[line.pid].cpu_index
    BY <2>1, <2>2, <2>3, TimesAreNat
  <2>5. line.end <= end_time'
    BY <2>1, <2>2
  <2> QED  BY <1>1, <2>2, <2>3, <2>4, <2>5 DEF LineInv
<1>3. TurnInv(due)'
  <2>1. global_counter' <= global_counter' /\ global_counter \in Nat
    BY DEF SimTypeOK
  <2>2. /\ running_pd' \in Pids
        /\ end_time' - start_time' >= due[running_pd'][pd'[running_pd'].cpu_index]
    OBVIOUS
  <2> QED  BY <1>1, <2>1, <2>2 DEF TurnInv
<1> QED  BY <1>2, <1>3 DEF LogInv, LinesOrdered

(* A line is written.                                                      *)
LEMMA LineWritten ==
    ASSUME NEW CONSTANT L, NEW CONSTANT due, SimTypeOK(L), LogInv(due), CpuLog
    PROVE  LogInv(due)'
<1> DEFINE new == LogLineOf(running_pd, end_time)
<1>0. PICK n \in Nat : n = Len(task_log)
  BY LogLines
<1>1. /\ sched_pc \in Pending /\ sched_pc \in InTurn
      /\ sched_pc' \notin InTurn /\ sched_pc' \notin Pending /\ sched_pc' # "unborn"
      /\ task_log' = Append(task_log, new)
      /\ UNCHANGED <<pd, global_counter, running_pd, start_time, end_time>>
  BY DEF CpuLog, SchedStep, Pending, InTurn
<1>2. /\ new.pid = running_pd /\ new.cpu_index = pd[running_pd].cpu_index
      /\ new.start = start_time /\ new.end = end_time
  BY DEF LogLineOf
<1> HIDE DEF new
<1>3. /\ running_pd \in Pids /\ pd[running_pd].cpu_index \in Nat
      /\ end_time - start_time >= due[running_pd][pd[running_pd].cpu_index]
  BY <1>1, TimesAreNat DEF LogInv, TurnInv
<1>4. /\ n \in Nat /\ Len(task_log') = n + 1 /\ task_log'[n + 1] = new
      /\ \A k \in 1 .. n : task_log'[k] = task_log[k]
  BY <1>0, <1>1, LogLines DEF SimTypeOK
<1>5. \A k \in 1 .. n : LineInv(due, task_log[k])
  BY <1>0 DEF LogInv
<1>6. \A k \in 1 .. n + 1 : LineInv(due, task_log[k])'
  <2>1. ASSUME NEW k \in 1 .. n
        PROVE  LineInv(due, task_log[k])'
    BY <1>1, <1>4, <1>5 DEF LineInv
  <2>2. end_time <= end_time /\ pd[running_pd].cpu_index <= pd[running_pd].cpu_index
    BY <1>3 DEF SimTypeOK
  <2>3. task_log'[n + 1] = new
    BY <1>4
  <2>4. /\ new.end <= end_time' /\ new.cpu_index <= pd'[new.pid].cpu_index
        /\ new.end - new.start >= due[new.pid][new.cpu_index]
    BY <1>1, <1>2, <1>3, <2>2
  <2>5. LineInv(due, task_log[n + 1])'
    BY <1>1, <2>3, <2>4 DEF LineInv
  <2>6. \A k \in 1 .. n + 1 : k \in 1 .. n \/ k = n + 1
    BY <1>4
  <2> QED  BY <2>1, <2>5, <2>6 DEF LineInv
<1>7. \A j \in 1 .. n : /\ task_log[j].end <= start_time
                        /\ task_log[j].pid = running_pd =>
                             task_log[j].cpu_index < pd[running_pd].cpu_index
  BY <1>1, <1>5 DEF LineInv
<1>8. LinesOrdered'
  <2> SUFFICES ASSUME NEW j \in 1 .. n + 1, NEW k \in 1 .. n + 1, j < k
               PROVE  /\ task_log'[j].end <= task_log'[k].start
                      /\ task_log'[j].pid = task_log'[k].pid =>
                           task_log'[j].cpu_index < task_log'[k].cpu_index
    BY <1>4 DEF LinesOrdered
  <2>1. j \in 1 .. n /\ (k \in 1 .. n \/ k = n + 1)
    BY <1>4
  <2>2. CASE k \in 1 .. n
    BY <1>0, <1>4, <2>1, <2>2 DEF LogInv, LinesOrdered
  <2>3. CASE k = n + 1
    BY <1>2, <1>4, <1>7, <2>1, <2>3
  <2> QED  BY <2>1, <2>2, <2>3
<1>9. TurnInv(due)'
  BY <1>1 DEF LogInv, TurnInv
<1> QED  BY <1>4, <1>6, <1>8, <1>9 DEF LogInv

(* The steps every policy shares write no line.                            *)
LEMMA SharedSparesLog ==
    ASSUME NEW CONSTANT L, SimTypeOK(L), SimInv,
           \/ main \/ add_arrival \/ dispatch \/ wakeUp \/ UNCHANGED vars
           \/ CpuFinished \/ CpuRetire \/ CpuEnqueue \/ CpuPost
    PROVE  /\ UNCHANGED log /\ global_counter <= global_counter'
           /\ sched_pc' = "unborn" => sched_pc = "unborn"
           /\ sched_pc' \in InTurn => sched_pc \in InTurn /\ running_pd' = running_pd
           /\ sched_pc' \in Pending => sched_pc \in Pending
<1>0. global_counter \in Nat
  BY DEF SimTypeOK
<1>1. CASE main
  BY <1>0, <1>1 DEF main, CreateScheduler, CreateWakeup, JoinWakeup, JoinScheduler, write_result,
              MainStep, InTurn, Pending
<1>2. CASE add_arrival
  <2>1. UNCHANGED <<log, sched_pc, running_pd>>
    BY <1>2 DEF add_arrival, ArrivalAdmit, ArrivalTick
  <2>2. global_counter' = global_counter \/ global_counter' = global_counter + 1
    BY <1>2 DEF add_arrival, ArrivalAdmit, ArrivalTick
  <2> QED  BY <1>0, <2>1, <2>2
<1>3. CASE dispatch
  <2>1. UNCHANGED <<log, global_counter>>
    BY <1>3 DEF dispatch, SchedCheck, SchedDoneCounter, SchedDoneReady, SchedDoneWait,
                SchedTryWait, SchedRemove, SchedUnchanged
  <2>2. sched_pc' \notin InTurn /\ sched_pc' \notin Pending /\ sched_pc' # "unborn"
    BY <1>3 DEF dispatch, SchedCheck, SchedDoneCounter, SchedDoneReady, SchedDoneWait,
                SchedTryWait, SchedRemove, SchedStep, InTurn, Pending
  <2> QED  BY <1>0, <2>1, <2>2
<1>4. CASE wakeUp
  <2>1. CASE IoBurstDone
    <3>1. PICK p \in Pids : IoBurst(p) \in Nat /\ Charges(p, 0, IoBurst(p))
      BY <2>1, IoBurstCharges
    <3>2. global_counter <= global_counter'
      BY <1>0, <3>1 DEF Charges
    <3> QED  BY <2>1, <3>2 DEF IoBurstDone, WakeUnchanged
  <2>2. CASE ~ IoBurstDone
    BY <1>0, <1>4, <2>2 DEF wakeUp, WakeCheck, WakeTryWait, WakeRemove, IoFinished, IoRetire,
                            IoEnqueue, IoPost, WakeUnchanged
  <2> QED  BY <2>1, <2>2
<1>5. CASE CpuFinished \/ CpuRetire \/ CpuEnqueue \/ CpuPost
  BY <1>0, <1>5 DEF CpuFinished, CpuRetire, CpuEnqueue, CpuPost, SchedStep, InTurn, Pending
<1>6. CASE UNCHANGED vars
  BY <1>0, <1>6 DEF vars
<1> QED  BY <1>1, <1>2, <1>3, <1>4, <1>5, <1>6

LEMMA SharedKeepsLog ==
    ASSUME NEW CONSTANT L, NEW CONSTANT due, SimTypeOK(L), SimInv, SimTypeOK(L)', LogInv(due),
           \/ main \/ add_arrival \/ dispatch \/ wakeUp \/ UNCHANGED vars
           \/ CpuFinished \/ CpuRetire \/ CpuEnqueue \/ CpuPost \/ CpuLog
    PROVE  LogInv(due)'
<1>1. CASE CpuLog
  BY <1>1, LineWritten
<1>2. CASE ~ CpuLog
  <2>1. sched_pc = "unborn" \/ \A p \in Pids : pd'[p].cpu_index = pd[p].cpu_index
    BY SharedSparesCpu
  <2> QED  BY <1>2, <2>1, SharedSparesLog, LogKept
<1> QED  BY <1>1, <1>2

(* No step every policy shares takes the scheduler into its burst.         *)
LEMMA EntersNoTurn ==
    ASSUME \/ main \/ add_arrival \/ dispatch \/ wakeUp \/ UNCHANGED vars
           \/ CpuFinished \/ CpuRetire \/ CpuEnqueue \/ CpuPost \/ CpuLog
    PROVE  sched_pc' \in {"run", "end"} => sched_pc' = sched_pc
<1>1. CASE main
  BY <1>1 DEF main, CreateScheduler, CreateWakeup, JoinWakeup, JoinScheduler, write_result
<1>2. CASE add_arrival
  BY <1>2 DEF add_arrival, ArrivalAdmit, ArrivalTick
<1>3. CASE dispatch
  BY <1>3 DEF dispatch, SchedCheck, SchedDoneCounter, SchedDoneReady, SchedDoneWait,
              SchedTryWait, SchedRemove, SchedStep
<1>4. CASE wakeUp
  BY <1>4 DEF wakeUp, WakeCheck, WakeTryWait, WakeRemove, IoFinished, IoRetire, IoBurstDone,
              IoEnqueue, IoPost, WakeUnchanged
<1>5. CASE CpuFinished \/ CpuRetire \/ CpuEnqueue \/ CpuPost \/ CpuLog
  BY <1>5 DEF CpuFinished, CpuRetire, CpuEnqueue, CpuPost, CpuLog, SchedStep
<1>6. CASE UNCHANGED vars
  BY <1>6 DEF vars
<1> QED  BY <1>1, <1>2, <1>3, <1>4, <1>5, <1>6

(* The burst of the process on the CPU is a number.                        *)
LEMMA RunningBurst ==
    ASSUME NEW CONSTANT L, SimTypeOK(L), SimInv, sched_pc \in Serving \ {"cpu"}
    PROVE  CpuBurst(running_pd) \in Nat
<1>1. PICK p \in Pids : p = running_pd /\ pd[p].cpu_index < Len(process_d[p].cpu_burst)
  BY RunningFacts
<1>2. /\ process_d[p].cpu_burst \in Seq(Nat) /\ Len(process_d[p].cpu_burst) \in Nat
      /\ pd[p].cpu_index \in Nat
  BY LineFacts, TimesAreNat
<1>3. pd[p].cpu_index + 1 \in 1 .. Len(process_d[p].cpu_burst)
  BY <1>1, <1>2
<1> QED  BY <1>1, <1>2, <1>3, ElementOfSeq DEF CpuBurst

LEMMA InitLog ==
    ASSUME Init, NEW CONSTANT due
    PROVE  LogInv(due)
<1>1. /\ task_log = <<>> /\ Len(task_log) = 0 /\ end_time = 0 /\ global_counter = 0
      /\ sched_pc = "unborn"
  BY DEF Init
<1> QED  BY <1>1 DEF LogInv, TurnInv, LinesOrdered, Pending
-----------------------------------------------------------------------------
(* The turns.  Round the circle ready queue, CPU, wait queue, I/O nobody   *)
(* is passed by one of the same priority: who is ahead is of the same lap  *)
(* and arrived earlier, or a lap behind and arrived later.  A lap is       *)
(* counted when the process is back on the ready queue (IoDone).           *)
Ahead(p, q) ==
    \/ p \in OnIo /\ q \in Carried(waitQueue) \cup OnCpu \cup Carried(readyQueue)
    \/ p \in Carried(waitQueue) /\ q \in OnCpu \cup Carried(readyQueue)
    \/ p \in OnCpu /\ q \in Carried(readyQueue)
    \/ Before(waitQueue, p, q)
    \/ Before(readyQueue, p, q)

InTurns(p, q) ==
    \/ p < q /\ IoDone(p) = IoDone(q)
    \/ q < p /\ IoDone(q) = IoDone(p) + 1

TakesTurns ==
    \A p, q \in Pids : Ahead(p, q) /\ pd[p].priority = pd[q].priority => InTurns(p, q)

(* Both queues are filed by the priorities the processes have now.         *)
Priorities == [p \in Pids |-> pd[p].priority]

QueuesFiled ==
    Policy \in {"sjf", "srtf"} =>
        FiledBy(readyQueue, Priorities) /\ FiledBy(waitQueue, Priorities)

(* The wake-up thread retires a sleeper; nobody has done I/O before the    *)
(* arrivals are over.                                                      *)
RetiresSleeper == wake_pc = "retire" => pd[sleeping_pd].status = "SLEEP"

NoLapYet == main_pc = "join_arrival" => \A p \in Pids : pd[p].io_index = 0

TurnsInv == TakesTurns /\ QueuesFiled /\ RetiresSleeper /\ NoLapYet

LEMMA PlacesApart ==
    ASSUME NEW CONSTANT L, SimTypeOK(L), SimInv
    PROVE  /\ readyQueue \in Seq(NodeOf(Pids)) /\ waitQueue \in Seq(NodeOf(Pids))
           /\ NoDuplicates(readyQueue) /\ NoDuplicates(waitQueue)
           /\ \A p \in Carried(readyQueue) :
                /\ p \in Pids /\ p < T_PROCESS
                /\ p \notin Carried(waitQueue) /\ p \notin OnCpu /\ p \notin OnIo
           /\ \A p \in Carried(waitQueue) :
                p \in Pids /\ p < T_PROCESS /\ p \notin OnCpu /\ p \notin OnIo
           /\ \A p \in OnCpu : p \in Pids /\ p < T_PROCESS /\ p \notin OnIo
           /\ \A p \in OnIo : p \in Pids /\ p < T_PROCESS
<1>1. \A p \in 0 .. T_PROCESS - 1 : p \in Pids /\ p < T_PROCESS
  BY TotalAssumption DEF SimTypeOK, Pids
<1>2. readyQueue \in Seq(NodeOf(Pids)) /\ waitQueue \in Seq(NodeOf(Pids))
  BY DEF SimTypeOK, Node, NodeOf
<1> QED  BY <1>1, <1>2 DEF SimInv, OneOwner, Apart

(* Who is ahead of whom is told by the places.                             *)
(* A step that puts nobody ahead of anybody keeps the turns.               *)
LEMMA AheadKept ==
    ASSUME TakesTurns,
           \A p \in Pids : pd'[p].priority = pd[p].priority /\ IoDone(p)' = IoDone(p),
           \A p, q \in Pids : Ahead(p, q)' /\ pd[p].priority = pd[q].priority => Ahead(p, q)
    PROVE  TakesTurns'
  BY DEF TakesTurns, InTurns

LEMMA PrioritiesKept ==
    ASSUME \A p \in Pids : pd'[p].priority = pd[p].priority
    PROVE  Priorities' = Priorities
  BY DEF Priorities

(* A step that moves nobody from queue to queue.                           *)
LEMMA QuietTurns ==
    ASSUME TakesTurns, QueuesFiled, UNCHANGED <<readyQueue, waitQueue>>,
           OnCpu' \subseteq OnCpu, OnIo' \subseteq OnIo,
           \A p \in Pids : pd'[p].priority = pd[p].priority /\ IoDone(p)' = IoDone(p)
    PROVE  TakesTurns' /\ QueuesFiled'
<1>1. \A p, q \in Pids : Ahead(p, q)' => Ahead(p, q)
  BY DEF Ahead
<1>2. QueuesFiled'
  BY PrioritiesKept DEF QueuesFiled
<1> QED  BY <1>1, <1>2, AheadKept

(* What the wake-up thread retires, and when laps begin.                   *)
LEMMA SchedKeepsSleeper ==
    ASSUME NEW CONSTANT L, SimTypeOK(L), SimInv, RetiresSleeper, NoLapYet,
           UNCHANGED <<wake_pc, sleeping_pd, main_pc>>,
           \A p \in Pids : pd'[p].io_index = pd[p].io_index,
           \A p \in Pids : p \notin OnCpu => pd'[p] = pd[p]
    PROVE  RetiresSleeper' /\ NoLapYet'
<1>1. ASSUME wake_pc = "retire"
      PROVE  pd'[sleeping_pd] = pd[sleeping_pd]
  <2>1. sleeping_pd \in OnIo
    BY <1>1 DEF OnIo
  <2> QED  BY <2>1, PlacesApart
<1> QED  BY <1>1 DEF RetiresSleeper, NoLapYet

(* The steps that only look, count or post.                                *)
LEMMA LooksKeepTurns ==
    ASSUME NEW CONSTANT L, SimTypeOK(L), SimInv, TurnsInv,
           \/ main \/ ArrivalTick \/ UNCHANGED vars
           \/ SchedCheck \/ SchedDoneCounter \/ SchedDoneReady \/ SchedDoneWait \/ SchedTryWait
           \/ CpuFinished \/ CpuPost \/ CpuLog
           \/ WakeCheck \/ WakeTryWait \/ IoFinished \/ IoPost
    PROVE  TurnsInv'
<1>1. /\ UNCHANGED <<pd, readyQueue, waitQueue>>
      /\ OnCpu' = OnCpu /\ OnIo' = OnIo /\ sleeping_pd' = sleeping_pd
      /\ wake_pc' # "enqueue" \/ wake_pc' = wake_pc
      /\ wake_pc # "enqueue" \/ wake_pc' = wake_pc
      /\ wake_pc' = "retire" => wake_pc \in {"io", "retire"}
      /\ main_pc' = "join_arrival" => main_pc = "join_arrival"
  <2>1. CASE main
    <3>1. CASE CreateScheduler
      BY <3>1 DEF CreateScheduler, MainStep, tables, queues, OnCpu, OnIo, SimInv, ThreadsStarted
    <3>2. CASE CreateWakeup
      BY <3>2 DEF CreateWakeup, MainStep, tables, queues, OnCpu, OnIo, SimInv, ThreadsStarted
    <3>3. CASE JoinWakeup \/ JoinScheduler \/ write_result
      BY <3>3 DEF JoinWakeup, JoinScheduler, write_result, MainStep, tables, queues, OnCpu, OnIo
    <3> QED  BY <2>1, <3>1, <3>2, <3>3 DEF main
  <2>2. CASE ArrivalTick
    BY <2>2 DEF ArrivalTick, tables, queues, OnCpu, OnIo
  <2>3. CASE SchedCheck \/ SchedDoneCounter \/ SchedDoneReady \/ SchedDoneWait \/ SchedTryWait
    BY <2>3 DEF SchedCheck, SchedDoneCounter, SchedDoneReady, SchedDoneWait, SchedTryWait,
                SchedStep, SchedUnchanged, tables, queues, OnCpu, OnIo
  <2>4. CASE CpuFinished \/ CpuPost \/ CpuLog
    BY <2>4 DEF CpuFinished, CpuPost, CpuLog, SchedStep, CpuUnchanged, queues, OnCpu, OnIo
  <2>5. CASE WakeCheck \/ WakeTryWait \/ IoFinished \/ IoPost
    BY <2>5 DEF WakeCheck, WakeTryWait, IoFinished, IoPost, WakeStep, WakeUnchanged, queues,
                OnCpu, OnIo
  <2>6. CASE UNCHANGED vars
    BY <2>6 DEF vars, tables, queues, OnCpu, OnIo
  <2> QED  BY <2>1, <2>2, <2>3, <2>4, <2>5, <2>6
<1>2. \A p \in Pids : pd'[p].priority = pd[p].priority /\ IoDone(p)' = IoDone(p)
  BY <1>1 DEF IoDone, Flag
<1>3. TakesTurns' /\ QueuesFiled'
  BY <1>1, <1>2, QuietTurns DEF TurnsInv
<1>4. RetiresSleeper' /\ NoLapYet'
  BY <1>1 DEF TurnsInv, RetiresSleeper, NoLapYet, SimInv, StatusByPlace
<1> QED  BY <1>3, <1>4 DEF TurnsInv

(* A process that retires leaves the circle.                               *)
LEMMA RetireKeepsTurns ==
    ASSUME NEW CONSTANT L, SimTypeOK(L), SimInv, TurnsInv, CpuRetire \/ IoRetire
    PROVE  TurnsInv'
<1>1. /\ UNCHANGED <<readyQueue, waitQueue, sleeping_pd, main_pc>>
      /\ OnCpu' \subseteq OnCpu /\ OnIo' \subseteq OnIo
      /\ wake_pc # "enqueue" \/ wake_pc' = wake_pc
      /\ wake_pc' # "enqueue" \/ wake_pc' = wake_pc
      /\ \/ retire(running_pd) /\ running_pd \in OnCpu /\ wake_pc' = wake_pc
         \/ retire(sleeping_pd) /\ sleeping_pd \in OnIo /\ wake_pc' # "retire"
  BY DEF CpuRetire, IoRetire, SchedStep, WakeStep, CpuUnchanged, WakeUnchanged, queues, OnCpu,
         OnIo
<1>2. PICK p \in Pids : retire(p) /\ (wake_pc' # "retire" \/ (p \in OnCpu /\ wake_pc' = wake_pc))
  BY <1>1, PlacesApart
<1>3. \A q \in Pids : /\ pd'[q].priority = pd[q].priority
                      /\ pd'[q].io_index = pd[q].io_index
                      /\ q # p => pd'[q] = pd[q]
  BY <1>2, RetireKeepsTimes
<1>4. \A q \in Pids : IoDone(q)' = IoDone(q)
  BY <1>1, <1>3 DEF IoDone, Flag
<1>5. TakesTurns' /\ QueuesFiled'
  BY <1>1, <1>3, <1>4, QuietTurns DEF TurnsInv
<1>6. RetiresSleeper' /\ NoLapYet'
  <2>1. CASE p \in OnCpu /\ wake_pc' = wake_pc
    BY <1>1, <1>2, <1>3, <2>1, SchedKeepsSleeper DEF TurnsInv
  <2>2. CASE wake_pc' # "retire"
    BY <1>1, <1>3, <2>2 DEF TurnsInv, RetiresSleeper, NoLapYet
  <2> QED  BY <1>2, <2>1, <2>2
<1> QED  BY <1>5, <1>6 DEF TurnsInv

LEMMA IoBurstKeepsTurns ==
    ASSUME NEW CONSTANT L, SimTypeOK(L), SimInv, TurnsInv, IoBurstDone
    PROVE  TurnsInv'
<1>1. PICK p \in Pids :
        /\ p = sleeping_pd /\ wake_pc = "io" /\ pd[p].status = "SLEEP"
        /\ pd'[p].io_index = pd[p].io_index + 1
        /\ pd'[p].priority = pd[p].priority
        /\ \A q \in Pids \ {p} : pd'[q] = pd[q]
  BY IoBurstCharges
<1>2. /\ wake_pc' = "enqueue"
      /\ UNCHANGED <<readyQueue, waitQueue, sleeping_pd, running_pd, sched_pc, main_pc>>
  BY <1>1 DEF IoBurstDone, WakeStep, WakeUnchanged, queues
<1>3. OnCpu' = OnCpu /\ OnIo' = OnIo
  BY <1>1, <1>2 DEF OnCpu, OnIo
<1>4. ASSUME NEW q \in Pids
      PROVE  pd'[q].priority = pd[q].priority /\ IoDone(q)' = IoDone(q)
  <2>1. CASE q = p
    <3>1. IoDone(p) = pd[p].io_index - 0 /\ IoDone(p)' = pd'[p].io_index - 1
      BY <1>1, <1>2 DEF IoDone, Flag
    <3> QED  BY <1>1, <2>1, <3>1, TimesAreNat
  <2>2. CASE q # p
    BY <1>1, <1>2, <2>2 DEF IoDone, Flag
  <2> QED  BY <2>1, <2>2
<1>5. TakesTurns' /\ QueuesFiled'
  BY <1>2, <1>3, <1>4, QuietTurns DEF TurnsInv
<1>6. RetiresSleeper' /\ NoLapYet'
  BY <1>1, <1>2 DEF RetiresSleeper, NoLapYet, SimInv, ThreadsStarted
<1> QED  BY <1>5, <1>6 DEF TurnsInv

(* The front of a queue was ahead of the rest of it before it was taken.   *)
LEMMA SchedRemoveKeepsTurns ==
    ASSUME NEW CONSTANT L, SimTypeOK(L), SimInv, TurnsInv, SchedRemove
    PROVE  TurnsInv'
<1>1. readyQueue \in Seq(Node) /\ Len(readyQueue) # 0 /\ Len(readyQueue) \in Nat
  BY LenProperties DEF SimTypeOK, SimInv, SemaphoresCountQueues, SchedRemove, SchedStep, Flag
<1>2. PICK x \in Pids :
        /\ x = dequeued(readyQueue) /\ x # NULL
        /\ Carried(readyQueue) = Carried(dequeue(readyQueue)) \cup {x}
  BY <1>1, RemoveFacts
<1>3. /\ sched_pc = "remove" /\ sched_pc' = "cpu" /\ readyQueue' = dequeue(readyQueue)
      /\ running_pd' = x
      /\ UNCHANGED <<pd, waitQueue, sleeping_pd, wake_pc, main_pc>>
  BY <1>2 DEF SchedRemove, SchedStep, SchedUnchanged, tables
<1>4. OnCpu = {} /\ OnCpu' = {x} /\ OnIo' = OnIo
  BY <1>3 DEF OnCpu, OnIo
<1>5. /\ \A a, b : Before(readyQueue', a, b) => Before(readyQueue, a, b)
      /\ \A b \in Carried(readyQueue') : Before(readyQueue, x, b)
  <2>1. ~ isEmpty(readyQueue)
    BY <1>2 DEF dequeued
  <2> QED  BY <1>2, <1>3, <2>1, PlacesApart, DequeuedIsBefore
<1>6. \A a, b \in Pids : Ahead(a, b)' => Ahead(a, b)
  BY <1>2, <1>3, <1>4, <1>5 DEF Ahead
<1>7. TakesTurns'
  <2>1. \A p \in Pids : pd'[p].priority = pd[p].priority /\ IoDone(p)' = IoDone(p)
    BY <1>3 DEF IoDone
  <2> QED  BY <1>6, <2>1, AheadKept DEF TurnsInv
<1>8. QueuesFiled'
  <2>1. PICK f : f = Priorities /\ f = Priorities'
    BY <1>3 DEF Priorities
  <2>2. FiledBy(readyQueue, f) => FiledBy(readyQueue', f)
    BY <1>3, PlacesApart, DequeueFiled
  <2> QED  BY <1>3, <2>1, <2>2 DEF TurnsInv, QueuesFiled
<1>9. RetiresSleeper' /\ NoLapYet'
  BY <1>3 DEF TurnsInv, RetiresSleeper, NoLapYet
<1> QED  BY <1>7, <1>8, <1>9 DEF TurnsInv

LEMMA WakeRemoveKeepsTurns ==
    ASSUME NEW CONSTANT L, SimTypeOK(L), SimInv, TurnsInv, WakeRemove
    PROVE  TurnsInv'
<1>1. waitQueue \in Seq(Node) /\ Len(waitQueue) # 0 /\ Len(waitQueue) \in Nat
  BY LenProperties DEF SimTypeOK, SimInv, SemaphoresCountQueues, WakeRemove, WakeStep, Flag
<1>2. PICK x \in Pids :
        /\ x = dequeued(waitQueue) /\ x # NULL
        /\ Carried(waitQueue) = Carried(dequeue(waitQueue)) \cup {x}
  BY <1>1, RemoveFacts
<1>3. /\ wake_pc = "remove" /\ wake_pc' = "io" /\ waitQueue' = dequeue(waitQueue)
      /\ sleeping_pd' = x
      /\ UNCHANGED <<pd, readyQueue, running_pd, sched_pc, main_pc>>
  BY <1>2 DEF WakeRemove, WakeStep, WakeUnchanged
<1>4. OnIo = {} /\ OnIo' = {x} /\ OnCpu' = OnCpu
  BY <1>3 DEF OnCpu, OnIo
<1>5. /\ \A a, b : Before(waitQueue', a, b) => Before(waitQueue, a, b)
      /\ \A b \in Carried(waitQueue') : Before(waitQueue, x, b)
  <2>1. ~ isEmpty(waitQueue)
    BY <1>2 DEF dequeued
  <2> QED  BY <1>2, <1>3, <2>1, PlacesApart, DequeuedIsBefore
<1>6. \A a, b \in Pids : Ahead(a, b)' => Ahead(a, b)
  BY <1>2, <1>3, <1>4, <1>5 DEF Ahead
<1>7. TakesTurns'
  <2>1. \A p \in Pids : pd'[p].priority = pd[p].priority /\ IoDone(p)' = IoDone(p)
    BY <1>3 DEF IoDone, Flag
  <2> QED  BY <1>6, <2>1, AheadKept DEF TurnsInv
<1>8. QueuesFiled'
  <2>1. PICK f : f = Priorities /\ f = Priorities'
    BY <1>3 DEF Priorities
  <2>2. FiledBy(waitQueue, f) => FiledBy(waitQueue', f)
    BY <1>3, PlacesApart, DequeueFiled
  <2> QED  BY <1>3, <2>1, <2>2 DEF TurnsInv, QueuesFiled
<1>9. RetiresSleeper' /\ NoLapYet'
  BY <1>3 DEF TurnsInv, RetiresSleeper, NoLapYet
<1> QED  BY <1>7, <1>8, <1>9 DEF TurnsInv

(* A newcomer goes behind all of its priority.                             *)
LEMMA AddToIsLast ==
    ASSUME NEW q \in Seq(NodeOf(Pids)), NEW f, NEW x \in Pids, f[x] \in Int,
           x \notin Carried(q), Policy \in {"sjf", "srtf"} => FiledBy(q, f)
    PROVE  /\ Carried(AddTo(q, x, f[x])) = Carried(q) \cup {x}
           /\ Policy \in {"sjf", "srtf"} => FiledBy(AddTo(q, x, f[x]), f)
           /\ \A a, b : Before(AddTo(q, x, f[x]), a, b) /\ f[a] = f[b] =>
                /\ a # x
                /\ b = x => a \in Carried(q)
                /\ b # x => Before(q, a, b)
<1>1. q \in Seq(Node)
  BY DEF Node, NodeOf
<1>2. Carried(AddTo(q, x, f[x])) = Carried(q) \cup {x}
  BY <1>1, AddToFacts
<1>3. CASE Policy \in {"sjf", "srtf"}
  <2>1. AddTo(q, x, f[x]) = p_enqueue(q, x, f[x]) /\ FiledBy(q, f)
    BY <1>3 DEF AddTo
  <2>2. FiledBy(p_enqueue(q, x, f[x]), f)
    BY <2>1, PEnqueueFiled
  <2> QED  BY <1>2, <2>1, <2>2, NewcomerIsLast
<1>4. CASE Policy \notin {"sjf", "srtf"}
  <2>1. AddTo(q, x, f[x]) = enqueue(q, x)
    BY <1>4 DEF AddTo
  <2> QED  BY <1>2, <1>4, <2>1, NewcomerIsLast
<1> QED  BY <1>3, <1>4

LEMMA CpuEnqueueKeepsTurns ==
    ASSUME NEW CONSTANT L, SimTypeOK(L), SimInv, TurnsInv, CpuEnqueue
    PROVE  TurnsInv'
<1>1. PICK x \in Pids : x = running_pd
  BY OwnedIsProcess DEF CpuEnqueue, SchedStep, OnCpu
<1>0. PICK f : f = Priorities
  OBVIOUS
<1>2. f = Priorities /\ f[x] = pd[x].priority
  BY <1>0 DEF Priorities
<1>3. /\ sched_pc = "enqueue" /\ sched_pc' = "post"
      /\ waitQueue' = AddTo(waitQueue, x, f[x])
      /\ UNCHANGED <<pd, readyQueue, sleeping_pd, wake_pc, main_pc>>
  BY <1>1, <1>2 DEF CpuEnqueue, SchedStep, CpuUnchanged
<1>4. OnCpu = {x} /\ OnCpu' = {} /\ OnIo' = OnIo
  BY <1>1, <1>3 DEF OnCpu, OnIo
<1>5. x \notin Carried(waitQueue) /\ waitQueue \in Seq(NodeOf(Pids))
  BY <1>4, PlacesApart
<1>6. f[x] \in Int
  BY <1>2 DEF SimTypeOK, process_t
<1>7. /\ Carried(waitQueue') = Carried(waitQueue) \cup {x}
      /\ Policy \in {"sjf", "srtf"} => FiledBy(waitQueue', f)
      /\ \A a, b : Before(waitQueue', a, b) /\ f[a] = f[b] =>
           /\ b = x => a \in Carried(waitQueue)
           /\ b # x => Before(waitQueue, a, b)
  BY <1>2, <1>3, <1>5, <1>6, AddToIsLast DEF TurnsInv, QueuesFiled
<1>8. TakesTurns'
  <2>1. ASSUME NEW a \in Pids, NEW b \in Pids, Ahead(a, b)', pd[a].priority = pd[b].priority
        PROVE  Ahead(a, b)
    <3>1. f[a] = f[b]
      BY <1>2, <2>1 DEF Priorities
    <3> QED  BY <1>3, <1>4, <1>7, <2>1, <3>1 DEF Ahead
  <2>2. \A p \in Pids : pd'[p].priority = pd[p].priority /\ IoDone(p)' = IoDone(p)
    BY <1>3 DEF IoDone
  <2> QED  BY <2>1, <2>2, AheadKept DEF TurnsInv
<1>9. QueuesFiled'
  <2>1. Priorities' = f
    BY <1>2, <1>3 DEF Priorities
  <2> QED  BY <1>2, <1>3, <1>7, <2>1 DEF TurnsInv, QueuesFiled
<1>10. RetiresSleeper' /\ NoLapYet'
  BY <1>3 DEF TurnsInv, RetiresSleeper, NoLapYet
<1> QED  BY <1>8, <1>9, <1>10 DEF TurnsInv

(* Back on the ready queue a process has a lap more, and goes from the     *)
(* front of the circle to its end.                                         *)
LEMMA IoEnqueueKeepsTurns ==
    ASSUME NEW CONSTANT L, SimTypeOK(L), SimInv, TurnsInv, IoEnqueue
    PROVE  TurnsInv'
<1>1. PICK x \in Pids : x = sleeping_pd
  BY OwnedIsProcess DEF IoEnqueue, WakeStep, OnIo
<1>0. PICK f : f = Priorities
  OBVIOUS
<1>2. f = Priorities /\ f[x] = pd[x].priority
  BY <1>0 DEF Priorities
<1>3. /\ wake_pc = "enqueue" /\ wake_pc' = "post"
      /\ readyQueue' = AddTo(readyQueue, x, f[x])
      /\ UNCHANGED <<pd, waitQueue, sleeping_pd, running_pd, sched_pc, main_pc>>
  BY <1>1, <1>2 DEF IoEnqueue, WakeStep, WakeUnchanged
<1>4. OnIo = {x} /\ OnIo' = {} /\ OnCpu' = OnCpu
  BY <1>1, <1>3 DEF OnCpu, OnIo
<1>5. /\ x \notin Carried(readyQueue) /\ x \notin Carried(waitQueue) /\ x \notin OnCpu
      /\ readyQueue \in Seq(NodeOf(Pids)) /\ waitQueue \in Seq(NodeOf(Pids))
  BY <1>4, PlacesApart
<1>6. f[x] \in Int
  BY <1>2 DEF SimTypeOK, process_t
<1>7. /\ Carried(readyQueue') = Carried(readyQueue) \cup {x}
      /\ Policy \in {"sjf", "srtf"} => FiledBy(readyQueue', f)
      /\ \A a, b : Before(readyQueue', a, b) /\ f[a] = f[b] =>
           /\ a # x
           /\ b = x => a \in Carried(readyQueue)
           /\ b # x => Before(readyQueue, a, b)
  BY <1>2, <1>3, <1>5, <1>6, AddToIsLast DEF TurnsInv, QueuesFiled
<1>8. /\ IoDone(x) = pd[x].io_index - 1 /\ IoDone(x)' = pd[x].io_index - 0
      /\ \A q \in Pids \ {x} : IoDone(q)' = IoDone(q)
      /\ pd[x].io_index \in Nat
  BY <1>1, <1>3, TimesAreNat DEF IoDone, Flag
<1>9. TakesTurns'
  <2> SUFFICES ASSUME NEW a \in Pids, NEW b \in Pids,
                      Ahead(a, b)', pd'[a].priority = pd'[b].priority
               PROVE  InTurns(a, b)'
    BY DEF TakesTurns
  <2>1. f[a] = f[b] /\ pd[a].priority = pd[b].priority
    BY <1>2, <1>3 DEF Priorities
  <2>2. \A c : ~ Before(waitQueue, x, c) /\ ~ Before(waitQueue, c, x)
    BY <1>5, BeforeIsCarried
  <2>3. a # x
    BY <1>3, <1>4, <1>5, <1>7, <2>1, <2>2 DEF Ahead
  <2>4. CASE b = x
    <3>1. a \in Carried(waitQueue) \cup OnCpu \cup Carried(readyQueue)
      BY <1>3, <1>4, <1>7, <2>1, <2>2, <2>4 DEF Ahead
    <3>2. Ahead(x, a)
      BY <1>4, <3>1 DEF Ahead
    <3>3. InTurns(x, a)
      BY <2>1, <2>4, <3>2 DEF TurnsInv, TakesTurns
    <3>4. /\ IoDone(x)' = IoDone(x) + 1 /\ IoDone(a)' = IoDone(a)
          /\ IoDone(x) \in Int
      BY <1>8, <2>3
    <3>5. IoDone(a) \in Int
      BY <3>3, <3>4 DEF InTurns
    <3> QED  BY <2>4, <3>3, <3>4, <3>5 DEF InTurns
  <2>5. CASE b # x
    <3>1. Ahead(a, b)
      BY <1>3, <1>4, <1>7, <2>1, <2>3, <2>5 DEF Ahead
    <3>2. InTurns(a, b)
      BY <2>1, <3>1 DEF TurnsInv, TakesTurns
    <3> QED  BY <1>8, <2>3, <2>5, <3>2 DEF InTurns
  <2> QED  BY <2>4, <2>5
<1>10. QueuesFiled'
  <2>1. Priorities' = f
    BY <1>2, <1>3 DEF Priorities
  <2> QED  BY <1>2, <1>3, <1>7, <2>1 DEF TurnsInv, QueuesFiled
<1>11. RetiresSleeper' /\ NoLapYet'
  BY <1>3 DEF TurnsInv, RetiresSleeper, NoLapYet
<1> QED  BY <1>9, <1>10, <1>11 DEF TurnsInv

(* Who arrives goes behind all who arrived earlier, before the first lap.  *)
LEMMA ArrivalKeepsTurns ==
    ASSUME NEW CONSTANT L, SimTypeOK(L), SimInv, TurnsInv, ArrivalAdmit
    PROVE  TurnsInv'
<1>1. PICK x \in Pids : x = T_PROCESS
  <2>1. T_PROCESS \in 0 .. TOTAL_PROCESS /\ T_PROCESS < TOTAL_PROCESS
    BY DEF ArrivalAdmit, SimTypeOK
  <2> QED  BY <2>1, TotalAssumption DEF Pids
<1>2. PICK first, priority, remaining :
        /\ first \in FirstBurst(process_d[x])
        /\ priority = IF Policy \in {"sjf", "srtf"} THEN first ELSE 0
        /\ pd' = [pd EXCEPT ![x] = [create_process EXCEPT !.priority = priority,
                                                          !.remaining_time = remaining]]
        /\ readyQueue' = AddTo(readyQueue, x, priority)
  BY <1>1 DEF ArrivalAdmit
<1>3. priority \in Int
  <2>1. process_d[x].cpu_burst \in Seq(Nat)
    BY LineFacts
  <2>2. process_d[x].cpu_burst # <<>> => process_d[x].cpu_burst[1] \in Nat
    BY <2>1
  <2>3. first \in Int
    BY <1>2, <2>2, GarbageAssumption DEF FirstBurst
  <2> QED  BY <1>2, <2>3
<1>4. /\ pd'[x].priority = priority /\ pd'[x].io_index = 0
      /\ \A q \in Pids \ {x} : pd'[q] = pd[q]
  BY <1>2 DEF SimTypeOK, create_process
<1>5. /\ main_pc = "join_arrival" /\ main_pc' = main_pc
      /\ sched_pc = "unborn" /\ sched_pc' = "unborn" /\ wake_pc = "unborn" /\ wake_pc' = "unborn"
      /\ waitQueue' = waitQueue
  BY DEF ArrivalAdmit, SimInv, ThreadsStarted
<1>6. OnCpu = {} /\ OnCpu' = {} /\ OnIo = {} /\ OnIo' = {}
  BY <1>5 DEF OnCpu, OnIo
<1>7. \A q \in Pids : IoDone(q) = 0 /\ IoDone(q)' = 0
  BY <1>4, <1>5 DEF TurnsInv, NoLapYet, IoDone, Flag
<1>8. /\ \A q \in Carried(readyQueue) \cup Carried(waitQueue) : q \in Pids /\ q < x
      /\ x \notin Carried(readyQueue) /\ x \notin Carried(waitQueue)
      /\ readyQueue \in Seq(NodeOf(Pids)) /\ waitQueue \in Seq(NodeOf(Pids))
  <2>1. x \in Int
    BY <1>1 DEF SimTypeOK
  <2>2. ~ (x < x)
    BY <2>1
  <2> QED  BY <1>1, <2>2, PlacesApart
<1>0. PICK f : f = Priorities'
  OBVIOUS
<1>9. f = Priorities' /\ f[x] = priority
  BY <1>0, <1>4 DEF Priorities
<1>10. \A q \in Carried(readyQueue) \cup Carried(waitQueue) : f[q] = Priorities[q]
  BY <1>4, <1>8, <1>9 DEF Priorities
<1>11. Policy \in {"sjf", "srtf"} => FiledBy(readyQueue, f) /\ FiledBy(waitQueue, f)
  <2>1. PICK g : g = Priorities
    OBVIOUS
  <2> QED  BY <1>8, <1>10, <2>1, FiledByAgrees DEF TurnsInv, QueuesFiled
<1>12. /\ Carried(readyQueue') = Carried(readyQueue) \cup {x}
       /\ Policy \in {"sjf", "srtf"} => FiledBy(readyQueue', f)
       /\ \A a, b : Before(readyQueue', a, b) /\ f[a] = f[b] =>
            /\ a # x
            /\ b = x => a \in Carried(readyQueue)
            /\ b # x => Before(readyQueue, a, b)
  BY <1>2, <1>3, <1>8, <1>9, <1>11, AddToIsLast
<1>13. TakesTurns'
  <2> SUFFICES ASSUME NEW a \in Pids, NEW b \in Pids,
                      Ahead(a, b)', pd'[a].priority = pd'[b].priority
               PROVE  a < b
    BY <1>7 DEF TakesTurns, InTurns
  <2>1. f[a] = f[b]
    BY <1>9 DEF Priorities
  <2>2. \A c : ~ Before(waitQueue, x, c) /\ ~ Before(waitQueue, c, x)
    BY <1>8, BeforeIsCarried
  <2>3. a # x
    BY <1>5, <1>6, <1>8, <1>12, <2>1, <2>2 DEF Ahead
  <2>4. CASE b = x
    <3>1. a \in Carried(waitQueue) \cup Carried(readyQueue)
      BY <1>5, <1>6, <1>12, <2>1, <2>2, <2>4 DEF Ahead
    <3> QED  BY <1>8, <2>4, <3>1
  <2>5. CASE b # x
    <3>1. Ahead(a, b)
      BY <1>5, <1>6, <1>12, <2>1, <2>3, <2>5 DEF Ahead
    <3>2. InTurns(a, b)
      BY <1>4, <2>3, <2>5, <3>1 DEF TurnsInv, TakesTurns
    <3>3. IoDone(a) = 0 /\ IoDone(b) = 0
      BY <1>7
    <3> QED  BY <3>2, <3>3 DEF InTurns
  <2> QED  BY <2>4, <2>5
<1>14. QueuesFiled'
  BY <1>5, <1>9, <1>11, <1>12 DEF QueuesFiled
<1>15. RetiresSleeper' /\ NoLapYet'
  BY <1>4, <1>5 DEF TurnsInv, RetiresSleeper, NoLapYet
<1> QED  BY <1>13, <1>14, <1>15 DEF TurnsInv

(* The steps of a policy's _process_cpu between dispatch and hand-over.     *)
LEMMA ServingKeepsTurns ==
    ASSUME NEW CONSTANT L, SimTypeOK(L), SimInv, TurnsInv,
           UNCHANGED <<queues, sleeping_pd, wake_pc, main_pc>>, OnCpu' \subseteq OnCpu,
           \A p \in Pids : /\ pd'[p].priority = pd[p].priority
                           /\ pd'[p].io_index = pd[p].io_index
                           /\ p \notin OnCpu => pd'[p] = pd[p]
    PROVE  TurnsInv'
<1>1. OnIo' = OnIo /\ \A p \in Pids : IoDone(p)' = IoDone(p)
  BY DEF OnIo, IoDone
<1>2. TakesTurns' /\ QueuesFiled'
  BY <1>1, QuietTurns DEF TurnsInv, queues
<1>3. RetiresSleeper' /\ NoLapYet'
  BY SchedKeepsSleeper DEF TurnsInv
<1> QED  BY <1>2, <1>3 DEF TurnsInv

LEMMA SharedKeepsTurns ==
    ASSUME NEW CONSTANT L, SimTypeOK(L), SimInv, TurnsInv,
           \/ main \/ add_arrival \/ dispatch \/ wakeUp \/ UNCHANGED vars
           \/ CpuFinished \/ CpuRetire \/ CpuEnqueue \/ CpuPost \/ CpuLog
    PROVE  TurnsInv'
<1>1. CASE ArrivalAdmit \/ SchedRemove \/ WakeRemove \/ CpuEnqueue \/ IoEnqueue
  BY <1>1, ArrivalKeepsTurns, SchedRemoveKeepsTurns, WakeRemoveKeepsTurns,
     CpuEnqueueKeepsTurns, IoEnqueueKeepsTurns
<1>2. CASE CpuRetire \/ IoRetire \/ IoBurstDone
  BY <1>2, RetireKeepsTurns, IoBurstKeepsTurns
<1>3. CASE \/ main \/ ArrivalTick \/ UNCHANGED vars
           \/ SchedCheck \/ SchedDoneCounter \/ SchedDoneReady \/ SchedDoneWait \/ SchedTryWait
           \/ CpuFinished \/ CpuPost \/ CpuLog
           \/ WakeCheck \/ WakeTryWait \/ IoFinished \/ IoPost
  BY <1>3, LooksKeepTurns
<1> QED  BY <1>1, <1>2, <1>3 DEF add_arrival, dispatch, wakeUp

LEMMA InitTurns == Init => TurnsInv
<1> SUFFICES ASSUME Init PROVE TurnsInv
  OBVIOUS
<1>1. /\ sched_pc = "unborn" /\ wake_pc = "unborn" /\ readyQueue = <<>> /\ waitQueue = <<>>
      /\ \A p \in Pids : pd[p].io_index = 0
  BY DEF Init, create_process
<1>2. OnCpu = {} /\ OnIo = {} /\ Carried(readyQueue) = {} /\ Carried(waitQueue) = {}
  BY <1>1 DEF OnCpu, OnIo, Carried, ToSet
<1>3. \A p, q : ~ Before(readyQueue, p, q) /\ ~ Before(waitQueue, p, q)
  BY <1>1 DEF Before
<1> QED
  BY <1>1, <1>2, <1>3
  DEF TurnsInv, TakesTurns, Ahead, QueuesFiled, FiledBy, Ordered, RetiresSleeper, NoLapYet

(* A lap is a CPU burst and an I/O burst: a process on its way to I/O has  *)
(* one burst more than laps, and whoever is ahead is as far.               *)
LEMMA TurnsDoNotOvertake ==
    ASSUME NEW CONSTANT L, SimTypeOK(L), SimInv, TurnsInv
    PROVE  NoOvertaking
<1> DEFINE Past(p) == pd[p].cpu_index - IoDone(p)
<1>1. ASSUME NEW p \in Pids, p \notin Retired
      PROVE  /\ pd[p].cpu_index \in Nat /\ IoDone(p) \in Int
             /\ Past(p) \in {0, 1}
             /\ p \in OnIo \cup Carried(waitQueue) => Past(p) = 1
             /\ p \in Carried(readyQueue) => Past(p) = 0
  <2>1. pd[p] \in process_t /\ pd[p].cpu_index \in Nat /\ pd[p].io_index \in Nat
    BY TimesAreNat DEF SimTypeOK
  <2>2. pd[p].status \in {"NEW", "READY", "SLEEP"}
    BY <1>1, <2>1 DEF process_t, Retired
  <2>3. /\ pd[p].status # "SLEEP" => pd[p].cpu_index = pd[p].io_index
        /\ pd[p].status = "SLEEP" => pd[p].cpu_index = pd[p].io_index + 1
    BY <2>2 DEF SimInv, BurstsInStep
  <2>4. CASE wake_pc = "enqueue" /\ p = sleeping_pd
    <3>1. p \in OnIo /\ IoDone(p) = pd[p].io_index - 1 /\ pd[p].status = "READY"
      BY <2>4 DEF OnIo, IoDone, Flag, SimInv, StatusByPlace
    <3>2. p \notin Carried(readyQueue)
      BY <3>1, PlacesApart
    <3>3. Past(p) = 1 /\ IoDone(p) \in Int
      BY <2>1, <2>3, <3>1
    <3> QED  BY <2>1, <3>2, <3>3
  <2>5. CASE ~ (wake_pc = "enqueue" /\ p = sleeping_pd)
    <3>1. IoDone(p) = pd[p].io_index - 0
      BY <2>5 DEF IoDone, Flag
    <3>2. IoDone(p) = pd[p].io_index
      BY <2>1, <3>1
    <3>3. p \in OnIo \cup Carried(waitQueue) => pd[p].status = "SLEEP"
      BY <2>5 DEF OnIo, SimInv, StatusByPlace, TurnsInv, RetiresSleeper
    <3>4. p \in Carried(readyQueue) => pd[p].status # "SLEEP"
      BY DEF SimInv, StatusByPlace
    <3>5. /\ pd[p].status # "SLEEP" => Past(p) = 0
          /\ pd[p].status = "SLEEP" => Past(p) = 1
      BY <2>1, <2>3, <3>2
    <3> QED  BY <2>1, <3>2, <3>3, <3>4, <3>5
  <2> QED  BY <2>4, <2>5
<1> HIDE DEF Past
<1>2. ASSUME NEW p \in Pids \ Retired, NEW q \in Pids \ Retired, Ahead(p, q)
      PROVE  Past(p) >= Past(q)
  <2>1. /\ Past(p) \in {0, 1} /\ Past(q) \in {0, 1}
        /\ p \in OnIo \cup Carried(waitQueue) => Past(p) = 1
        /\ q \in Carried(readyQueue) => Past(q) = 0
    BY <1>1
  <2>2. p \in OnIo \cup Carried(waitQueue) \/ q \in Carried(readyQueue)
    <3>1. Before(waitQueue, p, q) => p \in Carried(waitQueue)
      BY PlacesApart, BeforeIsCarried
    <3>2. Before(readyQueue, p, q) => q \in Carried(readyQueue)
      BY PlacesApart, BeforeIsCarried
    <3> QED  BY <1>2, <3>1, <3>2 DEF Ahead
  <2> QED  BY <2>1, <2>2
<1>3. ASSUME NEW p \in (0 .. T_PROCESS - 1) \ Retired, NEW q \in (0 .. T_PROCESS - 1) \ Retired,
             p # q
      PROVE  Ahead(p, q) \/ Ahead(q, p)
  <2>1. /\ p \in Carried(readyQueue) \cup Carried(waitQueue) \cup OnCpu \cup OnIo
        /\ q \in Carried(readyQueue) \cup Carried(waitQueue) \cup OnCpu \cup OnIo
    BY DEF SimInv, OneOwner
  <2>2. p \in Carried(readyQueue) /\ q \in Carried(readyQueue) =>
          Before(readyQueue, p, q) \/ Before(readyQueue, q, p)
    BY <1>3, PlacesApart, BeforeIsTotal
  <2>3. p \in Carried(waitQueue) /\ q \in Carried(waitQueue) =>
          Before(waitQueue, p, q) \/ Before(waitQueue, q, p)
    BY <1>3, PlacesApart, BeforeIsTotal
  <2>4. ~ (p \in OnCpu /\ q \in OnCpu) /\ ~ (p \in OnIo /\ q \in OnIo)
    <3>1. OnCpu \subseteq {running_pd} /\ OnIo \subseteq {sleeping_pd}
      BY DEF OnCpu, OnIo
    <3> QED  BY <1>3, <3>1
  <2> QED  BY <2>1, <2>2, <2>3, <2>4 DEF Ahead
<1> SUFFICES ASSUME NEW p \in (0 .. T_PROCESS - 1) \ Retired,
                    NEW q \in (0 .. T_PROCESS - 1) \ Retired,
                    p < q, pd[p].priority = pd[q].priority
             PROVE  pd[p].cpu_index - pd[q].cpu_index \in {0, 1}
  BY DEF NoOvertaking
<1>4. p \in Pids /\ q \in Pids /\ p \in Int /\ q \in Int /\ p # q /\ ~ (q < p)
  BY TotalAssumption DEF SimTypeOK, Pids
<1>5. /\ pd[p].cpu_index \in Nat /\ IoDone(p) \in Int /\ Past(p) \in {0, 1}
      /\ pd[q].cpu_index \in Nat /\ IoDone(q) \in Int /\ Past(q) \in {0, 1}
      /\ Past(p) = pd[p].cpu_index - IoDone(p) /\ Past(q) = pd[q].cpu_index - IoDone(q)
  BY <1>1, <1>4 DEF Past
<1>6. CASE Ahead(p, q)
  <2>1. IoDone(p) = IoDone(q)
    BY <1>4, <1>6 DEF TurnsInv, TakesTurns, InTurns
  <2>2. Past(p) >= Past(q)
    BY <1>2, <1>4, <1>6
  <2>3. pd[p].cpu_index - pd[q].cpu_index = Past(p) - Past(q)
    BY <1>5, <2>1
  <2> QED  BY <1>5, <2>2, <2>3
<1>7. CASE Ahead(q, p)
  <2>1. IoDone(p) = IoDone(q) + 1
    BY <1>4, <1>7 DEF TurnsInv, TakesTurns, InTurns
  <2>2. Past(q) >= Past(p)
    BY <1>2, <1>4, <1>7
  <2>3. pd[p].cpu_index - pd[q].cpu_index = 1 + (Past(p) - Past(q))
    BY <1>5, <2>1
  <2> QED  BY <1>5, <2>2, <2>3
<1> QED  BY <1>3, <1>4, <1>6, <1>7
=============================================================================
