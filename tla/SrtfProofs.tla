----------------------------- MODULE SrtfProofs -----------------------------
(***************************************************************************)
(* What the threads keep up between them under srtf, through every swap,   *)
(* for every number of processes and every burst file.                     *)
(***************************************************************************)
EXTENDS SrtfSched, SimulatorProofs

SrtfLabels == {"run", "compare", "preempt", "requeue", "redispatch"}

(* What every step has to keep.                                            *)
Kept == SimTypeOK(SrtfLabels) /\ SimInv /\ Counted

SrtfInv == SrtfTypeOK /\ SimInv /\ Counted

(* The loop bound is a burst of the line.                                  *)
LEMMA BurstIsNat ==
    ASSUME Kept, sched_pc \in Serving,
           pd[running_pd].cpu_index < Len(process_d[running_pd].cpu_burst)
    PROVE  CpuBurst(running_pd) \in Nat
<1> DEFINE cpu == process_d[running_pd].cpu_burst
           k == pd[running_pd].cpu_index
<1>1. running_pd \in Pids /\ k \in Nat
  BY RunningFacts DEF Kept, process_t
<1>2. cpu \in Seq(Nat) /\ Len(cpu) \in Nat
  BY <1>1, LineFacts DEF Kept
<1>3. k + 1 \in 1 .. Len(cpu)
  BY <1>1, <1>2
<1>4. cpu[k + 1] \in Nat
  BY <1>2, <1>3, ElementOfSeq
<1> QED  BY <1>4 DEF CpuBurst

LEMMA StartKeeps ==
    ASSUME Kept, SrtfStart
    PROVE  Kept' /\ proc_time' \in Nat
<1>1. /\ sched_pc = "cpu" /\ sched_pc' = "run" /\ ~ should_terminate(running_pd)
      /\ start_time' = global_counter /\ proc_time' = CpuBurst(running_pd)
      /\ UNCHANGED <<pd, queues, wait_count, global_counter, TERMINATED_PROCESS, running_pd,
                     end_time, task_log>>
      /\ CpuUnchanged
  BY DEF SrtfStart, SchedStep
<1>2. /\ running_pd \in Pids /\ pd \in [Pids -> process_t]
      /\ pd[running_pd] \in process_t /\ pd[running_pd].status \in {"NEW", "READY"}
  BY <1>1, RunningFacts DEF Kept, Serving
<1>3. pd[running_pd].cpu_index < Len(process_d[running_pd].cpu_burst)
  BY <1>1, BurstIndices DEF Kept, BurstIndexInBounds
<1>4. pd' = [pd EXCEPT ![running_pd] = pd[running_pd]]
  BY <1>1, <1>2
<1>5. SimTypeOK(SrtfLabels)' /\ SimInv' /\ Retired' = Retired
  BY <1>1, <1>2, <1>3, <1>4, ServeInv DEF Kept, Serving, SrtfLabels, SimTypeOK
<1>6. Counted'
  BY <1>1, <1>5, NothingRetires DEF Kept, CpuUnchanged
<1>7. proc_time' \in Nat
  BY <1>1, <1>3, BurstIsNat DEF Serving
<1> QED  BY <1>5, <1>6, <1>7 DEF Kept

LEMMA TickKeeps ==
    ASSUME Kept, SrtfTick
    PROVE  Kept'
<1> DEFINE p == running_pd
           served == [pd[p] EXCEPT !.cpu_time = @ + 1, !.process_time = @ + 1,
                                   !.remaining_time = @ - 1]
<1>1. /\ sched_pc = "run" /\ sched_pc' = "compare"
      /\ global_counter' = global_counter + 1
      /\ UNCHANGED <<queues, wait_count, TERMINATED_PROCESS, running_pd, log>> /\ CpuUnchanged
  BY DEF SrtfTick, SchedStep, SpendTick
<1>2. pd' = [pd EXCEPT ![p] = served]
  BY DEF SrtfTick, SpendTick, Spent
<1>3. /\ p \in Pids /\ pd[p] \in process_t /\ pd[p].status \in {"NEW", "READY"}
      /\ pd[p].cpu_index < Len(process_d[p].cpu_burst)
  BY <1>1, RunningFacts DEF Kept, Serving
<1>4. /\ served \in process_t /\ served.status = pd[p].status
      /\ served.cpu_index = pd[p].cpu_index /\ served.io_index = pd[p].io_index
  <2>1. pd[p].cpu_time + 1 \in Nat /\ pd[p].process_time + 1 \in Nat
        /\ pd[p].remaining_time - 1 \in Int
    BY <1>3 DEF process_t
  <2> QED  BY <1>3, <2>1 DEF process_t
<1> HIDE DEF served
<1>5. global_counter' \in Nat /\ UNCHANGED <<start_time, end_time, task_log>>
  BY <1>1 DEF Kept, SimTypeOK, log
<1>6. SimTypeOK(SrtfLabels)' /\ SimInv' /\ Retired' = Retired
  BY <1>1, <1>2, <1>3, <1>4, <1>5, ServeInv DEF Kept, Serving, SrtfLabels, SimTypeOK
<1>7. Counted'
  BY <1>1, <1>6, NothingRetires DEF Kept, CpuUnchanged
<1> QED  BY <1>6, <1>7 DEF Kept

LEMMA CompareKeeps ==
    ASSUME Kept, SrtfCompare
    PROVE  Kept'
<1>1. /\ sched_pc = "compare" /\ sched_pc' \in {"preempt", "run"}
      /\ UNCHANGED <<pd, queues, wait_count, global_counter, TERMINATED_PROCESS, running_pd, log>>
      /\ CpuUnchanged
  BY DEF SrtfCompare, SchedStep
<1>2. /\ running_pd \in Pids /\ pd \in [Pids -> process_t]
      /\ pd[running_pd] \in process_t /\ pd[running_pd].status \in {"NEW", "READY"}
      /\ pd[running_pd].cpu_index < Len(process_d[running_pd].cpu_burst)
  BY <1>1, RunningFacts DEF Kept, Serving
<1>3. pd' = [pd EXCEPT ![running_pd] = pd[running_pd]]
  BY <1>1, <1>2
<1>4. /\ global_counter' \in Nat /\ start_time' \in Nat /\ end_time' \in Nat
      /\ task_log' \in Seq(LogLine)
  BY <1>1 DEF Kept, SimTypeOK, log
<1>5. sched_pc' \in SrtfLabels /\ sched_pc' \in Serving \ {"cpu"} /\ sched_pc \in Serving
  BY <1>1 DEF Serving, SrtfLabels
<1>6. SimTypeOK(SrtfLabels)' /\ SimInv' /\ Retired' = Retired
  BY <1>1, <1>2, <1>3, <1>4, <1>5, ServeInv DEF Kept
<1>7. Counted'
  BY <1>1, <1>6, NothingRetires DEF Kept, CpuUnchanged
<1> QED  BY <1>6, <1>7 DEF Kept

LEMMA PreemptKeeps ==
    ASSUME Kept, SrtfPreempt
    PROVE  Kept'
<1> DEFINE p == running_pd
           paused == [pd[p] EXCEPT !.priority = pd[p].remaining_time, !.status = "READY"]
<1>1. /\ sched_pc = "preempt" /\ sched_pc' = "requeue" /\ end_time' = global_counter
      /\ task_log' = Append(task_log, LogLineOf(p, end_time'))
      /\ UNCHANGED <<queues, wait_count, global_counter, TERMINATED_PROCESS, running_pd,
                     start_time>>
      /\ CpuUnchanged
  BY DEF SrtfPreempt, SchedStep
<1>2. pd' = [pd EXCEPT ![p] = paused]
  BY DEF SrtfPreempt
<1>3. /\ p \in Pids /\ pd[p] \in process_t /\ pd[p].status \in {"NEW", "READY"}
      /\ pd[p].cpu_index < Len(process_d[p].cpu_burst)
  BY <1>1, RunningFacts DEF Kept, Serving
<1>4. /\ paused \in process_t /\ paused.status = "READY"
      /\ paused.cpu_index = pd[p].cpu_index /\ paused.io_index = pd[p].io_index
  BY <1>3 DEF process_t
<1> HIDE DEF paused
<1>5. task_log' \in Seq(LogLine)
  <2>1. LogLineOf(p, end_time') \in LogLine
    BY <1>1, <1>3 DEF Kept, SimTypeOK, LogLineOf, LogLine, process_t
  <2> QED  BY <1>1, <2>1 DEF Kept, SimTypeOK
<1>6. SimTypeOK(SrtfLabels)' /\ SimInv' /\ Retired' = Retired
  BY <1>1, <1>2, <1>3, <1>4, <1>5, ServeInv DEF Kept, Serving, SrtfLabels, SimTypeOK
<1>7. Counted'
  BY <1>1, <1>6, NothingRetires DEF Kept, CpuUnchanged
<1> QED  BY <1>6, <1>7 DEF Kept

(* The first half of the swap: the process goes back to the ready queue,   *)
(* and the CPU is nobody's until the second half.                          *)
LEMMA RequeueKeeps ==
    ASSUME Kept, SrtfRequeue
    PROVE  Kept'
<1>1. /\ sched_pc = "requeue" /\ sched_pc' = "redispatch"
      /\ readyQueue' = AddTo(readyQueue, running_pd, pd[running_pd].priority)
      /\ UNCHANGED <<pd, waitQueue, wait_count, global_counter, TERMINATED_PROCESS,
                     running_pd, log>>
      /\ CpuUnchanged
  BY DEF SrtfRequeue, SchedStep
<1>2. /\ running_pd \in Pids /\ pd[running_pd] \in process_t
      /\ pd[running_pd].status \in {"NEW", "READY"}
  BY <1>1, RunningFacts DEF Kept, Serving
<1>3. OnCpu = {running_pd} /\ OnCpu' = {} /\ OnIo' = OnIo /\ Retired' = Retired
  <2>1. OnCpu = {running_pd}
    BY <1>1, ServingHoldsCpu DEF Serving
  <2>2. OnCpu' = {}
    BY <1>1 DEF OnCpu
  <2> QED  BY <1>1, <2>1, <2>2 DEF OnIo, Retired, CpuUnchanged
<1>4. /\ readyQueue' \in Seq(Node) /\ Len(readyQueue') = Len(readyQueue) + 1
      /\ Carried(readyQueue') = Carried(readyQueue) \cup {running_pd}
      /\ NoDuplicates(readyQueue')
  <2>1. readyQueue \in Seq(Node) /\ pd[running_pd].priority \in Int
    BY <1>2 DEF Kept, SimTypeOK, process_t
  <2>2. NoDuplicates(readyQueue) /\ running_pd \notin Carried(readyQueue)
    BY <1>3 DEF Kept, SimInv, OneOwner, Apart
  <2> QED  BY <1>1, <1>2, <2>1, <2>2, AddToFacts
<1>5. SimTypeOK(SrtfLabels)'
  BY <1>1, <1>4 DEF Kept, SimTypeOK, CpuUnchanged, log, SrtfLabels
<1>6. SemaphoresCountQueues'
  <2>1. Len(readyQueue) = ready_count + Flag(wake_pc = "post")
    BY <1>1 DEF Kept, SimInv, SemaphoresCountQueues, SimTypeOK, Flag
  <2>2. Len(readyQueue') = ready_count' + 1 + Flag(wake_pc' = "post")
    BY <1>1, <1>4, <2>1 DEF Kept, SimTypeOK, Flag, CpuUnchanged
  <2> QED  BY <1>1, <2>2 DEF Kept, SimInv, SemaphoresCountQueues, CpuUnchanged, Flag
<1>7. OneOwner'
  BY <1>1, <1>3, <1>4 DEF Kept, SimInv, OneOwner, Apart, CpuUnchanged
<1>8. StatusByPlace'
  BY <1>1, <1>2, <1>4 DEF Kept, SimInv, StatusByPlace, CpuUnchanged
<1>9. BurstsInStep' /\ ThreadsStarted'
  BY <1>1 DEF Kept, SimInv, BurstsInStep, ThreadsStarted, CpuUnchanged
<1>10. Counted'
  BY <1>1, <1>3, NothingRetires DEF Kept, CpuUnchanged
<1> QED  BY <1>5, <1>6, <1>7, <1>8, <1>9, <1>10 DEF Kept, SimInv

(* The second half: whatever the wake-up thread did in between, there is a *)
(* node to take, and its process gets the CPU.                             *)
LEMMA RedispatchKeeps ==
    ASSUME Kept, SrtfRedispatch
    PROVE  Kept'
<1> DEFINE r == dequeue(readyQueue)
           p == dequeued(readyQueue)
<1>1. readyQueue \in Seq(Node) /\ Len(readyQueue) \in Nat /\ Len(readyQueue) # 0
  BY LenProperties
     DEF Kept, SimTypeOK, SimInv, SemaphoresCountQueues, SrtfRedispatch, SchedStep, Flag
<1>2. /\ r \in Seq(Node) /\ p \in Pids /\ Len(r) = Len(readyQueue) - 1
      /\ Carried(readyQueue) = Carried(r) \cup {p}
      /\ NoDuplicates(r) /\ p \notin Carried(r)
  BY <1>1, RemoveFacts DEF Kept, SimInv, OneOwner
<1>3. /\ sched_pc = "redispatch" /\ sched_pc' = "cpu" /\ readyQueue' = r /\ running_pd' = p
      /\ UNCHANGED <<pd, waitQueue, wait_count, global_counter, TERMINATED_PROCESS, log>>
      /\ CpuUnchanged
  BY DEF SrtfRedispatch, SchedStep
<1> HIDE DEF r, p
<1>4. SimTypeOK(SrtfLabels)'
  BY <1>2, <1>3 DEF Kept, SimTypeOK, CpuUnchanged, log, DispatchLabels
<1>5. SemaphoresCountQueues'
  BY <1>1, <1>2, <1>3
     DEF Kept, SimInv, SemaphoresCountQueues, CpuUnchanged, SimTypeOK, Flag
<1>6. OnCpu = {} /\ OnCpu' = {p} /\ OnIo' = OnIo /\ Retired' = Retired
  <2>1. OnCpu = {}
    BY <1>3 DEF OnCpu
  <2>2. OnCpu' = {p}
    BY <1>3, ServingHoldsCpuNext DEF Serving
  <2> QED  BY <1>3, <2>1, <2>2 DEF OnIo, Retired, CpuUnchanged
<1>7. OneOwner'
  BY <1>2, <1>3, <1>6 DEF Kept, SimInv, OneOwner, Apart, CpuUnchanged
<1>8. StatusByPlace'
  BY <1>2, <1>3 DEF Kept, SimInv, StatusByPlace, CpuUnchanged
<1>9. BurstsInStep' /\ ThreadsStarted'
  BY <1>3 DEF Kept, SimInv, BurstsInStep, ThreadsStarted, CpuUnchanged
<1>10. Counted'
  BY <1>3, <1>6, NothingRetires DEF Kept, CpuUnchanged
<1> QED  BY <1>4, <1>5, <1>7, <1>8, <1>9, <1>10 DEF Kept, SimInv

LEMMA EndKeeps ==
    ASSUME Kept, SrtfEnd
    PROVE  Kept'
<1> DEFINE p == running_pd
           slept == [pd[p] EXCEPT !.cpu_index = @ + 1, !.status = "SLEEP",
                                  !.remaining_time = NextRemaining(p),
                                  !.priority = IF pd[p].cpu_index + 1
                                                    < Len(process_d[p].cpu_burst)
                                               THEN NextRemaining(p) ELSE @]
<1>1. /\ sched_pc = "run" /\ sched_pc' = "enqueue" /\ end_time' = global_counter
      /\ UNCHANGED <<queues, wait_count, global_counter, TERMINATED_PROCESS, running_pd,
                     start_time, task_log>>
      /\ CpuUnchanged
  BY DEF SrtfEnd, SchedStep
<1>2. pd' = [pd EXCEPT ![p] = slept]
  BY DEF SrtfEnd
<1>3. p \in Pids /\ pd[p] \in process_t /\ NextRemaining(p) \in Int
  BY <1>1, RunningFacts, NextRemainingIsInt DEF Kept, Serving
<1>4. /\ slept \in process_t /\ slept.status = "SLEEP"
      /\ slept.cpu_index = pd[p].cpu_index + 1 /\ slept.io_index = pd[p].io_index
  <2>1. pd[p].cpu_index + 1 \in Nat
    BY <1>3 DEF process_t
  <2> QED  BY <1>3, <2>1 DEF process_t
<1> HIDE DEF slept
<1>5. SimTypeOK(SrtfLabels)' /\ SimInv' /\ Retired' = Retired
  BY <1>1, <1>2, <1>4, BurstOverInv DEF Kept, Serving
<1>6. Counted'
  BY <1>1, <1>5, NothingRetires DEF Kept, CpuUnchanged
<1> QED  BY <1>5, <1>6 DEF Kept

(* A caller's line, while the process may be anywhere.                     *)
LEMMA LogKeeps ==
    ASSUME Kept, SrtfLog
    PROVE  Kept'
<1>1. /\ sched_pc = "log" /\ sched_pc' \in {"check", "log"}
      /\ task_log' = Append(task_log, LogLineOf(running_pd, end_time))
      /\ UNCHANGED <<pd, queues, wait_count, global_counter, TERMINATED_PROCESS, running_pd,
                     start_time, end_time>>
      /\ CpuUnchanged
  BY DEF SrtfLog, SchedStep
<1>2. SimTypeOK(SrtfLabels)'
  <2>1. running_pd \in Pids
    BY <1>1 DEF Kept, SimInv, ThreadsStarted
  <2>2. LogLineOf(running_pd, end_time) \in LogLine
    BY <2>1 DEF Kept, SimTypeOK, LogLineOf, LogLine, process_t
  <2>3. task_log' \in Seq(LogLine)
    BY <1>1, <2>2 DEF Kept, SimTypeOK
  <2>4. sched_pc' \in DispatchLabels
    BY <1>1 DEF DispatchLabels
  <2> QED  BY <1>1, <2>3, <2>4 DEF Kept, SimTypeOK, CpuUnchanged, queues
<1>3. SemaphoresCountQueues'
  BY <1>1 DEF Kept, SimInv, SemaphoresCountQueues, CpuUnchanged, queues, Flag
<1>4. OnCpu = {} /\ OnCpu' = {} /\ OnIo' = OnIo /\ Retired' = Retired
  BY <1>1 DEF OnCpu, OnIo, Retired, CpuUnchanged
<1>5. OneOwner'
  BY <1>1, <1>4, PlacesUnchanged DEF Kept, SimInv, CpuUnchanged, queues
<1>6. StatusByPlace' /\ BurstsInStep' /\ ThreadsStarted'
  BY <1>1 DEF Kept, SimInv, StatusByPlace, BurstsInStep, ThreadsStarted, CpuUnchanged, queues
<1>7. Counted'
  BY <1>1, <1>4, NothingRetires DEF Kept, CpuUnchanged
<1> QED  BY <1>2, <1>3, <1>5, <1>6, <1>7 DEF Kept, SimInv

(* The steps of the other threads, and those shared with every policy.     *)
LEMMA SharedKeeps ==
    ASSUME Kept,
           \/ main \/ add_arrival \/ dispatch \/ wakeUp \/ UNCHANGED vars
           \/ CpuFinished \/ CpuRetire \/ CpuEnqueue \/ CpuPost
    PROVE  Kept'
<1>1. SimTypeOK(SrtfLabels) /\ SimInv /\ Counted
  BY DEF Kept
<1>2. SimTypeOK(SrtfLabels)' /\ SimInv'
  BY <1>1, MainInv, ArrivalInv, DispatchInv, WakeUpInv, StutterInv, CpuFinishedInv,
     CpuRetireInv, CpuEnqueueInv, CpuPostInv
<1>3. Counted'
  <2>1. CASE main \/ add_arrival \/ dispatch \/ wakeUp
    BY <1>1, <2>1, MainCounted, ArrivalCounted, DispatchCounted, WakeUpCounted
  <2>2. CASE CpuFinished
    BY <1>1, <2>2, CpuFinishedCounted
  <2>3. CASE CpuRetire
    BY <1>1, <2>3, CpuRetireCounted
  <2>4. CASE CpuEnqueue \/ CpuPost
    BY <1>1, <2>4, CpuPassesCounted
  <2>5. CASE UNCHANGED vars
    <3>1. UNCHANGED <<TERMINATED_PROCESS, sched_pc, wake_pc>> /\ Retired' = Retired
      BY <2>5 DEF vars, tables, Retired
    <3> QED  BY <1>1, <3>1, NothingRetires
  <2> QED  BY <2>1, <2>2, <2>3, <2>4, <2>5
<1> QED  BY <1>2, <1>3 DEF Kept

LEMMA SrtfNextInv ==
    ASSUME SrtfInv, [SrtfNext]_srtfVars
    PROVE  SrtfInv'
<1>1. Kept /\ time \in Nat /\ proc_time \in Nat /\ callers \in Nat
  BY DEF SrtfInv, SrtfTypeOK, Kept, SrtfLabels
<1>2. CASE SrtfStart
  BY <1>1, <1>2, StartKeeps DEF SrtfStart, SrtfInv, SrtfTypeOK, Kept, SrtfLabels
<1>3. CASE SrtfTick
  BY <1>1, <1>3, TickKeeps DEF SrtfTick, SrtfInv, SrtfTypeOK, Kept, SrtfLabels
<1>4. CASE SrtfCompare \/ SrtfPreempt \/ SrtfRequeue \/ SrtfEnd
  <2>1. UNCHANGED activation
    BY <1>4 DEF SrtfCompare, SrtfPreempt, SrtfRequeue, SrtfEnd
  <2>2. Kept'
    BY <1>1, <1>4, CompareKeeps, PreemptKeeps, RequeueKeeps, EndKeeps
  <2> QED  BY <1>1, <2>1, <2>2 DEF activation, SrtfInv, SrtfTypeOK, Kept, SrtfLabels
<1>5. CASE SrtfRedispatch
  <2>1. Kept' /\ UNCHANGED <<time, proc_time>> /\ callers' = callers + 1
    BY <1>1, <1>5, RedispatchKeeps DEF SrtfRedispatch
  <2> QED  BY <1>1, <2>1 DEF SrtfInv, SrtfTypeOK, Kept, SrtfLabels
<1>6. CASE SrtfLog
  <2>1. Kept' /\ UNCHANGED <<time, proc_time>>
    BY <1>1, <1>6, LogKeeps DEF SrtfLog
  <2>2. callers' \in Nat
    BY <1>1, <1>6 DEF SrtfLog
  <2> QED  BY <1>1, <2>1, <2>2 DEF SrtfInv, SrtfTypeOK, Kept, SrtfLabels
<1>7. CASE SrtfRetire
  <2>1. Kept' /\ UNCHANGED <<time, proc_time>> /\ callers' = 0
    BY <1>1, <1>7, SharedKeeps DEF SrtfRetire
  <2> QED  BY <1>1, <2>1 DEF SrtfInv, SrtfTypeOK, Kept, SrtfLabels
<1>8. CASE /\ \/ main \/ add_arrival \/ dispatch \/ wakeUp \/ UNCHANGED vars
              \/ CpuFinished \/ CpuEnqueue \/ CpuPost
           /\ UNCHANGED activation
  <2>1. Kept'
    BY <1>1, <1>8, SharedKeeps
  <2> QED  BY <1>1, <1>8, <2>1 DEF activation, SrtfInv, SrtfTypeOK, Kept, SrtfLabels
<1> QED
  BY <1>2, <1>3, <1>4, <1>5, <1>6, <1>7, <1>8
  DEF SrtfNext, main_srtf, add_arrival_process_srtf, schedular_srtf, process_cpu_srtf,
      wakeUp_srtf, Activation, srtfVars
-----------------------------------------------------------------------------
(* The inductive invariant holds in every reachable state of srtf.         *)
THEOREM SrtfInvariance == SrtfSpec => []SrtfInv
<1>1. SrtfInit => SrtfInv
  <2> SUFFICES ASSUME SrtfInit PROVE SrtfInv
    OBVIOUS
  <2>1. SimTypeOK(SrtfLabels) /\ SimInv
    BY InitInv DEF SrtfInit
  <2>2. Counted
    BY InitCounted DEF SrtfInit
  <2> QED  BY <2>1, <2>2 DEF SrtfInit, SrtfInv, SrtfTypeOK, SrtfLabels
<1>2. SrtfInv /\ [SrtfNext]_srtfVars => SrtfInv'
  BY SrtfNextInv
<1> QED  BY <1>1, <1>2, PTL DEF SrtfSpec

(* Types, and with them: no call returns more often than it was made.      *)
THEOREM SrtfTypeCorrect == SrtfSpec => []SrtfTypeOK
<1>1. SrtfInv => SrtfTypeOK
  BY DEF SrtfInv
<1> QED  BY <1>1, SrtfInvariance, PTL

(* Under srtf the threads keep semaphores, places, bounds, counter and     *)
(* exits in step through every swap, although it takes two critical        *)
(* sections and leaves the semaphore alone.                                *)
THEOREM SrtfThreadsCorrect == SrtfSpec => []ThreadsInv
<1>1. SrtfInv => ThreadsInv
  <2> SUFFICES ASSUME SrtfInv PROVE ThreadsInv
    OBVIOUS
  <2>1. SimTypeOK(SrtfLabels) /\ SimInv /\ Counted
    BY DEF SrtfInv, SrtfTypeOK, SrtfLabels
  <2>2. BurstIndexInBounds /\ ExitDrained
    BY <2>1, BurstIndices, CountedDrains
  <2> QED  BY <2>1, <2>2 DEF ThreadsInv, Counted
<1> QED  BY <1>1, SrtfInvariance, PTL
-----------------------------------------------------------------------------
(* A process changes its priority only while it is on the CPU, so the      *)
(* ready queue stays sorted by what its processes carry.                   *)
LEMMA SrtfFiles ==
    ASSUME Kept, Filed, [SrtfNext]_srtfVars
    PROVE  Filed'
<1>1. SimTypeOK(SrtfLabels) /\ SimInv /\ Policy \in {"sjf", "srtf"}
  BY SrtfAssumption DEF Kept
<1>2. CASE main \/ UNCHANGED vars
  BY <1>1, <1>2, MainFiles
<1>3. CASE add_arrival \/ dispatch \/ wakeUp
  BY <1>1, <1>3, ArrivalFiles, DispatchFiles, WakeUpFiles
<1>4. CASE CpuFinished \/ SrtfRetire \/ CpuEnqueue \/ CpuPost
  BY <1>1, <1>4, CpuPassesFiled DEF SrtfRetire
<1>5. CASE SrtfStart \/ SrtfCompare \/ SrtfLog
  <2>1. readyQueue' = readyQueue /\ pd' = pd
    BY <1>5 DEF SrtfStart, SrtfCompare, SrtfLog, queues
  <2> QED  BY <1>1, <2>1, FiledKept
<1>6. CASE SrtfTick \/ SrtfPreempt \/ SrtfEnd
  <2>1. sched_pc \in Serving
    BY <1>6 DEF SrtfTick, SrtfPreempt, SrtfEnd, SchedStep, Serving
  <2>2. readyQueue' = readyQueue
    BY <1>6 DEF SrtfTick, SrtfPreempt, SrtfEnd, queues
  <2>3. running_pd \notin Carried(readyQueue)
    BY <1>1, <2>1, ServingHoldsCpu DEF SimInv, OneOwner, Apart
  <2>4. \A q \in Pids : q # running_pd => pd'[q] = pd[q]
    <3>1. pd \in [Pids -> process_t]
      BY <1>1 DEF SimTypeOK
    <3>2. CASE SrtfTick
      BY <3>1, <3>2 DEF SrtfTick, SpendTick, Spent
    <3>3. CASE SrtfPreempt
      BY <3>1, <3>3 DEF SrtfPreempt
    <3>4. CASE SrtfEnd
      BY <3>1, <3>4 DEF SrtfEnd
    <3> QED  BY <1>6, <3>2, <3>3, <3>4
  <2>5. \A q \in Carried(readyQueue) : pd'[q].priority = pd[q].priority
    BY <1>1, <2>3, <2>4, ReadyArePids
  <2> QED  BY <1>1, <2>2, <2>5, FiledKept
<1>7. CASE SrtfRequeue
  <2>1. /\ sched_pc = "requeue" /\ pd' = pd
        /\ readyQueue' = AddTo(readyQueue, running_pd, pd[running_pd].priority)
    BY <1>7 DEF SrtfRequeue, SchedStep
  <2>2. running_pd \in Pids /\ pd[running_pd].priority \in Int
    BY <1>1, <2>1, RunningFacts DEF Serving, process_t
  <2> QED  BY <1>1, <2>1, <2>2, FiledAdded
<1>8. CASE SrtfRedispatch
  <2>1. readyQueue' = dequeue(readyQueue) /\ pd' = pd
    BY <1>8 DEF SrtfRedispatch
  <2> QED  BY <1>1, <2>1, FiledTaken
<1> QED
  BY <1>2, <1>3, <1>4, <1>5, <1>6, <1>7, <1>8
  DEF SrtfNext, main_srtf, add_arrival_process_srtf, schedular_srtf, process_cpu_srtf,
      wakeUp_srtf, Activation, srtfVars

LEMMA OnlyRedispatchSwaps ==
    ASSUME [SrtfNext]_srtfVars, Redispatched
    PROVE  SrtfRedispatch
<1>1. sched_pc = "redispatch" /\ sched_pc' = "cpu"
  BY DEF Redispatched
<1>2. ~ main
  BY <1>1 DEF main, CreateScheduler, CreateWakeup, JoinWakeup, JoinScheduler, write_result
<1>3. ~ add_arrival
  BY <1>1 DEF add_arrival, ArrivalAdmit, ArrivalTick
<1>4. ~ wakeUp
  BY <1>1 DEF wakeUp, WakeCheck, WakeTryWait, WakeRemove, IoFinished, IoRetire, IoBurstDone,
              IoEnqueue, IoPost, WakeUnchanged
<1>5. ~ dispatch
  BY <1>1 DEF dispatch, SchedCheck, SchedDoneCounter, SchedDoneReady, SchedDoneWait,
              SchedTryWait, SchedRemove, SchedStep
<1>6. ~ (CpuFinished \/ SrtfRetire \/ CpuEnqueue \/ CpuPost)
  BY <1>1 DEF CpuFinished, SrtfRetire, CpuRetire, CpuEnqueue, CpuPost, SchedStep
<1>7. ~ (SrtfStart \/ SrtfTick \/ SrtfCompare \/ SrtfEnd \/ SrtfPreempt \/ SrtfRequeue \/ SrtfLog)
  BY <1>1 DEF SrtfStart, SrtfTick, SrtfCompare, SrtfEnd, SrtfPreempt, SrtfRequeue, SrtfLog,
              SchedStep
<1>8. ~ UNCHANGED vars
  BY <1>1 DEF vars
<1> QED
  BY <1>2, <1>3, <1>4, <1>5, <1>6, <1>7, <1>8
  DEF SrtfNext, main_srtf, add_arrival_process_srtf, schedular_srtf, process_cpu_srtf,
      wakeUp_srtf, Activation, srtfVars

LEMMA SwapTakesFront ==
    ASSUME Kept, Filed, [SrtfNext]_srtfVars, Redispatched
    PROVE  \A q \in Carried(readyQueue) : pd[running_pd'].priority <= pd[q].priority
<1>1. SimTypeOK(SrtfLabels) /\ SimInv
  BY DEF Kept
<1>2. sched_pc = "redispatch" /\ running_pd' = dequeued(readyQueue)
  BY OnlyRedispatchSwaps DEF SrtfRedispatch, Redispatched
<1>3. ~ isEmpty(readyQueue)
  <2>1. Len(readyQueue) # 0
    BY <1>1, <1>2 DEF SimTypeOK, SimInv, SemaphoresCountQueues, Flag
  <2> QED  BY <2>1, EmptySeq DEF isEmpty
<1> QED  BY <1>1, <1>2, <1>3, FrontIsLeast

(* The two halves of a swap are two critical sections, and the wake-up     *)
(* thread may file or post between them: the process taken is still of the *)
(* least priority value.                                                   *)
THEOREM SrtfSwaps == SrtfSpec => SwapTakesLeast
<1>1. SrtfInv => Kept
  BY DEF SrtfInv, SrtfTypeOK, Kept, SrtfLabels
<1>2. SrtfInit => Filed
  BY InitFiled DEF SrtfInit
<1>3. SrtfInv /\ Filed /\ [SrtfNext]_srtfVars => Filed'
  BY <1>1, SrtfFiles
<1>4. SrtfSpec => []Filed
  BY <1>2, <1>3, SrtfInvariance, PTL DEF SrtfSpec
<1>5. SrtfInv /\ Filed /\ [SrtfNext]_srtfVars =>
        [Redispatched =>
           \A q \in Carried(readyQueue) : pd[running_pd'].priority <= pd[q].priority]_srtfVars
  BY <1>1, SwapTakesFront
<1> QED  BY <1>4, <1>5, SrtfInvariance, PTL DEF SrtfSpec, SwapTakesLeast
-----------------------------------------------------------------------------
(* The refinement of ProcessLifecycle: a swap is a Preempt, then a         *)
(* Dispatch.                                                               *)
LEMMA ServesLife ==
    ASSUME Kept, LifeInv, SrtfStart \/ SrtfTick \/ SrtfCompare \/ SrtfPreempt
    PROVE  LifeStep /\ LifeInv'
<1>1. SimTypeOK(SrtfLabels) /\ SimInv /\ pd \in [Pids -> process_t]
  BY DEF Kept, SimTypeOK
<1>2. /\ sched_pc \in Serving /\ sched_pc' \in Serving
      /\ UNCHANGED <<queues, running_pd>> /\ CpuUnchanged
  BY DEF SrtfStart, SrtfTick, SrtfCompare, SrtfPreempt, SchedStep, Serving
<1>3. /\ \A q \in Pids : /\ pd'[q].cpu_index = pd[q].cpu_index
                         /\ pd'[q].io_index = pd[q].io_index
      /\ Retired' = Retired
  <2>1. CASE SrtfStart \/ SrtfCompare
    <3>1. pd' = pd
      BY <2>1 DEF SrtfStart, SrtfCompare
    <3> QED  BY <3>1 DEF Retired
  <2>2. CASE SrtfTick
    <3>1. pd' = Spent(running_pd)
      BY <2>2 DEF SrtfTick, SpendTick
    <3>2. \A q \in Pids : /\ pd'[q].status = pd[q].status
                          /\ pd'[q].cpu_index = pd[q].cpu_index
                          /\ pd'[q].io_index = pd[q].io_index
      BY <1>1, <3>1 DEF Spent, process_t
    <3> QED  BY <3>2 DEF Retired
  <2>3. CASE SrtfPreempt
    <3>1. pd[running_pd].status # "TERMINATED"
      BY <1>1, <1>2, RunningFacts
    <3>2. \A q \in Pids : /\ pd'[q].status = "TERMINATED" <=> pd[q].status = "TERMINATED"
                          /\ pd'[q].cpu_index = pd[q].cpu_index
                          /\ pd'[q].io_index = pd[q].io_index
      BY <1>1, <2>3, <3>1 DEF SrtfPreempt, process_t
    <3> QED  BY <3>2 DEF Retired
  <2> QED  BY <2>1, <2>2, <2>3
<1> QED  BY <1>1, <1>2, <1>3, ServeLife

LEMMA EndLife ==
    ASSUME Kept, LifeInv, SrtfEnd
    PROVE  LifeStep /\ LifeInv'
<1> DEFINE p == running_pd
           slept == [pd[p] EXCEPT !.cpu_index = @ + 1, !.status = "SLEEP",
                                  !.remaining_time = NextRemaining(p),
                                  !.priority = IF pd[p].cpu_index + 1
                                                    < Len(process_d[p].cpu_burst)
                                               THEN NextRemaining(p) ELSE @]
<1>1. SimTypeOK(SrtfLabels) /\ SimInv
  BY DEF Kept
<1>2. /\ sched_pc = "run" /\ sched_pc' = "enqueue"
      /\ UNCHANGED <<queues, running_pd>> /\ CpuUnchanged
  BY DEF SrtfEnd, SchedStep
<1>3. pd' = [pd EXCEPT ![p] = slept]
  BY DEF SrtfEnd
<1>4. /\ pd \in [Pids -> process_t] /\ p \in Pids /\ pd[p] \in process_t
      /\ pd[p].status \in {"NEW", "READY"} /\ NextRemaining(p) \in Int
  BY <1>1, <1>2, RunningFacts, NextRemainingIsInt DEF Serving
<1>5. /\ slept \in process_t /\ slept.status = "SLEEP"
      /\ slept.cpu_index = pd[p].cpu_index + 1 /\ slept.io_index = pd[p].io_index
  <2>1. pd[p].cpu_index + 1 \in Nat
    BY <1>4 DEF process_t
  <2> QED  BY <1>4, <2>1 DEF process_t
<1> HIDE DEF slept
<1>6. Retired' = Retired
  BY <1>3, <1>4, <1>5 DEF Retired
<1> QED  BY <1>1, <1>2, <1>3, <1>5, <1>6, BurstOverLife DEF Serving

LEMMA RequeueLife ==
    ASSUME Kept, Kept', LifeInv, SrtfRequeue
    PROVE  LifeStep /\ LifeInv'
<1>1. /\ sched_pc = "requeue" /\ sched_pc' = "redispatch" /\ pd' = pd
      /\ readyQueue' = AddTo(readyQueue, running_pd, pd[running_pd].priority)
      /\ UNCHANGED <<process_d, T_PROCESS, waitQueue, running_pd, sleeping_pd, wake_pc>>
  BY DEF SrtfRequeue, SchedStep, CpuUnchanged
<1>2. SimTypeOK(SrtfLabels) /\ SimInv /\ OneOwner'
  BY DEF Kept, SimInv
<1>3. PICK p \in Pids : p = running_pd /\ pd[p].priority \in Int
  BY <1>1, <1>2, RunningFacts DEF Serving, process_t
<1>4. OnCpu = {p} /\ OnCpu' = {} /\ OnIo' = OnIo /\ Retired' = Retired
  <2>1. OnCpu = {p}
    BY <1>1, <1>3, ServingHoldsCpu DEF Serving
  <2>2. OnCpu' = {}
    BY <1>1 DEF OnCpu
  <2> QED  BY <1>1, <2>1, <2>2 DEF OnIo, Retired
<1>5. Carried(readyQueue') = Carried(readyQueue) \cup {p}
  <2>1. readyQueue' = AddTo(readyQueue, p, pd[p].priority) /\ readyQueue \in Seq(Node)
    BY <1>1, <1>2, <1>3 DEF SimTypeOK
  <2> QED  BY <1>3, <2>1, AddToFacts
<1>6. Moved(p, "cpu", "ready")
  <2>1. PhaseOf(p) = "cpu"
    BY <1>2, <1>4, PhaseFacts DEF SimInv
  <2>2. PhaseOf(p)' = "ready"
    BY <1>2, <1>5, PhaseFactsNext
  <2>3. \A q \in Pids \ {p} : Stays(q)
    BY <1>1, <1>4, <1>5 DEF Stays
  <2> QED  BY <2>1, <2>2, <2>3, StaysInPhase DEF Moved
<1>7. SameCounts
  BY <1>1 DEF SameCounts, CpuDone, IoDone, Flag
<1>8. LifeStep
  BY <1>1, <1>6, <1>7, SrtfAssumption, MapPlain
<1>9. LifeInv'
  BY <1>1, <1>2, RetireesAreProcesses, LifeKept
<1> QED  BY <1>8, <1>9

LEMMA RedispatchLife ==
    ASSUME Kept, Kept', LifeInv, SrtfRedispatch
    PROVE  LifeStep /\ LifeInv'
<1>1. SimTypeOK(SrtfLabels) /\ SimInv /\ OneOwner'
  BY DEF Kept, SimInv
<1>2. readyQueue \in Seq(Node) /\ Len(readyQueue) # 0
  BY <1>1, LenProperties
     DEF SimTypeOK, SimInv, SemaphoresCountQueues, SrtfRedispatch, SchedStep, Flag
<1>3. PICK p \in Pids :
        /\ p = dequeued(readyQueue)
        /\ Carried(readyQueue) = Carried(dequeue(readyQueue)) \cup {p}
        /\ p \notin Carried(dequeue(readyQueue))
  BY <1>1, <1>2, RemoveFacts DEF SimInv, OneOwner
<1>4. /\ sched_pc = "redispatch" /\ sched_pc' = "cpu" /\ readyQueue' = dequeue(readyQueue)
      /\ running_pd' = p /\ pd' = pd
      /\ UNCHANGED <<process_d, T_PROCESS, waitQueue, sleeping_pd, wake_pc>>
  BY <1>3 DEF SrtfRedispatch, SchedStep, CpuUnchanged
<1>5. OnCpu = {} /\ OnCpu' = {p} /\ OnIo' = OnIo /\ Retired' = Retired
  BY <1>4 DEF OnCpu, OnIo, Retired
<1>6. Moved(p, "ready", "cpu")
  <2>1. PhaseOf(p) = "ready"
    BY <1>1, <1>3, PhaseFacts DEF SimInv
  <2>2. PhaseOf(p)' = "cpu"
    BY <1>1, <1>5, PhaseFactsNext
  <2>3. \A q \in Pids \ {p} : Stays(q)
    BY <1>3, <1>4, <1>5 DEF Stays
  <2> QED  BY <2>1, <2>2, <2>3, StaysInPhase DEF Moved
<1>7. \A q \in Pids : PhaseOf(q) # "cpu"
  BY <1>1, <1>5, PhaseFacts DEF SimInv
<1>8. SameCounts
  BY <1>4 DEF SameCounts, CpuDone, IoDone, Flag
<1>9. LifeStep
  BY <1>4, <1>6, <1>7, <1>8, MapPlain
<1>10. LifeInv'
  BY <1>1, <1>4, RetireesAreProcesses, LifeKept
<1> QED  BY <1>9, <1>10

LEMMA LogLife ==
    ASSUME Kept, LifeInv, SrtfLog
    PROVE  LifeStep /\ LifeInv'
<1>1. SimTypeOK(SrtfLabels) /\ SimInv
  BY DEF Kept
<1>2. /\ sched_pc = "log" /\ sched_pc' \in {"check", "log"}
      /\ UNCHANGED <<process_d, T_PROCESS, pd, readyQueue, waitQueue, running_pd, sleeping_pd,
                     wake_pc>>
  BY DEF SrtfLog, SchedStep, CpuUnchanged, queues
<1>3. OnCpu' = OnCpu /\ OnIo' = OnIo
  BY <1>2 DEF OnCpu, OnIo
<1> QED  BY <1>1, <1>2, <1>3, RetireesAreProcesses, QuietLife

LEMMA SrtfNextLife ==
    ASSUME SrtfInv, SrtfInv', LifeInv, [SrtfNext]_srtfVars
    PROVE  LifeStep /\ LifeInv'
<1>1. Kept /\ Kept'
  BY DEF SrtfInv, SrtfTypeOK, Kept, SrtfLabels
<1>2. CASE SrtfStart \/ SrtfTick \/ SrtfCompare \/ SrtfPreempt \/ SrtfEnd
  BY <1>1, <1>2, ServesLife, EndLife
<1>3. CASE SrtfRequeue \/ SrtfRedispatch \/ SrtfLog
  BY <1>1, <1>3, RequeueLife, RedispatchLife, LogLife
<1>4. CASE \/ main \/ add_arrival \/ dispatch \/ wakeUp \/ UNCHANGED vars
           \/ CpuFinished \/ CpuRetire \/ CpuEnqueue \/ CpuPost
  BY <1>1, <1>4, SharedLife DEF Kept
<1> QED
  BY <1>2, <1>3, <1>4
  DEF SrtfNext, main_srtf, add_arrival_process_srtf, schedular_srtf, process_cpu_srtf,
      wakeUp_srtf, Activation, srtfVars, SrtfRetire

(* A process that is swapped out returns to the ready queue with its burst *)
(* still due: through any chain of swaps none is skipped, none counted     *)
(* twice, and nobody is terminated early.                                  *)
THEOREM SrtfImplements == SrtfSpec => Implements
<1>1. SrtfInit => Lifecycle!LifecycleInit /\ LifeInv
  BY InitLife DEF SrtfInit
<1>2. SrtfInv /\ SrtfInv' /\ LifeInv /\ [SrtfNext]_srtfVars => LifeInv'
  BY SrtfNextLife
<1>3. SrtfInv /\ SrtfInv' /\ LifeInv /\ [SrtfNext]_srtfVars =>
        [Lifecycle!LifecycleNext]_(Lifecycle!lifecycle)
  BY SrtfNextLife DEF LifeStep
<1> QED
  BY <1>1, <1>2, <1>3, SrtfInvariance, PTL DEF SrtfSpec, Implements, Lifecycle!LifecycleSpec
-----------------------------------------------------------------------------
(* The clock: a tick is the only step of srtf's own that charges a         *)
(* process, and it charges it one.                                         *)
LEMMA SrtfTickKeepsClock ==
    ASSUME Kept, Kept', ClockInv, SrtfTick
    PROVE  ClockInv'
<1>1. /\ sched_pc = "run" /\ SpendTick(running_pd, time)
      /\ process_d' = process_d /\ main_pc' = main_pc
  BY DEF SrtfTick, SchedStep, CpuUnchanged
<1>2. PICK p \in Pids : p = running_pd
  BY <1>1, RunningFacts DEF Kept, Serving
<1>3. Charges(p, 1, 0)
  BY <1>1, <1>2, TickCharges DEF Kept
<1>4. main_pc # "join_arrival"
  BY <1>1 DEF Kept, SimInv, ThreadsStarted
<1> QED  BY <1>1, <1>3, <1>4, ChargesKeepClock DEF Kept

LEMMA SrtfKeepsClock ==
    ASSUME SrtfInv, SrtfInv', ClockInv, [SrtfNext]_srtfVars
    PROVE  ClockInv'
<1>1. Kept /\ Kept'
  BY DEF SrtfInv, SrtfTypeOK, Kept, SrtfLabels
<1>2. CASE SrtfTick
  BY <1>1, <1>2, SrtfTickKeepsClock
<1>3. CASE \/ SrtfStart \/ SrtfCompare \/ SrtfPreempt \/ SrtfEnd
           \/ SrtfRequeue \/ SrtfRedispatch \/ SrtfLog
  <2>1. UNCHANGED <<process_d, T_PROCESS, global_counter, main_pc>>
    BY <1>3 DEF SrtfStart, SrtfCompare, SrtfPreempt, SrtfEnd, SrtfRequeue, SrtfRedispatch,
                SrtfLog, CpuUnchanged
  <2>2. \A q \in Pids : pd'[q].process_time = pd[q].process_time
    <3>1. CASE SrtfPreempt \/ SrtfEnd
      <4>1. PICK p \in Pids : p = running_pd
        BY <1>1, <3>1, RunningFacts DEF Kept, Serving, SrtfPreempt, SrtfEnd, SchedStep
      <4>2. pd \in [Pids -> process_t] /\ pd[p] \in process_t
        BY <1>1 DEF Kept, SimTypeOK
      <4>3. \E r : pd' = [pd EXCEPT ![p] = r] /\ r.process_time = pd[p].process_time
        <5>1. CASE SrtfPreempt
          <6> DEFINE r == [pd[p] EXCEPT !.priority = pd[p].remaining_time, !.status = "READY"]
          <6>1. pd' = [pd EXCEPT ![p] = r] /\ r.process_time = pd[p].process_time
            BY <4>1, <4>2, <5>1 DEF SrtfPreempt, process_t
          <6> HIDE DEF r
          <6> QED  BY <6>1
        <5>2. CASE SrtfEnd
          <6> DEFINE r == [pd[p] EXCEPT !.cpu_index = @ + 1, !.status = "SLEEP",
                             !.remaining_time = NextRemaining(p),
                             !.priority = IF pd[p].cpu_index + 1 < Len(process_d[p].cpu_burst)
                                          THEN NextRemaining(p) ELSE @]
          <6>1. pd' = [pd EXCEPT ![p] = r] /\ r.process_time = pd[p].process_time
            BY <4>1, <4>2, <5>2 DEF SrtfEnd, process_t
          <6> HIDE DEF r
          <6> QED  BY <6>1
        <5> QED  BY <3>1, <5>1, <5>2
      <4>4. PICK r : pd' = [pd EXCEPT ![p] = r] /\ r.process_time = pd[p].process_time
        BY <4>3
      <4> QED  BY <4>2, <4>4
    <3>2. CASE ~ (SrtfPreempt \/ SrtfEnd)
      BY <1>3, <3>2 DEF SrtfStart, SrtfCompare, SrtfRequeue, SrtfRedispatch, SrtfLog
    <3> QED  BY <3>1, <3>2
  <2> QED  BY <1>1, <2>1, <2>2, UnchargedKeepsClock DEF Kept
<1>4. CASE \/ main \/ add_arrival \/ dispatch \/ wakeUp \/ UNCHANGED vars
           \/ CpuFinished \/ CpuRetire \/ CpuEnqueue \/ CpuPost
  BY <1>1, <1>4, SharedKeepsClock DEF Kept
<1> QED
  BY <1>2, <1>3, <1>4
  DEF SrtfNext, main_srtf, add_arrival_process_srtf, schedular_srtf, process_cpu_srtf,
      wakeUp_srtf, Activation, srtfVars, SrtfRetire

(* Through every swap and restart, the clock is the last admission plus    *)
(* all the time served: the ticks of the scheduler and the bursts of the   *)
(* wake-up thread add up.                                                  *)
THEOREM SrtfClockCorrect == SrtfSpec => []ClockAccounting
<1>1. SrtfInit => ClockInv
  BY InitClock DEF SrtfInit
<1>2. SrtfInv /\ SrtfInv' /\ ClockInv /\ [SrtfNext]_srtfVars => ClockInv'
  BY SrtfKeepsClock
<1>3. ClockInv => ClockAccounting
  BY DEF ClockInv
<1> QED  BY <1>1, <1>2, <1>3, SrtfInvariance, PTL DEF SrtfSpec
=============================================================================
