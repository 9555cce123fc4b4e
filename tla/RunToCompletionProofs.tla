----------------------- MODULE RunToCompletionProofs -----------------------
(***************************************************************************)
(* What holds of fcfs and of sjf for every number of processes and every   *)
(* burst file: the inductive invariant of the threads, and what follows.   *)
(* Most is about Spec, whatever the Policy; the last part is about sjf.    *)
(***************************************************************************)
EXTENDS SjfSched, SimulatorProofs

(* SimInv says where the processes are, Counted ties the shared counter to *)
(* them; neither OneOwner nor ExitDrained is inductive without the other   *)
(* conjuncts.                                                              *)
IInv == TypeOK /\ SimInv /\ Counted

LEMMA CpuStartInv ==
    ASSUME TypeOK, SimInv, CpuStart
    PROVE  TypeOK' /\ SimInv'
<1>1. /\ sched_pc = "cpu" /\ ~ should_terminate(running_pd)
      /\ UNCHANGED <<pd, queues, wait_count, global_counter, TERMINATED_PROCESS, running_pd,
                     end_time, task_log>>
      /\ CpuUnchanged
  BY DEF CpuStart
<1>2. pd[running_pd].status \in {"NEW", "READY"}
  BY <1>1 DEF SimInv, StatusByPlace
<1>3. sched_pc' = "run" /\ start_time' = global_counter
  BY <1>2 DEF CpuStart
<1>4. TypeOK'
  BY <1>1, <1>3 DEF TypeOK, SimTypeOK, CpuUnchanged, queues
<1>5. SemaphoresCountQueues'
  BY <1>1, <1>3 DEF SimInv, SemaphoresCountQueues, CpuUnchanged, queues, Flag
<1>6. OneOwner'
  BY <1>1, <1>3, PlacesUnchanged DEF SimInv, CpuUnchanged, queues, OnCpu, OnIo
<1>7. StatusByPlace'
  BY <1>1, <1>3 DEF SimInv, StatusByPlace, CpuUnchanged, queues
<1>8. BurstsInStep'
  <2>1. pd[running_pd].cpu_index < Len(process_d[running_pd].cpu_burst)
    BY <1>1, BurstIndices DEF TypeOK, BurstIndexInBounds
  <2> QED  BY <1>1, <1>3, <2>1 DEF SimInv, BurstsInStep, CpuUnchanged
<1>9. ThreadsStarted'
  BY <1>1, <1>3 DEF SimInv, ThreadsStarted, CpuUnchanged
<1> QED  BY <1>4, <1>5, <1>6, <1>7, <1>8, <1>9 DEF SimInv

LEMMA CpuRunInv ==
    ASSUME TypeOK, SimInv, CpuRun
    PROVE  TypeOK' /\ SimInv'
<1> DEFINE p == running_pd
           burst == IF pd[p].status = "NEW" THEN process_d[p].cpu_burst[1] ELSE CpuBurst(p)
           total == IF pd[p].status = "NEW" THEN burst ELSE pd[p].cpu_time + burst
           served == [pd[p] EXCEPT !.cpu_time = total, !.process_time = @ + burst]
<1>1. /\ sched_pc = "run" /\ sched_pc' = "end"
      /\ UNCHANGED <<queues, wait_count, TERMINATED_PROCESS, running_pd, log>> /\ CpuUnchanged
  BY DEF CpuRun, SchedStep
<1>2. p \in Pids /\ OnCpu = {p} /\ OnCpu' = OnCpu /\ OnIo' = OnIo
  BY <1>1, OwnedIsProcess DEF TypeOK, OnCpu, OnIo, CpuUnchanged
<1>3. pd \in [Pids -> process_t] /\ pd[p] \in process_t /\ pd[p].status \in {"NEW", "READY"}
  BY <1>1, <1>2 DEF TypeOK, SimTypeOK, SimInv, StatusByPlace
<1>4. global_counter' = global_counter + burst /\ pd' = [pd EXCEPT ![p] = served]
  BY DEF CpuRun
<1>5. burst \in Nat
  <2>1. process_d[p].cpu_burst \in Seq(Nat) /\ Len(process_d[p].cpu_burst) \in Nat
    BY <1>2, LineFacts DEF TypeOK
  <2>2. pd[p].cpu_index < Len(process_d[p].cpu_burst) /\ pd[p].cpu_index \in Nat
    BY <1>1, <1>3 DEF SimInv, BurstsInStep, process_t
  <2>3. /\ pd[p].cpu_index + 1 \in 1 .. Len(process_d[p].cpu_burst)
        /\ 1 \in 1 .. Len(process_d[p].cpu_burst)
    BY <2>1, <2>2
  <2> QED  BY <2>1, <2>3, ElementOfSeq DEF CpuBurst
<1> HIDE DEF burst
<1>6. /\ served \in process_t /\ served.status = pd[p].status
      /\ served.cpu_index = pd[p].cpu_index /\ served.io_index = pd[p].io_index
  <2>1. pd[p] \in process_t
    BY <1>3
  <2>2. pd[p].cpu_time \in Nat /\ pd[p].process_time \in Nat
    BY <2>1 DEF process_t
  <2>3. total \in Nat /\ pd[p].process_time + burst \in Nat
    BY <1>5, <2>2
  <2> HIDE DEF total
  <2> QED  BY <2>1, <2>3 DEF process_t
<1> HIDE DEF served
<1>7. /\ pd' \in [Pids -> process_t]
      /\ \A q \in Pids : /\ pd'[q].status = pd[q].status
                         /\ pd'[q].cpu_index = pd[q].cpu_index
                         /\ pd'[q].io_index = pd[q].io_index
  BY <1>2, <1>3, <1>4, <1>6
<1> HIDE DEF p
<1>8. Retired' = Retired
  BY <1>7 DEF Retired
<1>9. TypeOK'
  <2>1. global_counter' \in Nat
    BY <1>4, <1>5 DEF TypeOK, SimTypeOK
  <2> QED  BY <1>1, <1>7, <2>1 DEF TypeOK, SimTypeOK, CpuUnchanged, queues, log
<1>10. SemaphoresCountQueues'
  BY <1>1 DEF SimInv, SemaphoresCountQueues, CpuUnchanged, queues, Flag
<1>11. OneOwner'
  BY <1>1, <1>2, <1>8 DEF SimInv, OneOwner, CpuUnchanged, queues
<1>12. StatusByPlace'
  <2>1. Carried(readyQueue) \cup Carried(waitQueue) \cup OnCpu \cup OnIo \subseteq Pids
    BY TotalAssumption DEF SimInv, OneOwner, TypeOK, SimTypeOK, Pids
  <2> QED  BY <1>1, <1>7, <2>1 DEF SimInv, StatusByPlace, OnCpu, OnIo, CpuUnchanged, queues
<1>13. BurstsInStep'
  BY <1>1, <1>2, <1>7 DEF SimInv, BurstsInStep, CpuUnchanged, p
<1>14. ThreadsStarted'
  BY <1>1 DEF SimInv, ThreadsStarted, CpuUnchanged
<1> QED  BY <1>9, <1>10, <1>11, <1>12, <1>13, <1>14 DEF SimInv

LEMMA CpuEndInv ==
    ASSUME TypeOK, SimInv, CpuEnd
    PROVE  TypeOK' /\ SimInv'
<1> DEFINE p == running_pd
           slept == [pd[p] EXCEPT !.cpu_index = @ + 1, !.status = "SLEEP"]
<1>1. /\ sched_pc = "end" /\ sched_pc' = "enqueue" /\ end_time' = global_counter
      /\ UNCHANGED <<queues, wait_count, global_counter, TERMINATED_PROCESS, running_pd,
                     start_time, task_log>>
      /\ CpuUnchanged
  BY DEF CpuEnd, SchedStep
<1>2. p \in Pids /\ OnCpu = {p} /\ OnCpu' = OnCpu /\ OnIo' = OnIo
  BY <1>1, OwnedIsProcess DEF TypeOK, OnCpu, OnIo, CpuUnchanged
<1>3. pd \in [Pids -> process_t] /\ pd[p] \in process_t /\ pd[p].cpu_index = pd[p].io_index
  BY <1>1, <1>2 DEF TypeOK, SimTypeOK, SimInv, StatusByPlace, BurstsInStep
<1>4. pd' = [pd EXCEPT ![p] = slept]
  BY DEF CpuEnd
<1>5. /\ slept \in process_t /\ slept.status = "SLEEP"
      /\ slept.cpu_index = slept.io_index + 1
  <2>1. pd[p] \in process_t /\ pd[p].cpu_index = pd[p].io_index
    BY <1>3
  <2>2. pd[p].cpu_index + 1 \in Nat
    BY <2>1 DEF process_t
  <2> QED  BY <2>1, <2>2 DEF process_t
<1> HIDE DEF slept
<1>6. /\ pd' \in [Pids -> process_t] /\ pd'[p] = slept
      /\ \A q \in Pids : q # p => pd'[q] = pd[q]
  BY <1>2, <1>3, <1>4, <1>5
<1> HIDE DEF p
<1>7. \A q \in Carried(readyQueue) \cup Carried(waitQueue) \cup OnIo :
        q \in Pids /\ pd'[q] = pd[q]
  <2>1. \A q \in Carried(readyQueue) \cup Carried(waitQueue) \cup OnIo : q \in Pids /\ q # p
    BY <1>2, TotalAssumption DEF SimInv, OneOwner, Apart, TypeOK, SimTypeOK, Pids
  <2> QED  BY <1>6, <2>1
<1>8. Retired' = Retired
  <2>1. pd[p].status # "TERMINATED"
    BY <1>1 DEF SimInv, StatusByPlace, p
  <2> QED  BY <1>5, <1>6, <2>1 DEF Retired
<1>9. TypeOK'
  BY <1>1, <1>6 DEF TypeOK, SimTypeOK, CpuUnchanged, queues, DispatchLabels
<1>10. SemaphoresCountQueues'
  BY <1>1 DEF SimInv, SemaphoresCountQueues, CpuUnchanged, queues, Flag
<1>11. OneOwner'
  BY <1>1, <1>2, <1>8 DEF SimInv, OneOwner, CpuUnchanged, queues
<1>12. StatusByPlace'
  BY <1>1, <1>5, <1>6, <1>7 DEF SimInv, StatusByPlace, OnIo, CpuUnchanged, queues, p
<1>13. BurstsInStep'
  <2>1. \A q \in Pids :
          /\ pd'[q].status \in {"NEW", "READY"} => pd'[q].cpu_index = pd'[q].io_index
          /\ pd'[q].status = "NEW" => pd'[q].cpu_index = 0
          /\ pd'[q].status = "SLEEP" => pd'[q].cpu_index = pd'[q].io_index + 1
    <3> SUFFICES ASSUME NEW q \in Pids
                 PROVE  /\ pd'[q].status \in {"NEW", "READY"} =>
                             pd'[q].cpu_index = pd'[q].io_index
                        /\ pd'[q].status = "NEW" => pd'[q].cpu_index = 0
                        /\ pd'[q].status = "SLEEP" => pd'[q].cpu_index = pd'[q].io_index + 1
      OBVIOUS
    <3>1. CASE q = p
      BY <1>5, <1>6, <3>1
    <3>2. CASE q # p
      BY <1>6, <3>2 DEF SimInv, BurstsInStep
    <3> QED  BY <3>1, <3>2
  <2> QED  BY <1>1, <2>1 DEF BurstsInStep
<1>14. ThreadsStarted'
  BY <1>1 DEF SimInv, ThreadsStarted, CpuUnchanged
<1> QED  BY <1>9, <1>10, <1>11, <1>12, <1>13, <1>14 DEF SimInv

(* The policy's own three steps neither count nor retire a process.        *)
LEMMA BurstCounted ==
    ASSUME TypeOK, SimInv, Counted, CpuStart \/ CpuRun \/ CpuEnd
    PROVE  Counted'
<1>1. /\ TERMINATED_PROCESS' = TERMINATED_PROCESS /\ wake_pc' = wake_pc
      /\ sched_pc \in {"cpu", "run", "end"} /\ sched_pc' \in {"run", "end", "enqueue", "check"}
  BY DEF CpuStart, CpuRun, CpuEnd, SchedStep, CpuUnchanged
<1>2. running_pd \in Pids /\ pd[running_pd] \in process_t
  BY <1>1, OwnedIsProcess DEF OnCpu, TypeOK, SimTypeOK
<1>3. pd[running_pd].status \in {"NEW", "READY"} /\ pd \in [Pids -> process_t]
  BY <1>1 DEF SimInv, StatusByPlace, TypeOK, SimTypeOK
<1>4. PICK p \in process_t : /\ p.status # "TERMINATED" \/ pd' = pd
                             /\ pd' = [pd EXCEPT ![running_pd] = p] \/ pd' = pd
  <2>1. CASE CpuStart
    BY <1>2, <2>1 DEF CpuStart
  <2>2. CASE CpuRun
    <3>1. pd'[running_pd].status = pd[running_pd].status /\ TypeOK'
      BY <1>2, <1>3, <2>2, CpuRunInv DEF CpuRun, process_t
    <3> QED  BY <1>2, <1>3, <2>2, <3>1 DEF CpuRun, TypeOK, SimTypeOK
  <2>3. CASE CpuEnd
    <3>1. pd'[running_pd].status = "SLEEP" /\ TypeOK'
      BY <1>2, <1>3, <2>3, CpuEndInv DEF CpuEnd, process_t
    <3> QED  BY <1>2, <1>3, <2>3, <3>1 DEF CpuEnd, TypeOK, SimTypeOK
  <2> QED  BY <2>1, <2>2, <2>3
<1>5. Retired' = Retired
  BY <1>2, <1>3, <1>4 DEF Retired
<1> QED  BY <1>1, <1>5, NothingRetires

LEMMA NextInv ==
    ASSUME TypeOK, SimInv, [Next]_vars
    PROVE  TypeOK' /\ SimInv'
<1> USE DEF TypeOK
<1>1. CASE main
  BY <1>1, MainInv
<1>2. CASE add_arrival
  BY <1>2, ArrivalInv
<1>3. CASE dispatch
  BY <1>3, DispatchInv
<1>4. CASE process_cpu
  <2>1. CASE CpuFinished \/ CpuRetire \/ CpuEnqueue \/ CpuPost \/ CpuLog
    BY <2>1, CpuFinishedInv, CpuRetireInv, CpuEnqueueInv, CpuPostInv, CpuLogInv
  <2>2. CASE CpuStart \/ CpuRun \/ CpuEnd
    BY <2>2, CpuStartInv, CpuRunInv, CpuEndInv
  <2> QED  BY <1>4, <2>1, <2>2 DEF process_cpu
<1>5. CASE wakeUp
  BY <1>5, WakeUpInv
<1>6. CASE UNCHANGED vars
  BY <1>6, StutterInv
<1> QED  BY <1>1, <1>2, <1>3, <1>4, <1>5, <1>6 DEF Next, schedular

LEMMA NextCounted ==
    ASSUME TypeOK, SimInv, Counted, [Next]_vars
    PROVE  Counted'
<1> USE DEF TypeOK
<1>1. CASE main
  BY <1>1, MainCounted
<1>2. CASE add_arrival
  BY <1>2, ArrivalCounted
<1>3. CASE dispatch
  BY <1>3, DispatchCounted
<1>4. CASE process_cpu
  <2>1. CASE CpuFinished \/ CpuRetire \/ CpuEnqueue \/ CpuPost \/ CpuLog
    BY <2>1, CpuFinishedCounted, CpuRetireCounted, CpuPassesCounted
  <2>2. CASE CpuStart \/ CpuRun \/ CpuEnd
    BY <2>2, BurstCounted
  <2> QED  BY <1>4, <2>1, <2>2 DEF process_cpu
<1>5. CASE wakeUp
  BY <1>5, WakeUpCounted
<1>6. CASE UNCHANGED vars
  <2>1. UNCHANGED <<TERMINATED_PROCESS, sched_pc, wake_pc>> /\ Retired' = Retired
    BY <1>6 DEF vars, tables, Retired
  <2> QED  BY <2>1, NothingRetires
<1> QED  BY <1>1, <1>2, <1>3, <1>4, <1>5, <1>6 DEF Next, schedular

(* The inductive invariant holds in every reachable state.                 *)
THEOREM Invariance == Spec => []IInv
<1>1. Init => IInv
  BY InitInv, InitCounted DEF IInv, TypeOK
<1>2. IInv /\ [Next]_vars => IInv'
  BY NextInv, NextCounted DEF IInv
<1> QED  BY <1>1, <1>2, PTL DEF Spec

(* Every variable keeps its type: in particular no burst is read past the  *)
(* end of its array, which would make a time anything.                     *)
THEOREM TypeCorrect == Spec => []TypeOK
<1>1. IInv => TypeOK
  BY DEF IInv
<1> QED  BY <1>1, Invariance, PTL

(* Between any two steps of the threads each semaphore counts its queue.   *)
THEOREM SemaphoreCorrect == Spec => []SemaphoresCountQueues
<1>1. IInv => SemaphoresCountQueues
  BY DEF IInv, SimInv
<1> QED  BY <1>1, Invariance, PTL

(* However the two threads interleave, a process is in exactly one place.  *)
THEOREM Ownership == Spec => []OneOwner
<1>1. IInv => OneOwner
  BY DEF IInv, SimInv
<1> QED  BY <1>1, Invariance, PTL

(* _should_terminate is enough to keep both threads inside the burst arrays. *)
THEOREM InBounds == Spec => []BurstIndexInBounds
<1>1. IInv => BurstIndexInBounds
  BY BurstIndices DEF IInv, TypeOK
<1> QED  BY <1>1, Invariance, PTL

(* The shared counter is exact up to the retirements under way.            *)
THEOREM CounterCorrect == Spec => []CounterMatchesRetired
<1>1. IInv => CounterMatchesRetired
  BY DEF IInv, Counted
<1> QED  BY <1>1, Invariance, PTL

(* No thread leaves its loop while a process still has work to do.         *)
THEOREM NoEarlyExit == Spec => []ExitDrained
<1>1. IInv => ExitDrained
  BY CountedDrains DEF IInv, TypeOK
<1> QED  BY <1>1, Invariance, PTL

(* All of it together: hand-overs, places, bounds, counter and exits.      *)
THEOREM ThreadsCorrect == Spec => []ThreadsInv
<1>1. IInv => ThreadsInv
  BY BurstIndices, CountedDrains DEF IInv, TypeOK, ThreadsInv, Counted
<1> QED  BY <1>1, Invariance, PTL
-----------------------------------------------------------------------------
(* The refinement of ProcessLifecycle.                                     *)
LEMMA CpuStartLife ==
    ASSUME TypeOK, SimInv, LifeInv, CpuStart
    PROVE  LifeStep /\ LifeInv'
<1>1. /\ sched_pc = "cpu" /\ pd' = pd
      /\ UNCHANGED <<queues, running_pd>> /\ CpuUnchanged
  BY DEF CpuStart
<1>2. pd[running_pd].status \in {"NEW", "READY"}
  BY <1>1 DEF SimInv, StatusByPlace
<1>3. sched_pc' = "run"
  BY <1>2 DEF CpuStart
<1>4. Retired' = Retired
  BY <1>1 DEF Retired
<1> QED  BY <1>1, <1>3, <1>4, ServeLife DEF TypeOK, Serving

LEMMA CpuRunLife ==
    ASSUME TypeOK, SimInv, LifeInv, CpuRun
    PROVE  LifeStep /\ LifeInv'
<1>1. sched_pc = "run" /\ sched_pc' = "end" /\ UNCHANGED <<queues, running_pd>> /\ CpuUnchanged
  BY DEF CpuRun, SchedStep
<1>2. pd \in [Pids -> process_t]
  BY DEF TypeOK, SimTypeOK
<1>3. \A q \in Pids : /\ pd'[q].status = pd[q].status
                      /\ pd'[q].cpu_index = pd[q].cpu_index
                      /\ pd'[q].io_index = pd[q].io_index
  BY <1>2 DEF CpuRun, process_t
<1>4. Retired' = Retired
  BY <1>3 DEF Retired
<1> QED  BY <1>1, <1>3, <1>4, ServeLife DEF TypeOK, Serving

LEMMA CpuEndLife ==
    ASSUME TypeOK, SimInv, LifeInv, CpuEnd
    PROVE  LifeStep /\ LifeInv'
<1> DEFINE p == running_pd
           slept == [pd[p] EXCEPT !.cpu_index = @ + 1, !.status = "SLEEP"]
<1>1. /\ sched_pc = "end" /\ sched_pc' = "enqueue"
      /\ UNCHANGED <<queues, running_pd>> /\ CpuUnchanged
  BY DEF CpuEnd, SchedStep
<1>2. pd \in [Pids -> process_t] /\ p \in Pids /\ pd[p].status \in {"NEW", "READY"}
  BY <1>1, RunningFacts DEF TypeOK, Serving
<1>3. pd' = [pd EXCEPT ![p] = slept]
  BY DEF CpuEnd
<1>4. /\ slept \in process_t /\ slept.status = "SLEEP"
      /\ slept.cpu_index = pd[p].cpu_index + 1 /\ slept.io_index = pd[p].io_index
  <2>1. pd[p] \in process_t /\ pd[p].cpu_index + 1 \in Nat
    BY <1>2 DEF process_t
  <2> QED  BY <2>1 DEF process_t
<1> HIDE DEF slept
<1>5. Retired' = Retired
  BY <1>2, <1>3, <1>4 DEF Retired
<1> QED  BY <1>1, <1>3, <1>4, <1>5, BurstOverLife DEF TypeOK, Serving

LEMMA NextLife ==
    ASSUME TypeOK, SimInv, SimInv', LifeInv, [Next]_vars
    PROVE  LifeStep /\ LifeInv'
<1>1. CASE CpuStart \/ CpuRun \/ CpuEnd
  BY <1>1, CpuStartLife, CpuRunLife, CpuEndLife
<1>2. CASE ~ (CpuStart \/ CpuRun \/ CpuEnd)
  BY <1>2, SharedLife DEF TypeOK, Next, schedular, process_cpu
<1> QED  BY <1>1, <1>2

(* However the threads interleave, every process goes through the places   *)
(* of its life cycle in order, has each burst of its line once, CPU and    *)
(* I/O in turn, and is terminated after the last, with one process at a    *)
(* time on the CPU and one on the I/O device.                              *)
THEOREM FcfsImplements == Spec => Implements
<1>1. Init => Lifecycle!LifecycleInit /\ LifeInv
  BY InitLife
<1>2. IInv /\ IInv' /\ LifeInv /\ [Next]_vars => LifeInv'
  BY NextLife DEF IInv
<1>3. IInv /\ IInv' /\ LifeInv /\ [Next]_vars =>
        [Lifecycle!LifecycleNext]_(Lifecycle!lifecycle)
  BY NextLife DEF IInv, LifeStep
<1> QED  BY <1>1, <1>2, <1>3, Invariance, PTL DEF Spec, Implements, Lifecycle!LifecycleSpec
-----------------------------------------------------------------------------
(* The account.  The CPU time of a process is the sum of the CPU bursts it *)
(* has had, the one that is charged but not yet counted included.          *)
Charged(p) == pd[p].cpu_index + Flag(sched_pc = "end" /\ p = running_pd)

CpuLedger ==
    \A p \in Pids : pd[p].cpu_time = SumTo(process_d[p].cpu_burst, Charged(p))

(* Balanced is inductive given IInv: the clock, the bursts, the report.    *)
Balanced == LifeInv /\ ClockInv /\ Ledger /\ CpuLedger /\ ReportInv

(* The burst that CpuRun serves, and whom it charges.                      *)
LEMMA CpuRunCharges ==
    ASSUME TypeOK, SimInv, CpuLedger, CpuRun
    PROVE  \E p \in Pids :
             /\ p = running_pd /\ p \notin Retired /\ CpuBurst(p) \in Nat
             /\ Charges(p, CpuBurst(p), 0)
             /\ pd[p].cpu_index + 1 \in 1 .. Len(process_d[p].cpu_burst)
             /\ pd'[p].cpu_index = pd[p].cpu_index /\ pd'[p].io_index = pd[p].io_index
             /\ pd'[p].status # "TERMINATED"
             /\ \A q \in Pids \ {p} : pd'[q] = pd[q]
<1>1. sched_pc = "run" /\ process_d' = process_d
  BY DEF CpuRun, SchedStep, CpuUnchanged
<1>2. PICK p \in Pids :
        /\ p = running_pd /\ pd[p] \in process_t /\ pd[p].status \in {"NEW", "READY"}
        /\ pd[p].cpu_index < Len(process_d[p].cpu_burst)
  BY <1>1, RunningFacts DEF TypeOK, Serving
<1>3. /\ process_d[p].cpu_burst \in Seq(Nat) /\ Len(process_d[p].cpu_burst) \in Nat
      /\ pd[p].cpu_index \in Nat
  BY <1>2, LineFacts DEF TypeOK, process_t
<1>4. pd[p].cpu_index + 1 \in 1 .. Len(process_d[p].cpu_burst)
  BY <1>2, <1>3
<1>5. CpuBurst(p) \in Nat
  BY <1>3, <1>4, ElementOfSeq DEF CpuBurst
<1>6. pd[p].status = "NEW" => pd[p].cpu_index = 0 /\ pd[p].cpu_time = 0
  <2> SUFFICES ASSUME pd[p].status = "NEW"
               PROVE  pd[p].cpu_index = 0 /\ pd[p].cpu_time = 0
    OBVIOUS
  <2>1. pd[p].cpu_index = 0
    BY DEF SimInv, BurstsInStep
  <2>2. Charged(p) = 0
    BY <1>1, <2>1 DEF Charged, Flag
  <2>3. pd[p].cpu_time = SumTo(process_d[p].cpu_burst, 0)
    BY <2>2 DEF CpuLedger
  <2>4. SumTo(process_d[p].cpu_burst, 0) = 0
    BY <1>3, PrefixSums
  <2> QED  BY <2>1, <2>3, <2>4
<1> DEFINE burst == CpuBurst(p)
           served == [pd[p] EXCEPT !.cpu_time = @ + burst, !.process_time = @ + burst]
<1>7. /\ global_counter' = global_counter + burst
      /\ pd' = [pd EXCEPT ![p] = served]
  <2>1. CASE pd[p].status = "NEW"
    <3>1. process_d[p].cpu_burst[1] = burst /\ burst = 0 + burst
      BY <1>5, <1>6, <2>1 DEF CpuBurst
    <3>2. /\ global_counter' = global_counter + process_d[p].cpu_burst[1]
          /\ pd' = [pd EXCEPT ![p].cpu_time = process_d[p].cpu_burst[1],
                              ![p].process_time = @ + process_d[p].cpu_burst[1]]
      BY <1>2, <2>1 DEF CpuRun
    <3> QED  BY <1>2, <1>6, <2>1, <3>1, <3>2
  <2>2. CASE pd[p].status # "NEW"
    BY <1>2, <2>2 DEF CpuRun
  <2> QED  BY <2>1, <2>2
<1>8. /\ served.cpu_time = pd[p].cpu_time + burst /\ served.io_time = pd[p].io_time
      /\ served.process_time = pd[p].process_time + burst
      /\ served.cpu_index = pd[p].cpu_index /\ served.io_index = pd[p].io_index
      /\ served.status = pd[p].status
  BY <1>2 DEF process_t
<1> HIDE DEF served
<1>9. pd'[p] = served /\ \A q \in Pids \ {p} : pd'[q] = pd[q]
  BY <1>7 DEF TypeOK, SimTypeOK
<1>10. Charges(p, burst, 0)
  <2>1. burst + 0 = burst /\ pd[p].io_time + 0 = pd[p].io_time
    BY <1>2, <1>5 DEF process_t
  <2> QED  BY <1>1, <1>7, <1>8, <1>9, <2>1 DEF Charges
<1>11. p \notin Retired
  BY <1>2 DEF Retired
<1> QED  BY <1>2, <1>4, <1>5, <1>8, <1>9, <1>10, <1>11

LEMMA CpuRunBalanced ==
    ASSUME TypeOK, SimInv, TypeOK', Balanced, CpuRun
    PROVE  ClockInv' /\ Ledger' /\ CpuLedger'
<1>1. /\ sched_pc = "run" /\ sched_pc' = "end" /\ running_pd' = running_pd
      /\ main_pc' = main_pc /\ process_d' = process_d
  BY DEF CpuRun, SchedStep, CpuUnchanged
<1>2. PICK p \in Pids :
        /\ p = running_pd /\ p \notin Retired /\ CpuBurst(p) \in Nat
        /\ Charges(p, CpuBurst(p), 0)
        /\ pd[p].cpu_index + 1 \in 1 .. Len(process_d[p].cpu_burst)
        /\ pd'[p].cpu_index = pd[p].cpu_index /\ pd'[p].io_index = pd[p].io_index
        /\ pd'[p].status # "TERMINATED"
        /\ \A q \in Pids \ {p} : pd'[q] = pd[q]
  BY CpuRunCharges DEF Balanced
<1>3. ClockInv'
  <2>1. main_pc # "join_arrival"
    BY <1>1 DEF SimInv, ThreadsStarted
  <2> QED  BY <1>1, <1>2, <2>1, ChargesKeepClock DEF Balanced, TypeOK
<1>4. Ledger'
  <2>1. SumTo(process_d[p].io_burst, pd[p].io_index) \in Int
    BY TimesAreNat DEF Balanced, Ledger, TypeOK
  <2>2. SumTo(process_d[p].io_burst, pd'[p].io_index) =
          SumTo(process_d[p].io_burst, pd[p].io_index) + 0
    BY <1>2, <2>1
  <2> QED  BY <1>2, <2>2, ChargesKeepLedger DEF Balanced, TypeOK
<1>5. CpuLedger'
  <2> SUFFICES ASSUME NEW q \in Pids
               PROVE  pd'[q].cpu_time = SumTo(process_d[q].cpu_burst, Charged(q)')
    BY <1>1 DEF CpuLedger
  <2>1. pd[q].cpu_time = SumTo(process_d[q].cpu_burst, Charged(q)) /\ pd[q].cpu_index \in Nat
    BY TimesAreNat DEF Balanced, CpuLedger, TypeOK
  <2>2. CASE q = p
    <3> DEFINE s == process_d[p].cpu_burst
               n == pd[p].cpu_index
    <3>1. s \in Seq(Nat) /\ Len(s) \in Nat /\ n \in Nat /\ n + 1 \in 1 .. Len(s)
      BY <1>2, <2>1, <2>2, LineFacts DEF TypeOK
    <3>2. SumTo(s, n + 1) = SumTo(s, n) + s[n + 1]
      <4> HIDE DEF s, n
      <4>1. n \in 0 .. Len(s) /\ n < Len(s)
        BY <3>1
      <4> QED  BY <3>1, <4>1, PrefixSums
    <3>3. Charged(p) = n /\ Charged(p)' = n + 1
      <4>1. Charged(p) = n + 0 /\ Charged(p)' = n + 1
        BY <1>1, <1>2 DEF Charged, Flag
      <4> QED  BY <3>1, <4>1
    <3>4. pd'[p].cpu_time = pd[p].cpu_time + s[n + 1]
      BY <1>2 DEF Charges, CpuBurst
    <3> QED  BY <2>1, <2>2, <3>2, <3>3, <3>4
  <2>3. CASE q # p
    <3>1. Charged(q)' = Charged(q)
      BY <1>1, <1>2, <2>3 DEF Charged, Flag
    <3> QED  BY <1>2, <2>1, <2>3, <3>1
  <2> QED  BY <2>2, <2>3
<1> QED  BY <1>3, <1>4, <1>5

(* CpuStart and CpuEnd charge nothing; CpuEnd counts what was charged.     *)
LEMMA CpuEdgesBalanced ==
    ASSUME TypeOK, SimInv, TypeOK', Balanced, CpuStart \/ CpuEnd
    PROVE  ClockInv' /\ Ledger' /\ CpuLedger'
<1>1. /\ sched_pc \in {"cpu", "end"} /\ sched_pc' \in {"run", "check", "enqueue"}
      /\ UNCHANGED <<process_d, T_PROCESS, global_counter, main_pc, running_pd>>
  BY DEF CpuStart, CpuEnd, SchedStep, CpuUnchanged
<1>2. PICK p \in Pids : p = running_pd /\ pd[p] \in process_t /\ pd[p].status # "TERMINATED"
  BY <1>1, RunningFacts DEF TypeOK, Serving
<1> DEFINE slept == [pd[p] EXCEPT !.cpu_index = @ + 1, !.status = "SLEEP"]
<1>3. \/ CpuStart /\ pd' = pd
      \/ CpuEnd /\ pd' = [pd EXCEPT ![p] = slept]
  BY <1>2 DEF CpuStart, CpuEnd
<1>4. /\ slept.cpu_time = pd[p].cpu_time /\ slept.io_time = pd[p].io_time
      /\ slept.process_time = pd[p].process_time
      /\ slept.cpu_index = pd[p].cpu_index + 1 /\ slept.io_index = pd[p].io_index
      /\ slept.status = "SLEEP"
  BY <1>2 DEF process_t
<1> HIDE DEF slept
<1>5. pd \in [Pids -> process_t]
  BY DEF TypeOK, SimTypeOK
<1>6. \A q \in Pids : /\ pd'[q].cpu_time = pd[q].cpu_time /\ pd'[q].io_time = pd[q].io_time
                      /\ pd'[q].process_time = pd[q].process_time
                      /\ pd'[q].io_index = pd[q].io_index
                      /\ q # p => pd'[q] = pd[q]
  BY <1>3, <1>4, <1>5
<1>7. ClockInv'
  BY <1>1, <1>6, UnchargedKeepsClock DEF Balanced, TypeOK
<1>8. Ledger'
  <2>1. Retired' = Retired /\ p \notin Retired
    BY <1>2, <1>3, <1>4, <1>5 DEF Retired
  <2>2. \A q \in Retired : pd'[q] = pd[q] /\ q \in Pids
    BY <1>6, <2>1 DEF Retired
  <2> QED  BY <1>1, <1>6, <2>1, <2>2 DEF Balanced, Ledger, Ended
<1>9. \A q \in Pids : Charged(q)' = Charged(q)
  <2> SUFFICES ASSUME NEW q \in Pids PROVE Charged(q)' = Charged(q)
    OBVIOUS
  <2>1. pd[q].cpu_index \in Nat
    BY TimesAreNat DEF TypeOK
  <2>2. CASE CpuStart
    <3>1. pd' = pd /\ sched_pc # "end" /\ sched_pc' # "end"
      BY <2>2 DEF CpuStart
    <3> QED  BY <3>1 DEF Charged, Flag
  <2>3. CASE CpuEnd
    <3>1. sched_pc = "end" /\ sched_pc' # "end" /\ pd' = [pd EXCEPT ![p] = slept]
      BY <1>2, <2>3 DEF CpuEnd, SchedStep, slept
    <3>2. pd'[q].cpu_index = pd[q].cpu_index + Flag(q = p)
      BY <1>4, <1>5, <2>1, <3>1 DEF Flag
    <3> QED  BY <1>1, <1>2, <2>1, <3>1, <3>2 DEF Charged, Flag
  <2> QED  BY <1>3, <2>2, <2>3
<1>10. CpuLedger'
  BY <1>1, <1>6, <1>9 DEF Balanced, CpuLedger
<1> QED  BY <1>7, <1>8, <1>10

LEMMA SharedBalanced ==
    ASSUME TypeOK, SimInv, TypeOK', Balanced,
           \/ main \/ add_arrival \/ dispatch \/ wakeUp \/ UNCHANGED vars
           \/ CpuFinished \/ CpuRetire \/ CpuEnqueue \/ CpuPost \/ CpuLog
    PROVE  ClockInv' /\ Ledger' /\ CpuLedger' /\ ReportInv'
<1> USE DEF TypeOK
<1>1. ClockInv' /\ Ledger' /\ ReportInv'
  BY SharedKeepsClock, SharedKeepsLedger, SharedKeepsReport DEF Balanced
<1>2. (sched_pc # "end" /\ sched_pc' # "end") \/ UNCHANGED <<sched_pc, running_pd>>
  <2>1. CASE main
    <3>1. (sched_pc # "end" /\ sched_pc' # "end") \/ UNCHANGED <<sched_pc, running_pd>>
      BY <2>1 DEF main, CreateScheduler, CreateWakeup, JoinWakeup, JoinScheduler, write_result,
         MainStep, SimInv, ThreadsStarted
    <3> QED  BY <3>1
  <2>2. CASE add_arrival
    BY <2>2 DEF add_arrival, ArrivalAdmit, ArrivalTick
  <2>3. CASE dispatch
    BY <2>3 DEF dispatch, SchedCheck, SchedDoneCounter, SchedDoneReady, SchedDoneWait,
         SchedTryWait, SchedRemove, SchedStep
  <2>4. CASE wakeUp
    BY <2>4 DEF wakeUp, WakeCheck, WakeTryWait, WakeRemove, IoFinished, IoRetire,
         IoBurstDone, IoEnqueue, IoPost, WakeUnchanged
  <2>5. CASE CpuFinished \/ CpuRetire \/ CpuEnqueue \/ CpuPost \/ CpuLog
    BY <2>5 DEF CpuFinished, CpuRetire, CpuEnqueue, CpuPost, CpuLog, SchedStep
  <2>6. CASE UNCHANGED vars
    BY <2>6 DEF vars
  <2> QED  BY <2>1, <2>2, <2>3, <2>4, <2>5, <2>6
<1>3. /\ process_d' = process_d
      /\ \A p \in Pids :
           \/ pd'[p].cpu_time = pd[p].cpu_time /\ pd'[p].cpu_index = pd[p].cpu_index
           \/ /\ pd'[p].cpu_time = 0 /\ pd'[p].cpu_index = 0
              /\ sched_pc = "unborn" /\ sched_pc' = "unborn"
  BY SharedSparesCpu
<1>4. CpuLedger'
  <2> SUFFICES ASSUME NEW p \in Pids
               PROVE  pd'[p].cpu_time = SumTo(process_d[p].cpu_burst, Charged(p)')
    BY <1>3 DEF CpuLedger
  <2>1. CASE pd'[p].cpu_time = pd[p].cpu_time /\ pd'[p].cpu_index = pd[p].cpu_index
    <3>1. Charged(p)' = Charged(p)
      BY <1>2, <2>1 DEF Charged, Flag
    <3> QED  BY <2>1, <3>1 DEF Balanced, CpuLedger
  <2>2. CASE pd'[p].cpu_time = 0 /\ pd'[p].cpu_index = 0 /\ sched_pc' = "unborn"
    <3>1. Charged(p)' = 0
      BY <2>2 DEF Charged, Flag
    <3>2. SumTo(process_d[p].cpu_burst, 0) = 0
      BY LineFacts, PrefixSums
    <3> QED  BY <2>2, <3>1, <3>2
  <2> QED  BY <1>3, <2>1, <2>2
<1> QED  BY <1>1, <1>4

LEMMA NextBalanced ==
    ASSUME IInv, IInv', Balanced, [Next]_vars
    PROVE  Balanced'
<1>1. LifeInv'
  BY NextLife DEF IInv, Balanced
<1>2. CASE CpuStart \/ CpuRun \/ CpuEnd
  <2>1. ReportInv'
    <3>1. sched_pc # "exit" /\ UNCHANGED <<T_PROCESS, task_list, main_pc, wake_pc>>
      BY <1>2 DEF CpuStart, CpuRun, CpuEnd, SchedStep, CpuUnchanged
    <3> QED  BY <3>1, SchedKeepsReport DEF Balanced
  <2>2. ClockInv' /\ Ledger' /\ CpuLedger'
    BY <1>2, CpuRunBalanced, CpuEdgesBalanced DEF IInv
  <2> QED  BY <1>1, <2>1, <2>2 DEF Balanced
<1>3. CASE ~ (CpuStart \/ CpuRun \/ CpuEnd)
  <2>1. ClockInv' /\ Ledger' /\ CpuLedger' /\ ReportInv'
    BY <1>3, SharedBalanced DEF IInv, Next, schedular, process_cpu
  <2> QED  BY <1>1, <2>1 DEF Balanced
<1> QED  BY <1>2, <1>3

LEMMA InitBalanced ==
    ASSUME Init
    PROVE  Balanced
<1>1. \A p \in Pids : Charged(p) = 0 /\ pd[p].cpu_time = 0
  BY DEF Init, create_process, Charged, Flag
<1>2. \A p \in Pids : SumTo(process_d[p].cpu_burst, 0) = 0
  <2>1. \A p \in Pids : process_d[p].cpu_burst \in Seq(Nat) /\ Len(process_d[p].cpu_burst) \in Nat
    BY WorkloadAssumption, LenProperties DEF Init, burst_line
  <2> QED  BY <2>1, PrefixSums
<1>3. CpuLedger
  BY <1>1, <1>2 DEF CpuLedger
<1> QED  BY <1>3, InitLife, InitClock, InitLedger, InitReport DEF Balanced

LEMMA BalancedAlways == Spec => []Balanced
<1>1. Init => Balanced
  BY InitBalanced
<1>2. IInv /\ IInv' /\ Balanced /\ [Next]_vars => Balanced'
  BY NextBalanced
<1> QED  BY <1>1, <1>2, Invariance, PTL DEF Spec

(* However the two threads interleave their adds, the clock is the last    *)
(* admission plus all the time served.                                     *)
THEOREM ClockCorrect == Spec => []ClockAccounting
<1>1. Balanced => ClockAccounting
  BY DEF Balanced, ClockInv
<1> QED  BY <1>1, BalancedAlways, PTL

(* The report has every process once, with the sum of all its bursts.      *)
THEOREM ReportCorrect == Spec => []ReportComplete
<1>1. ASSUME IInv, Balanced
      PROVE  ReportComplete
  <2> SUFFICES ASSUME main_pc = "done"
               PROVE  /\ Len(reported) = TOTAL_PROCESS
                      /\ {reported[i][1] : i \in 1 .. Len(reported)} = Pids
                      /\ \A i \in 1 .. Len(reported) :
                           reported[i][2] = SumFunction(process_d[reported[i][1]].cpu_burst)
                                            + SumFunction(process_d[reported[i][1]].io_burst)
    BY DEF ReportComplete
  <2>1. ExitDrained
    BY <1>1, CountedDrains DEF IInv, TypeOK
  <2>2. /\ Len(reported) = TOTAL_PROCESS
        /\ {reported[i][1] : i \in 1 .. Len(reported)} = Pids
        /\ \A i \in 1 .. Len(reported) :
             /\ reported[i][1] \in Pids /\ Ended(reported[i][1])
             /\ reported[i][2] = pd[reported[i][1]].process_time
    BY <1>1, <2>1, ReportFacts DEF IInv, Balanced, TypeOK
  <2>3. ASSUME NEW p \in Pids, Ended(p)
        PROVE  pd[p].process_time = SumFunction(process_d[p].cpu_burst)
                                    + SumFunction(process_d[p].io_burst)
    <3>1. /\ pd[p].process_time = pd[p].cpu_time + pd[p].io_time
          /\ pd[p].io_time = SumTo(process_d[p].io_burst, pd[p].io_index)
          /\ pd[p].cpu_time = SumTo(process_d[p].cpu_burst, Charged(p))
      BY <1>1 DEF Balanced, Ledger, CpuLedger
    <3>2. sched_pc = "exit"
      BY <1>1 DEF Balanced, ReportInv
    <3>3. Charged(p) = pd[p].cpu_index
      BY <1>1, <3>2, TimesAreNat DEF Charged, Flag, IInv, TypeOK
    <3>4. /\ DOMAIN process_d[p].cpu_burst = 1 .. Len(process_d[p].cpu_burst)
          /\ DOMAIN process_d[p].io_burst = 1 .. Len(process_d[p].io_burst)
      BY <1>1, LineFacts, LenProperties DEF IInv, TypeOK
    <3> QED  BY <2>3, <3>1, <3>3, <3>4 DEF Ended, SumTo, SumFunction
  <2> QED  BY <2>2, <2>3
<1> QED  BY <1>1, Invariance, BalancedAlways, PTL
-----------------------------------------------------------------------------
(* The log.  Between CpuStart and CpuEnd the clock passes by the burst, at *)
(* least: the wake-up thread may move it too.                              *)
FullBursts == [p \in Pids |-> process_d[p].cpu_burst]

BurstPasses ==
    /\ sched_pc = "run" => start_time <= global_counter
    /\ sched_pc = "end" => start_time + CpuBurst(running_pd) <= global_counter

FcfsLog == LogInv(FullBursts) /\ BurstPasses

LEMMA StartKeepsLog ==
    ASSUME TypeOK, NEW CONSTANT due, LogInv(due), CpuStart
    PROVE  LogInv(due)' /\ BurstPasses'
<1>1. /\ sched_pc = "cpu" /\ UNCHANGED <<end_time, task_log, global_counter, pd>>
      /\ \/ sched_pc' = "run" /\ start_time' = global_counter
         \/ sched_pc' = "check" /\ start_time' = start_time
  BY DEF CpuStart
<1>2. global_counter \in Nat
  BY DEF TypeOK, SimTypeOK
<1>3. CASE sched_pc' = "run"
  <2>1. LogInv(due)'
    BY <1>1, <1>3, TurnStarts DEF TypeOK
  <2> QED  BY <1>1, <1>2, <1>3, <2>1 DEF BurstPasses
<1>4. CASE sched_pc' = "check"
  <2>1. /\ sched_pc' \notin InTurn /\ sched_pc' \notin Pending /\ sched_pc' # "unborn"
        /\ UNCHANGED <<start_time, end_time, task_log>>
    BY <1>1, <1>4 DEF InTurn, Pending
  <2>2. LogInv(due)'
    BY <1>1, <1>2, <2>1 DEF LogInv, TurnInv, LinesOrdered, LineInv
  <2> QED  BY <1>4, <2>2 DEF BurstPasses
<1> QED  BY <1>1, <1>3, <1>4

LEMMA RunKeepsLog ==
    ASSUME TypeOK, SimInv, TypeOK', CpuLedger, NEW CONSTANT due, LogInv(due), BurstPasses,
           CpuRun
    PROVE  LogInv(due)' /\ BurstPasses'
<1>1. /\ sched_pc = "run" /\ sched_pc' = "end" /\ running_pd' = running_pd
      /\ UNCHANGED log /\ process_d' = process_d
  BY DEF CpuRun, SchedStep, CpuUnchanged
<1>2. PICK p \in Pids :
        /\ p = running_pd /\ CpuBurst(p) \in Nat /\ Charges(p, CpuBurst(p), 0)
        /\ pd'[p].cpu_index = pd[p].cpu_index
        /\ \A q \in Pids \ {p} : pd'[q] = pd[q]
  BY CpuRunCharges
<1>3. /\ global_counter' = global_counter + CpuBurst(p)
      /\ global_counter \in Nat /\ start_time \in Nat /\ start_time <= global_counter
      /\ start_time' = start_time
  BY <1>1, <1>2 DEF Charges, TypeOK, SimTypeOK, BurstPasses, log
<1>4. LogInv(due)'
  <2>1. \A q \in Pids : pd'[q].cpu_index = pd[q].cpu_index
    BY <1>2
  <2>2. global_counter <= global_counter'
    BY <1>2, <1>3
  <2>3. /\ sched_pc \in InTurn /\ sched_pc' \notin Pending /\ sched_pc' # "unborn"
    BY <1>1 DEF InTurn, Pending
  <2> QED  BY <1>1, <2>1, <2>2, <2>3, LogKept DEF TypeOK
<1>5. BurstPasses'
  <2>1. CpuBurst(p)' = CpuBurst(p)
    BY <1>1, <1>2 DEF CpuBurst
  <2>2. start_time' + CpuBurst(p)' <= global_counter'
    BY <1>2, <1>3, <2>1
  <2>3. CpuBurst(running_pd)' = CpuBurst(p)'
    BY <1>1, <1>2 DEF CpuBurst
  <2> QED  BY <1>1, <2>2, <2>3 DEF BurstPasses
<1> QED  BY <1>4, <1>5

LEMMA EndKeepsLog ==
    ASSUME TypeOK, SimInv, TypeOK', LogInv(FullBursts), BurstPasses, CpuEnd
    PROVE  LogInv(FullBursts)' /\ BurstPasses'
<1>1. PICK due : due = FullBursts
  OBVIOUS
<1>2. /\ sched_pc = "end" /\ sched_pc' = "enqueue" /\ end_time' = global_counter
      /\ UNCHANGED <<process_d, start_time, task_log, global_counter, running_pd>>
  BY DEF CpuEnd, SchedStep, CpuUnchanged
<1>3. PICK p \in Pids : p = running_pd /\ pd[p] \in process_t /\ pd \in [Pids -> process_t]
                        /\ pd[p].cpu_index < Len(process_d[p].cpu_burst)
  BY <1>2, RunningFacts DEF TypeOK, Serving
<1> DEFINE slept == [pd[p] EXCEPT !.cpu_index = @ + 1, !.status = "SLEEP"]
<1>4. pd' = [pd EXCEPT ![p] = slept] /\ slept.cpu_index = pd[p].cpu_index + 1
  BY <1>3 DEF CpuEnd, process_t
<1> HIDE DEF slept
<1>5. /\ pd'[p].cpu_index = pd[p].cpu_index + 1
      /\ \A q \in Pids \ {p} : pd'[q] = pd[q]
  BY <1>3, <1>4
<1>6. global_counter - start_time >= due[p][pd[p].cpu_index + 1]
  <2>1. due[p][pd[p].cpu_index + 1] = CpuBurst(p)
    BY <1>1 DEF FullBursts, CpuBurst
  <2>2. start_time + CpuBurst(p) <= global_counter
    BY <1>2, <1>3 DEF BurstPasses
  <2>3. CpuBurst(p) \in Nat
    BY <1>2, <1>3, RunningBurst DEF TypeOK, Serving
  <2>4. start_time \in Nat /\ global_counter \in Nat
    BY DEF TypeOK, SimTypeOK
  <2> QED  BY <2>1, <2>2, <2>3, <2>4
<1>7. LogInv(due)'
  BY <1>1, <1>2, <1>3, <1>5, <1>6, TurnEnds DEF TypeOK, InTurn
<1>8. FullBursts' = due
  BY <1>1, <1>2 DEF FullBursts
<1>9. LogInv(FullBursts)'
  BY <1>7, <1>8 DEF LogInv, TurnInv, LineInv
<1> QED  BY <1>2, <1>9 DEF BurstPasses

LEMMA NextKeepsLog ==
    ASSUME IInv, IInv', Balanced, FcfsLog, [Next]_vars
    PROVE  FcfsLog'
<1>1. PICK due : due = FullBursts
  OBVIOUS
<1>2. TypeOK /\ SimInv /\ TypeOK' /\ CpuLedger /\ LogInv(due) /\ BurstPasses
  BY <1>1 DEF IInv, Balanced, FcfsLog
<1>3. CASE CpuEnd
  BY <1>2, <1>3, EndKeepsLog DEF FcfsLog
<1>4. CASE CpuStart \/ CpuRun
  <2>1. LogInv(due)' /\ BurstPasses'
    BY <1>2, <1>4, StartKeepsLog, RunKeepsLog
  <2>2. FullBursts' = due
    BY <1>1, <1>4 DEF FullBursts, CpuStart, CpuRun, CpuUnchanged
  <2> QED  BY <2>1, <2>2 DEF FcfsLog, LogInv, TurnInv, LineInv
<1>5. CASE \/ main \/ add_arrival \/ dispatch \/ wakeUp \/ UNCHANGED vars
           \/ CpuFinished \/ CpuRetire \/ CpuEnqueue \/ CpuPost \/ CpuLog
  <2>1. LogInv(due)'
    BY <1>2, <1>5, SharedKeepsLog DEF TypeOK
  <2>2. FullBursts' = due
    BY <1>1, <1>2, <1>5, SharedSparesCpu DEF TypeOK, FullBursts
  <2>3. BurstPasses'
    <3>1. CASE CpuLog
      BY <3>1 DEF CpuLog, SchedStep, BurstPasses
    <3>2. CASE ~ CpuLog
      <4>1. /\ UNCHANGED log /\ global_counter <= global_counter'
            /\ sched_pc' \in InTurn => sched_pc \in InTurn /\ running_pd' = running_pd
            /\ sched_pc' \in Pending => sched_pc \in Pending
        BY <1>2, <1>5, <3>2, SharedSparesLog DEF TypeOK
      <4>2. sched_pc' \in {"run", "end"} => sched_pc' = sched_pc
        BY <1>2, <1>5, <3>2, EntersNoTurn
      <4>3. ASSUME sched_pc' \in {"run", "end"}
            PROVE  CpuBurst(running_pd)' = CpuBurst(running_pd)
        <5>1. sched_pc = sched_pc' /\ sched_pc # "unborn" /\ running_pd' = running_pd
          BY <4>1, <4>2, <4>3 DEF InTurn
        <5>2. running_pd \in Pids
          BY <1>2, <4>3, <5>1, RunningFacts DEF TypeOK, Serving
        <5>3. pd'[running_pd].cpu_index = pd[running_pd].cpu_index /\ process_d' = process_d
          BY <1>2, <1>5, <5>1, <5>2, SharedSparesCpu DEF TypeOK
        <5> QED  BY <5>1, <5>3 DEF CpuBurst
      <4>4. global_counter \in Nat /\ global_counter' \in Nat /\ start_time \in Nat
        BY <1>2 DEF TypeOK, SimTypeOK
      <4>5. CASE sched_pc' = "run"
        BY <1>2, <4>1, <4>2, <4>4, <4>5 DEF BurstPasses, log
      <4>6. CASE sched_pc' = "end"
        <5>1. PICK p \in Pids : p = running_pd
          BY <1>2, <4>2, <4>6, RunningFacts DEF TypeOK, Serving
        <5>2. start_time' = start_time /\ start_time + CpuBurst(running_pd) <= global_counter
          BY <1>2, <4>1, <4>2, <4>6 DEF BurstPasses, log
        <5>3. CpuBurst(running_pd) \in Nat
          BY <1>2, <4>2, <4>6, RunningBurst DEF TypeOK, Serving
        <5>4. start_time' + CpuBurst(running_pd)' <= global_counter'
          BY <4>1, <4>3, <4>4, <4>6, <5>2, <5>3
        <5> QED  BY <4>6, <5>4 DEF BurstPasses
      <4> QED  BY <4>5, <4>6 DEF BurstPasses
    <3> QED  BY <3>1, <3>2
  <2> QED  BY <2>1, <2>2, <2>3 DEF FcfsLog, LogInv, TurnInv, LineInv
<1> QED  BY <1>3, <1>4, <1>5 DEF Next, schedular, process_cpu

(* The log is one timeline: its lines follow each other, cover their whole *)
(* bursts and repeat none, although each is written after its process was  *)
(* handed over.                                                            *)
THEOREM LogCorrect == Spec => []LogTimeline
<1>1. Init => FcfsLog
  BY InitLog DEF Init, FcfsLog, BurstPasses
<1>2. IInv /\ IInv' /\ Balanced /\ FcfsLog /\ [Next]_vars => FcfsLog'
  BY NextKeepsLog
<1>3. IInv /\ FcfsLog => LogTimeline
  <2>1. IInv => \A k \in 1 .. Len(task_log) : task_log[k].pid \in Pids
    BY LogLines DEF IInv, TypeOK
  <2> QED
    BY <2>1 DEF FcfsLog, LogInv, LinesOrdered, LineInv, FullBursts, LogTimeline, Timeline
<1> QED  BY <1>1, <1>2, <1>3, Invariance, BalancedAlways, PTL DEF Spec
-----------------------------------------------------------------------------
(* The order.  A burst served whole changes nobody's turn.                 *)
LEMMA CpuKeepsTurns ==
    ASSUME TypeOK, SimInv, TurnsInv, CpuStart \/ CpuRun \/ CpuEnd
    PROVE  TurnsInv'
<1>1. /\ sched_pc \in Serving /\ sched_pc' \in {"run", "end", "enqueue", "check"}
      /\ UNCHANGED <<queues, running_pd, sleeping_pd, wake_pc, main_pc>>
  BY DEF CpuStart, CpuRun, CpuEnd, SchedStep, CpuUnchanged, Serving
<1>2. OnCpu = {running_pd} /\ OnCpu' \subseteq OnCpu
  <2>1. OnCpu = {running_pd}
    BY <1>1, ServingHoldsCpu
  <2> QED  BY <1>1, <2>1 DEF OnCpu
<1>3. PICK p \in Pids : p = running_pd /\ pd[p] \in process_t /\ pd \in [Pids -> process_t]
  BY <1>2, PlacesApart DEF TypeOK, SimTypeOK
<1>4. PICK served :
        /\ pd' = [pd EXCEPT ![p] = served]
        /\ served.priority = pd[p].priority /\ served.io_index = pd[p].io_index
  <2>1. CASE CpuStart
    <3>1. pd' = [pd EXCEPT ![p] = pd[p]]
      BY <1>3, <2>1 DEF CpuStart
    <3> QED  BY <3>1
  <2>2. CASE CpuRun
    <3> DEFINE burst == IF pd[p].status = "NEW" THEN process_d[p].cpu_burst[1] ELSE CpuBurst(p)
               total == IF pd[p].status = "NEW" THEN burst ELSE pd[p].cpu_time + burst
               run == [pd[p] EXCEPT !.cpu_time = total, !.process_time = @ + burst]
    <3>1. pd' = [pd EXCEPT ![p] = run]
      BY <1>3, <2>2 DEF CpuRun
    <3>2. run.priority = pd[p].priority /\ run.io_index = pd[p].io_index
      <4> HIDE DEF burst, total
      <4> QED  BY <1>3 DEF process_t
    <3> HIDE DEF run
    <3> QED  BY <3>1, <3>2
  <2>3. CASE CpuEnd
    <3> DEFINE slept == [pd[p] EXCEPT !.cpu_index = @ + 1, !.status = "SLEEP"]
    <3>1. pd' = [pd EXCEPT ![p] = slept]
      BY <1>3, <2>3 DEF CpuEnd
    <3>2. slept.priority = pd[p].priority /\ slept.io_index = pd[p].io_index
      BY <1>3 DEF process_t
    <3> HIDE DEF slept
    <3> QED  BY <3>1, <3>2
  <2> QED  BY <2>1, <2>2, <2>3
<1>5. \A q \in Pids : /\ pd'[q].priority = pd[q].priority
                      /\ pd'[q].io_index = pd[q].io_index
                      /\ q \notin OnCpu => pd'[q] = pd[q]
  BY <1>2, <1>3, <1>4
<1> QED  BY <1>1, <1>2, <1>5, ServingKeepsTurns DEF TypeOK

(* Processes of one priority take turns in arrival order: however the two  *)
(* threads interleave, none gets a burst ahead of one before it.           *)
THEOREM OrderKept == Spec => []NoOvertaking
<1>1. Init => TurnsInv
  BY InitTurns
<1>2. IInv /\ TurnsInv /\ [Next]_vars => TurnsInv'
  BY SharedKeepsTurns, CpuKeepsTurns DEF IInv, TypeOK, Next, schedular, process_cpu
<1>3. IInv /\ TurnsInv => NoOvertaking
  BY TurnsDoNotOvertake DEF IInv, TypeOK
<1> QED  BY <1>1, <1>2, <1>3, Invariance, PTL DEF Spec
-----------------------------------------------------------------------------
(* sjf runs the fcfs threads over priority queues, and the invariant of    *)
(* the threads does not depend on where a queue files a node: what is      *)
(* proved of Spec holds of SjfSpec.                                        *)
LEMMA SjfRefinesSpec == SjfSpec => Spec
<1>1. SjfNext => Next
  BY DEF SjfNext, Next, schedular, schedular_sjf, process_cpu_sjf, add_arrival_process_sjf,
         wakeUp_sjf
<1>2. [SjfNext]_vars => [Next]_vars
  BY <1>1
<1>3. SjfInit => Init
  BY DEF SjfInit
<1> QED  BY <1>2, <1>3, PTL DEF SjfSpec, Spec

(* With priority queues too, the threads keep their semaphores, places,    *)
(* bounds, counter and exits in step.                                      *)
THEOREM SjfThreadsCorrect == SjfSpec => []ThreadsInv
  BY SjfRefinesSpec, ThreadsCorrect, PTL

(* With priority queues too, every process has each burst once, in order.  *)
THEOREM SjfImplements == SjfSpec => Implements
  BY SjfRefinesSpec, FcfsImplements, PTL
-----------------------------------------------------------------------------
(* sjf files a process once, under its first burst, and the ready queue    *)
(* stays sorted by it.                                                     *)
SjfLabels == {"run", "end"}

LEMMA SjfFiles ==
    ASSUME Policy = "sjf", SimTypeOK(SjfLabels), SimInv, Filed, [SjfNext]_vars
    PROVE  Filed'
<1>1. CASE main \/ UNCHANGED vars
  BY <1>1, MainFiles
<1>2. CASE add_arrival \/ dispatch \/ wakeUp
  BY <1>2, ArrivalFiles, DispatchFiles, WakeUpFiles
<1>3. CASE CpuFinished \/ CpuRetire \/ CpuEnqueue \/ CpuPost \/ CpuLog
  BY <1>3, CpuPassesFiled
<1>4. CASE CpuStart \/ CpuRun \/ CpuEnd
  <2>1. readyQueue' = readyQueue
    BY <1>4 DEF CpuStart, CpuRun, CpuEnd, queues
  <2>2. \A q \in Pids : pd'[q].priority = pd[q].priority
    <3>1. pd \in [Pids -> process_t]
      BY DEF SimTypeOK
    <3>2. CASE CpuStart
      BY <3>2 DEF CpuStart
    <3>3. CASE CpuRun
      BY <3>1, <3>3 DEF CpuRun, process_t
    <3>4. CASE CpuEnd
      BY <3>1, <3>4 DEF CpuEnd, process_t
    <3> QED  BY <1>4, <3>2, <3>3, <3>4
  <2> QED  BY <2>1, <2>2, ReadyArePids, FiledKept
<1> QED
  BY <1>1, <1>2, <1>3, <1>4
  DEF SjfNext, schedular_sjf, process_cpu_sjf, process_cpu, add_arrival_process_sjf, wakeUp_sjf

(* The step that dispatches takes the front of the ready queue.            *)
LEMMA OnlyRemoveDispatches ==
    ASSUME [SjfNext]_vars, Dispatched
    PROVE  SchedRemove
<1>1. sched_pc = "remove" /\ sched_pc' = "cpu"
  BY DEF Dispatched
<1>2. ~ main
  BY <1>1 DEF main, CreateScheduler, CreateWakeup, JoinWakeup, JoinScheduler, write_result
<1>3. ~ add_arrival
  BY <1>1 DEF add_arrival, ArrivalAdmit, ArrivalTick
<1>4. ~ wakeUp
  BY <1>1 DEF wakeUp, WakeCheck, WakeTryWait, WakeRemove, IoFinished, IoRetire, IoBurstDone,
              IoEnqueue, IoPost, WakeUnchanged
<1>5. ~ process_cpu
  BY <1>1 DEF process_cpu, CpuFinished, CpuRetire, CpuStart, CpuRun, CpuEnd, CpuEnqueue, CpuPost,
              CpuLog, SchedStep
<1>6. ~ UNCHANGED vars
  BY <1>1 DEF vars
<1>7. dispatch
  BY <1>2, <1>3, <1>4, <1>5, <1>6
  DEF SjfNext, schedular_sjf, process_cpu_sjf, add_arrival_process_sjf, wakeUp_sjf
<1> QED
  BY <1>1, <1>7 DEF dispatch, SchedCheck, SchedDoneCounter, SchedDoneReady, SchedDoneWait,
                    SchedTryWait, SchedStep

LEMMA SjfDispatchesLeast ==
    ASSUME SimTypeOK(SjfLabels), Filed, [SjfNext]_vars, Dispatched
    PROVE  \A q \in Carried(readyQueue) : pd[running_pd'].priority <= pd[q].priority
<1>1. SchedRemove
  BY OnlyRemoveDispatches
<1>2. running_pd' = dequeued(readyQueue) /\ dequeued(readyQueue) # NULL
  BY <1>1 DEF SchedRemove, SchedStep, Dispatched
<1>3. ~ isEmpty(readyQueue)
  BY <1>2 DEF dequeued
<1> QED  BY <1>2, <1>3, FrontIsLeast

(* Whatever the wake-up thread files between the scheduler's wait and its  *)
(* dequeue, the process dispatched is of the least priority value.         *)
THEOREM SjfDispatches == SjfSpec => DispatchesLeastPriority
<1>1. SjfSpec => []IInv
  BY SjfRefinesSpec, Invariance, PTL
<1>2. IInv => SimTypeOK(SjfLabels) /\ SimInv
  BY DEF IInv, TypeOK, SjfLabels
<1>3. SjfInit => Policy = "sjf" /\ Filed
  BY InitFiled DEF SjfInit
<1>4. IInv /\ (Policy = "sjf" /\ Filed) /\ [SjfNext]_vars => (Policy = "sjf" /\ Filed)'
  BY <1>2, SjfFiles
<1>5. SjfSpec => [](Policy = "sjf" /\ Filed)
  BY <1>1, <1>3, <1>4, PTL DEF SjfSpec
<1>6. IInv /\ Filed /\ [SjfNext]_vars =>
        [Dispatched =>
           \A q \in Carried(readyQueue) : pd[running_pd'].priority <= pd[q].priority]_vars
  BY <1>2, SjfDispatchesLeast
<1> QED  BY <1>1, <1>5, <1>6, PTL DEF SjfSpec, DispatchesLeastPriority
-----------------------------------------------------------------------------
(* With priority queues, the turns are kept among the processes that were  *)
(* filed under the same first burst.                                       *)
THEOREM SjfOrderKept == SjfSpec => []NoOvertaking
  BY SjfRefinesSpec, OrderKept, PTL

(* What is charged, reported and logged does not depend on the order of    *)
(* the queues either.                                                      *)
THEOREM SjfAccounts == SjfSpec => [](ClockAccounting /\ ReportComplete /\ LogTimeline)
  BY SjfRefinesSpec, ClockCorrect, ReportCorrect, LogCorrect, PTL
=============================================================================
