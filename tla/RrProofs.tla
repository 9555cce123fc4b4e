------------------------------ MODULE RrProofs ------------------------------
(***************************************************************************)
(* What the threads keep up between them under rr, for every quantum, every *)
(* number of processes and every burst file; and that the branch for an    *)
(* expired quantum is dead.                                                *)
(***************************************************************************)
EXTENDS RrSched, SimulatorProofs

RrLabels == {"run"}

(* The loop never gets past the quantum.                                   *)
WithinQuantum == sched_pc = "run" => time <= quantum

RrInv == RrTypeOK /\ SimInv /\ Counted /\ WithinQuantum

LEMMA RrStartInv ==
    ASSUME RrInv, RrStart
    PROVE  RrInv'
<1>1. SimTypeOK(RrLabels) /\ SimInv /\ Counted
  BY DEF RrInv, RrTypeOK, RrLabels
<1>2. /\ sched_pc = "cpu" /\ sched_pc' = "run" /\ ~ should_terminate(running_pd)
      /\ start_time' = global_counter /\ time' = 0
      /\ proc_time' = pd[running_pd].remaining_time
      /\ UNCHANGED <<pd, queues, wait_count, global_counter, TERMINATED_PROCESS, running_pd,
                     end_time, task_log>>
      /\ CpuUnchanged
  BY DEF RrStart, SchedStep
<1>3. /\ running_pd \in Pids /\ pd \in [Pids -> process_t]
      /\ pd[running_pd] \in process_t /\ pd[running_pd].status \in {"NEW", "READY"}
  BY <1>1, <1>2, RunningFacts DEF Serving
<1>4. pd[running_pd].cpu_index < Len(process_d[running_pd].cpu_burst)
  BY <1>1, <1>2, BurstIndices DEF BurstIndexInBounds
<1>5. pd' = [pd EXCEPT ![running_pd] = pd[running_pd]]
  BY <1>2, <1>3
<1>6. SimTypeOK(RrLabels)' /\ SimInv' /\ Retired' = Retired
  BY <1>1, <1>2, <1>3, <1>4, <1>5, ServeInv DEF Serving, RrLabels, SimTypeOK
<1>7. Counted'
  BY <1>1, <1>2, <1>6, NothingRetires DEF CpuUnchanged
<1>8. time' \in Nat /\ proc_time' \in Int
  BY <1>2, <1>3 DEF process_t
<1>9. WithinQuantum'
  BY <1>2, QuantumAssumption DEF WithinQuantum
<1> QED  BY <1>6, <1>7, <1>8, <1>9 DEF RrInv, RrTypeOK, RrLabels

LEMMA RrTickInv ==
    ASSUME RrInv, RrTick
    PROVE  RrInv'
<1> DEFINE p == running_pd
           served == [pd[p] EXCEPT !.cpu_time = @ + 1, !.process_time = @ + 1,
                                   !.remaining_time = @ - 1]
<1>1. SimTypeOK(RrLabels) /\ SimInv /\ Counted /\ time \in Nat /\ proc_time \in Int
  BY DEF RrInv, RrTypeOK, RrLabels
<1>2. /\ sched_pc = "run" /\ sched_pc' = "run"
      /\ time < quantum /\ time' = time + 1 /\ proc_time' = proc_time
      /\ global_counter' = global_counter + 1
      /\ UNCHANGED <<queues, wait_count, TERMINATED_PROCESS, running_pd, log>> /\ CpuUnchanged
  BY DEF RrTick, SchedStep, SpendTick
<1>3. pd' = [pd EXCEPT ![p] = served]
  BY DEF RrTick, SpendTick, Spent
<1>4. /\ p \in Pids /\ pd[p] \in process_t /\ pd[p].status \in {"NEW", "READY"}
      /\ pd[p].cpu_index < Len(process_d[p].cpu_burst)
  BY <1>1, <1>2, RunningFacts DEF Serving
<1>5. /\ served \in process_t /\ served.status = pd[p].status
      /\ served.cpu_index = pd[p].cpu_index /\ served.io_index = pd[p].io_index
  <2>1. pd[p].cpu_time + 1 \in Nat /\ pd[p].process_time + 1 \in Nat
        /\ pd[p].remaining_time - 1 \in Int
    BY <1>4 DEF process_t
  <2> QED  BY <1>4, <2>1 DEF process_t
<1> HIDE DEF served
<1>6. global_counter' \in Nat /\ UNCHANGED <<start_time, end_time, task_log>>
  BY <1>1, <1>2 DEF SimTypeOK, log
<1>7. SimTypeOK(RrLabels)' /\ SimInv' /\ Retired' = Retired
  BY <1>1, <1>2, <1>3, <1>4, <1>5, <1>6, ServeInv DEF Serving, RrLabels, SimTypeOK
<1>8. Counted'
  BY <1>1, <1>2, <1>7, NothingRetires DEF CpuUnchanged
<1>9. time' \in Nat /\ proc_time' \in Int
  BY <1>1, <1>2
<1>10. WithinQuantum'
  BY <1>1, <1>2, QuantumAssumption DEF WithinQuantum
<1> QED  BY <1>7, <1>8, <1>9, <1>10 DEF RrInv, RrTypeOK, RrLabels

(* The branch for time > quantum is not taken.                             *)
LEMMA RrEndInv ==
    ASSUME RrInv, RrEnd
    PROVE  RrInv'
<1> DEFINE p == running_pd
           slept == [pd[p] EXCEPT !.cpu_index = @ + 1, !.status = "SLEEP",
                                  !.remaining_time = NextRemaining(p)]
<1>1. SimTypeOK(RrLabels) /\ SimInv /\ Counted /\ time \in Nat /\ proc_time \in Int
  BY DEF RrInv, RrTypeOK, RrLabels
<1>2. /\ sched_pc = "run" /\ end_time' = global_counter
      /\ UNCHANGED <<queues, wait_count, global_counter, TERMINATED_PROCESS, running_pd,
                     start_time, task_log, slice>>
      /\ CpuUnchanged
  BY DEF RrEnd
<1>3. ~ (time > quantum)
  BY <1>1, <1>2, QuantumAssumption DEF RrInv, WithinQuantum
<1>4. sched_pc' = "enqueue" /\ pd' = [pd EXCEPT ![p] = slept]
  BY <1>3 DEF RrEnd
<1>5. p \in Pids /\ pd[p] \in process_t /\ NextRemaining(p) \in Int
  BY <1>1, <1>2, RunningFacts, NextRemainingIsInt DEF Serving
<1>6. /\ slept \in process_t /\ slept.status = "SLEEP"
      /\ slept.cpu_index = pd[p].cpu_index + 1 /\ slept.io_index = pd[p].io_index
  <2>1. pd[p].cpu_index + 1 \in Nat
    BY <1>5 DEF process_t
  <2> QED  BY <1>5, <2>1 DEF process_t
<1> HIDE DEF slept
<1>7. SimTypeOK(RrLabels)' /\ SimInv' /\ Retired' = Retired
  BY <1>1, <1>2, <1>4, <1>6, BurstOverInv DEF Serving
<1>8. Counted'
  BY <1>1, <1>2, <1>4, <1>7, NothingRetires DEF CpuUnchanged
<1>9. time' \in Nat /\ proc_time' \in Int
  BY <1>1, <1>2 DEF slice
<1>10. WithinQuantum'
  BY <1>4 DEF WithinQuantum
<1> QED  BY <1>7, <1>8, <1>9, <1>10 DEF RrInv, RrTypeOK, RrLabels
-----------------------------------------------------------------------------
(* A step of the other threads, or one of the scheduler outside its burst. *)
LEMMA RrSharedInv ==
    ASSUME RrInv, UNCHANGED slice,
           \/ main \/ add_arrival \/ dispatch \/ wakeUp \/ UNCHANGED vars
           \/ CpuFinished \/ CpuRetire \/ CpuEnqueue \/ CpuPost \/ CpuLog
    PROVE  RrInv'
<1>1. SimTypeOK(RrLabels) /\ SimInv /\ Counted /\ time \in Nat /\ proc_time \in Int
  BY DEF RrInv, RrTypeOK, RrLabels
<1>2. SimTypeOK(RrLabels)' /\ SimInv'
  BY <1>1, MainInv, ArrivalInv, DispatchInv, WakeUpInv, StutterInv, CpuFinishedInv,
     CpuRetireInv, CpuEnqueueInv, CpuPostInv, CpuLogInv
<1>3. Counted'
  <2>1. CASE main \/ add_arrival \/ dispatch \/ wakeUp
    BY <1>1, <2>1, MainCounted, ArrivalCounted, DispatchCounted, WakeUpCounted
  <2>2. CASE CpuFinished
    BY <1>1, <2>2, CpuFinishedCounted
  <2>4. CASE CpuRetire
    BY <1>1, <2>4, CpuRetireCounted
  <2>5. CASE CpuEnqueue \/ CpuPost \/ CpuLog
    BY <1>1, <2>5, CpuPassesCounted
  <2>3. CASE UNCHANGED vars
    <3>1. UNCHANGED <<TERMINATED_PROCESS, sched_pc, wake_pc>> /\ Retired' = Retired
      BY <2>3 DEF vars, tables, Retired
    <3> QED  BY <1>1, <3>1, NothingRetires
  <2> QED  BY <2>1, <2>2, <2>3, <2>4, <2>5
<1>4. sched_pc' = "run" => sched_pc = "run"
  <2>1. CASE main
    BY <2>1 DEF main, CreateScheduler, CreateWakeup, JoinWakeup, JoinScheduler, write_result
  <2>2. CASE add_arrival \/ wakeUp \/ UNCHANGED vars
    <3>1. CASE add_arrival
      BY <3>1 DEF add_arrival, ArrivalAdmit, ArrivalTick
    <3>2. CASE wakeUp
      BY <3>2 DEF wakeUp, WakeCheck, WakeTryWait, WakeRemove, IoFinished, IoRetire, IoBurstDone,
                  IoEnqueue, IoPost, WakeUnchanged
    <3>3. CASE UNCHANGED vars
      BY <3>3 DEF vars
    <3> QED  BY <2>2, <3>1, <3>2, <3>3
  <2>3. CASE dispatch
    BY <2>3 DEF dispatch, SchedCheck, SchedDoneCounter, SchedDoneReady, SchedDoneWait,
                SchedTryWait, SchedRemove, SchedStep
  <2>4. CASE CpuFinished \/ CpuRetire \/ CpuEnqueue \/ CpuPost \/ CpuLog
    BY <2>4 DEF CpuFinished, CpuRetire, CpuEnqueue, CpuPost, CpuLog, SchedStep
  <2> QED  BY <2>1, <2>2, <2>3, <2>4
<1>5. time' = time /\ proc_time' = proc_time
  BY DEF slice
<1> QED  BY <1>1, <1>2, <1>3, <1>4, <1>5 DEF RrInv, RrTypeOK, RrLabels, WithinQuantum

LEMMA RrNextInv ==
    ASSUME RrInv, [RrNext]_rrVars
    PROVE  RrInv'
<1>1. CASE RrStart \/ RrTick \/ RrEnd
  BY <1>1, RrStartInv, RrTickInv, RrEndInv
<1>2. CASE ~ (RrStart \/ RrTick \/ RrEnd)
  BY <1>2, RrSharedInv
     DEF RrNext, rrVars, main_rr, add_arrival_process_rr, schedular_rr, process_cpu_rr,
         wakeUp_rr, Slice
<1> QED  BY <1>1, <1>2

(* The inductive invariant holds in every reachable state of rr.           *)
THEOREM RrInvariance == RrSpec => []RrInv
<1>1. RrInit => RrInv
  <2> SUFFICES ASSUME RrInit PROVE RrInv
    OBVIOUS
  <2>1. SimTypeOK(RrLabels) /\ SimInv /\ time \in Nat /\ proc_time \in Int
    BY InitInv DEF RrInit
  <2>2. Counted /\ sched_pc # "run"
    BY InitCounted DEF RrInit, Init
  <2> QED  BY <2>1, <2>2 DEF RrInv, RrTypeOK, RrLabels, WithinQuantum
<1>2. RrInv /\ [RrNext]_rrVars => RrInv'
  BY RrNextInv
<1> QED  BY <1>1, <1>2, PTL DEF RrSpec

(* Types, and with them: the label of an expired quantum is never reached. *)
THEOREM RrTypeCorrect == RrSpec => []RrTypeOK
<1>1. RrInv => RrTypeOK
  BY DEF RrInv
<1> QED  BY <1>1, RrInvariance, PTL

(* Under rr the threads keep semaphores, places, bounds, counter and exits *)
(* in step, whatever the quantum cuts off.                                 *)
THEOREM RrThreadsCorrect == RrSpec => []ThreadsInv
<1>1. RrInv => ThreadsInv
  <2> SUFFICES ASSUME RrInv PROVE ThreadsInv
    OBVIOUS
  <2>1. SimTypeOK(RrLabels) /\ SimInv /\ Counted
    BY DEF RrInv, RrTypeOK, RrLabels
  <2>2. BurstIndexInBounds /\ ExitDrained
    BY <2>1, BurstIndices, CountedDrains
  <2> QED  BY <2>1, <2>2 DEF ThreadsInv, Counted
<1> QED  BY <1>1, RrInvariance, PTL
-----------------------------------------------------------------------------
(* The refinement of ProcessLifecycle.                                     *)
LEMMA RrStartLife ==
    ASSUME RrInv, LifeInv, RrStart
    PROVE  LifeStep /\ LifeInv'
<1>1. SimTypeOK(RrLabels) /\ SimInv
  BY DEF RrInv, RrTypeOK, RrLabels
<1>2. /\ sched_pc = "cpu" /\ sched_pc' = "run" /\ pd' = pd
      /\ UNCHANGED <<queues, running_pd>> /\ CpuUnchanged
  BY DEF RrStart, SchedStep
<1>3. Retired' = Retired
  BY <1>2 DEF Retired
<1> QED  BY <1>1, <1>2, <1>3, ServeLife DEF Serving

LEMMA RrTickLife ==
    ASSUME RrInv, LifeInv, RrTick
    PROVE  LifeStep /\ LifeInv'
<1>1. SimTypeOK(RrLabels) /\ SimInv /\ pd \in [Pids -> process_t]
  BY DEF RrInv, RrTypeOK, RrLabels, SimTypeOK
<1>2. /\ sched_pc = "run" /\ sched_pc' = "run" /\ pd' = Spent(running_pd)
      /\ UNCHANGED <<queues, running_pd>> /\ CpuUnchanged
  BY DEF RrTick, SchedStep, SpendTick
<1>3. \A q \in Pids : /\ pd'[q].status = pd[q].status
                      /\ pd'[q].cpu_index = pd[q].cpu_index
                      /\ pd'[q].io_index = pd[q].io_index
  BY <1>1, <1>2 DEF Spent, process_t
<1>4. Retired' = Retired
  BY <1>3 DEF Retired
<1> QED  BY <1>1, <1>2, <1>3, <1>4, ServeLife DEF Serving

LEMMA RrEndLife ==
    ASSUME RrInv, LifeInv, RrEnd
    PROVE  LifeStep /\ LifeInv'
<1> DEFINE p == running_pd
           slept == [pd[p] EXCEPT !.cpu_index = @ + 1, !.status = "SLEEP",
                                  !.remaining_time = NextRemaining(p)]
<1>1. SimTypeOK(RrLabels) /\ SimInv /\ time \in Nat
  BY DEF RrInv, RrTypeOK, RrLabels
<1>2. sched_pc = "run" /\ UNCHANGED <<queues, running_pd>> /\ CpuUnchanged
  BY DEF RrEnd
<1>3. ~ (time > quantum)
  BY <1>1, <1>2, QuantumAssumption DEF RrInv, WithinQuantum
<1>4. sched_pc' = "enqueue" /\ pd' = [pd EXCEPT ![p] = slept]
  BY <1>3 DEF RrEnd
<1>5. /\ pd \in [Pids -> process_t] /\ p \in Pids /\ pd[p] \in process_t
      /\ pd[p].status \in {"NEW", "READY"} /\ NextRemaining(p) \in Int
  BY <1>1, <1>2, RunningFacts, NextRemainingIsInt DEF Serving
<1>6. /\ slept \in process_t /\ slept.status = "SLEEP"
      /\ slept.cpu_index = pd[p].cpu_index + 1 /\ slept.io_index = pd[p].io_index
  <2>1. pd[p].cpu_index + 1 \in Nat
    BY <1>5 DEF process_t
  <2> QED  BY <1>5, <2>1 DEF process_t
<1> HIDE DEF slept
<1>7. Retired' = Retired
  BY <1>4, <1>5, <1>6 DEF Retired
<1> QED  BY <1>1, <1>2, <1>4, <1>6, <1>7, BurstOverLife DEF Serving

LEMMA RrNextLife ==
    ASSUME RrInv, RrInv', LifeInv, [RrNext]_rrVars
    PROVE  LifeStep /\ LifeInv'
<1>1. SimTypeOK(RrLabels) /\ SimInv /\ SimInv'
  BY DEF RrInv, RrTypeOK, RrLabels
<1>2. CASE RrStart \/ RrTick \/ RrEnd
  BY <1>2, RrStartLife, RrTickLife, RrEndLife
<1>3. CASE ~ (RrStart \/ RrTick \/ RrEnd)
  BY <1>1, <1>3, SharedLife
     DEF RrNext, rrVars, main_rr, add_arrival_process_rr, schedular_rr, process_cpu_rr,
         wakeUp_rr, Slice
<1> QED  BY <1>2, <1>3

(* Cut off at the quantum or not, a burst is had once: under rr a process  *)
(* takes its line's bursts in order, skips none and repeats none.          *)
THEOREM RrImplements == RrSpec => Implements
<1>1. RrInit => Lifecycle!LifecycleInit /\ LifeInv
  BY InitLife DEF RrInit
<1>2. RrInv /\ RrInv' /\ LifeInv /\ [RrNext]_rrVars => LifeInv'
  BY RrNextLife
<1>3. RrInv /\ RrInv' /\ LifeInv /\ [RrNext]_rrVars =>
        [Lifecycle!LifecycleNext]_(Lifecycle!lifecycle)
  BY RrNextLife DEF LifeStep
<1> QED  BY <1>1, <1>2, <1>3, RrInvariance, PTL DEF RrSpec, Implements, Lifecycle!LifecycleSpec
-----------------------------------------------------------------------------
(* The CPU side of the account under rr: each burst counts up to the       *)
(* quantum, the one in progress as far as it got, and remaining_time is    *)
(* what is left of the burst to come.                                      *)
Cut(p) ==
    [i \in DOMAIN process_d[p].cpu_burst |-> AtMost(process_d[p].cpu_burst[i], quantum)]

ServedNow(p) == IF sched_pc = "run" /\ p = running_pd THEN time ELSE 0

CutLedger ==
    /\ \A p \in Pids : pd[p].cpu_time = SumTo(Cut(p), pd[p].cpu_index) + ServedNow(p)
    /\ \A p \in Pids :
         p < T_PROCESS /\ pd[p].cpu_index < Len(process_d[p].cpu_burst) =>
             pd[p].remaining_time = CpuBurst(p) - ServedNow(p)
    /\ sched_pc = "run" => /\ proc_time = CpuBurst(running_pd) /\ time <= proc_time
                           /\ start_time + time <= global_counter

(* What a log line of burst k has to cover. *)
Dues == [p \in Pids |-> [k \in Nat |-> AtMost(process_d[p].cpu_burst[k], quantum)]]

CutLog == LogInv(Dues)

RrBalanced == LifeInv /\ Ledger /\ CutLedger /\ CutLog

LEMMA CutFacts ==
    ASSUME NEW CONSTANT L, SimTypeOK(L), NEW p \in Pids
    PROVE  /\ Cut(p) \in Seq(Nat) /\ Len(Cut(p)) = Len(process_d[p].cpu_burst)
           /\ \A i \in 1 .. Len(Cut(p)) : Cut(p)[i] = AtMost(process_d[p].cpu_burst[i], quantum)
           /\ \A i \in 1 .. Len(Cut(p)) : process_d[p].cpu_burst[i] \in Nat
<1> DEFINE cpu == process_d[p].cpu_burst
<1>1. cpu \in Seq(Nat) /\ Len(cpu) \in Nat /\ DOMAIN cpu = 1 .. Len(cpu)
  BY LineFacts, LenProperties
<1>2. \A i \in 1 .. Len(cpu) : cpu[i] \in Nat /\ AtMost(cpu[i], quantum) \in Nat
  BY <1>1, ElementOfSeq, QuantumAssumption DEF AtMost
<1> HIDE DEF cpu
<1>3. PICK c : c = [i \in DOMAIN cpu |-> AtMost(cpu[i], quantum)]
  OBVIOUS
<1>4. c \in [1 .. Len(cpu) -> Nat]
  BY <1>1, <1>2, <1>3
<1>5. c \in Seq(Nat) /\ Len(c) = Len(cpu)
  BY <1>1, <1>4
<1>6. \A i \in 1 .. Len(cpu) : c[i] = AtMost(cpu[i], quantum)
  BY <1>1, <1>3
<1> QED  BY <1>2, <1>3, <1>5, <1>6 DEF Cut, cpu

(* The process on the CPU, and the burst it is in.                         *)
LEMMA OnTurn ==
    ASSUME RrInv, sched_pc \in {"cpu", "run"}, sched_pc = "cpu" => ~ should_terminate(running_pd)
    PROVE  \E p \in Pids :
             /\ p = running_pd /\ p < T_PROCESS /\ p \notin Retired
             /\ pd[p] \in process_t /\ pd \in [Pids -> process_t]
             /\ pd[p].status # "TERMINATED" /\ pd[p].cpu_index \in Nat
             /\ pd[p].cpu_index < Len(process_d[p].cpu_burst)
             /\ pd[p].cpu_index + 1 \in 1 .. Len(process_d[p].cpu_burst)
             /\ CpuBurst(p) \in Nat
<1>1. SimTypeOK(RrLabels) /\ SimInv
  BY DEF RrInv, RrTypeOK, RrLabels
<1>2. PICK p \in Pids :
        /\ p = running_pd /\ pd[p] \in process_t /\ pd \in [Pids -> process_t]
        /\ pd[p].status \in {"NEW", "READY"}
  BY <1>1, RunningFacts DEF Serving
<1>3. pd[p].cpu_index < Len(process_d[p].cpu_burst)
  BY <1>1, <1>2, BurstIndices DEF BurstIndexInBounds
<1>4. p < T_PROCESS
  <2>1. OnCpu = {p}
    BY <1>1, <1>2, ServingHoldsCpu DEF Serving
  <2>2. OnCpu \subseteq 0 .. T_PROCESS - 1 /\ T_PROCESS \in Int /\ p \in Int
    BY <1>1, TotalAssumption DEF SimInv, OneOwner, SimTypeOK, Pids
  <2>3. p \in 0 .. T_PROCESS - 1
    BY <2>1, <2>2
  <2> QED  BY <2>2, <2>3
<1>5. /\ process_d[p].cpu_burst \in Seq(Nat) /\ Len(process_d[p].cpu_burst) \in Nat
      /\ pd[p].cpu_index \in Nat
  BY <1>1, LineFacts, TimesAreNat
<1>6. pd[p].cpu_index + 1 \in 1 .. Len(process_d[p].cpu_burst)
  BY <1>3, <1>5
<1>7. CpuBurst(p) \in Nat
  BY <1>5, <1>6, ElementOfSeq DEF CpuBurst
<1> QED  BY <1>2, <1>3, <1>4, <1>5, <1>6, <1>7 DEF Retired

LEMMA RrStartBalanced ==
    ASSUME RrInv, RrInv', RrBalanced, RrStart
    PROVE  Ledger' /\ CutLedger' /\ CutLog'
<1>1. SimTypeOK(RrLabels) /\ time \in Nat
  BY DEF RrInv, RrTypeOK, RrLabels
<1>2. /\ sched_pc = "cpu" /\ sched_pc' = "run" /\ ~ should_terminate(running_pd)
      /\ start_time' = global_counter /\ time' = 0
      /\ proc_time' = pd[running_pd].remaining_time
      /\ UNCHANGED <<process_d, T_PROCESS, pd, global_counter, running_pd, end_time, task_log>>
  BY DEF RrStart, SchedStep, CpuUnchanged
<1>3. PICK p \in Pids : /\ p = running_pd /\ p < T_PROCESS /\ CpuBurst(p) \in Nat
                        /\ pd[p].cpu_index < Len(process_d[p].cpu_burst)
  BY <1>2, OnTurn
<1>4. Ledger'
  BY <1>2 DEF RrBalanced, Ledger, Retired, Ended
<1>5. \A q \in Pids : /\ ServedNow(q) = 0 /\ ServedNow(q)' = 0
                      /\ Cut(q)' = Cut(q) /\ CpuBurst(q)' = CpuBurst(q)
  BY <1>2 DEF ServedNow, Cut, CpuBurst
<1>6. pd[p].remaining_time = CpuBurst(p)
  BY <1>3, <1>5 DEF RrBalanced, CutLedger
<1>7. /\ proc_time' = CpuBurst(running_pd)' /\ time' <= proc_time'
      /\ start_time' + time' <= global_counter'
  <2>1. CpuBurst(running_pd)' = CpuBurst(p)
    BY <1>2, <1>3 DEF CpuBurst
  <2>2. global_counter \in Nat
    BY <1>1 DEF SimTypeOK
  <2> QED  BY <1>2, <1>3, <1>6, <2>1, <2>2
<1>8. CutLedger'
  BY <1>2, <1>5, <1>7 DEF RrBalanced, CutLedger
<1>9. CutLog'
  <2>1. PICK due : due = Dues
    OBVIOUS
  <2>2. LogInv(due)'
    BY <1>1, <1>2, <2>1, TurnStarts DEF RrBalanced, CutLog
  <2>3. due = Dues'
    BY <1>2, <2>1 DEF Dues
  <2> QED  BY <2>2, <2>3 DEF CutLog, LogInv, TurnInv, LineInv
<1> QED  BY <1>4, <1>8, <1>9

LEMMA RrTickBalanced ==
    ASSUME RrInv, RrInv', RrBalanced, RrTick
    PROVE  Ledger' /\ CutLedger' /\ CutLog'
<1>1. SimTypeOK(RrLabels) /\ SimTypeOK(RrLabels)' /\ time \in Nat /\ proc_time \in Int
  BY DEF RrInv, RrTypeOK, RrLabels
<1>2. /\ sched_pc = "run" /\ sched_pc' = "run" /\ time < proc_time /\ time' = time + 1
      /\ SpendTick(running_pd, time)
      /\ UNCHANGED <<process_d, T_PROCESS, running_pd, start_time, end_time, task_log, proc_time>>
  BY DEF RrTick, SchedStep, CpuUnchanged, log
<1>3. PICK p \in Pids : /\ p = running_pd /\ p < T_PROCESS /\ CpuBurst(p) \in Nat
                        /\ p \notin Retired /\ pd[p].status # "TERMINATED"
                        /\ pd[p].cpu_index < Len(process_d[p].cpu_burst)
  BY <1>2, OnTurn
<1>4. /\ Charges(p, 1, 0) /\ pd'[p].status = pd[p].status
      /\ pd'[p].remaining_time = pd[p].remaining_time - 1
      /\ pd'[p].cpu_index = pd[p].cpu_index /\ pd'[p].io_index = pd[p].io_index
      /\ \A q \in Pids \ {p} : pd'[q] = pd[q]
  BY <1>1, <1>2, <1>3, TickCharges
<1>5. Ledger'
  <2>1. SumTo(process_d[p].io_burst, pd[p].io_index) \in Int
    BY <1>1, TimesAreNat DEF RrBalanced, Ledger
  <2>2. SumTo(process_d[p].io_burst, pd'[p].io_index) =
          SumTo(process_d[p].io_burst, pd[p].io_index) + 0
    BY <1>4, <2>1
  <2> QED  BY <1>1, <1>3, <1>4, <2>2, ChargesKeepLedger DEF RrBalanced
<1>6. \A q \in Pids : /\ Cut(q)' = Cut(q) /\ CpuBurst(q)' = CpuBurst(q)
                      /\ q = p => ServedNow(q) = time /\ ServedNow(q)' = time + 1
                      /\ q # p => ServedNow(q) = 0 /\ ServedNow(q)' = 0
  BY <1>2, <1>3, <1>4 DEF ServedNow, Cut, CpuBurst
<1>7. ASSUME NEW q \in Pids
      PROVE  /\ pd'[q].cpu_time = SumTo(Cut(q)', pd'[q].cpu_index) + ServedNow(q)'
             /\ q < T_PROCESS /\ pd[q].cpu_index < Len(process_d[q].cpu_burst) =>
                  pd'[q].remaining_time = CpuBurst(q)' - ServedNow(q)'
  <2>1. /\ pd[q].cpu_time = SumTo(Cut(q), pd[q].cpu_index) + ServedNow(q)
        /\ q < T_PROCESS /\ pd[q].cpu_index < Len(process_d[q].cpu_burst) =>
             pd[q].remaining_time = CpuBurst(q) - ServedNow(q)
    BY DEF RrBalanced, CutLedger
  <2>2. CASE q = p
    <3>1. SumTo(Cut(p), pd[p].cpu_index) \in Nat
      <4>1. /\ Cut(p) \in Seq(Nat) /\ Len(Cut(p)) = Len(process_d[p].cpu_burst)
            /\ Len(process_d[p].cpu_burst) \in Nat /\ pd[p].cpu_index \in Nat
        BY <1>1, CutFacts, LineFacts, TimesAreNat
      <4>2. pd[p].cpu_index \in 0 .. Len(Cut(p))
        BY <1>3, <4>1
      <4> QED  BY <4>1, <4>2, PrefixSums
    <3>2. pd'[p].cpu_time = pd[p].cpu_time + 1
      BY <1>4 DEF Charges
    <3> QED  BY <1>1, <1>3, <1>4, <1>6, <2>1, <2>2, <3>1, <3>2
  <2>3. CASE q # p
    BY <1>4, <1>6, <2>1, <2>3
  <2> QED  BY <2>2, <2>3
<1>8. /\ proc_time' = CpuBurst(running_pd)' /\ time' <= proc_time'
      /\ start_time' + time' <= global_counter'
  <2>1. CpuBurst(running_pd)' = CpuBurst(p)
    BY <1>2, <1>3, <1>4 DEF CpuBurst
  <2>2. /\ global_counter \in Nat /\ start_time \in Nat /\ global_counter' = global_counter + 1
    BY <1>1, <1>4 DEF SimTypeOK, Charges
  <2>3. proc_time = CpuBurst(p) /\ start_time + time <= global_counter
    BY <1>2, <1>3 DEF RrBalanced, CutLedger
  <2> QED  BY <1>1, <1>2, <1>3, <2>1, <2>2, <2>3
<1>9. CutLedger'
  <2>1. \A q \in Pids : pd'[q].cpu_index = pd[q].cpu_index
    BY <1>4
  <2> QED  BY <1>2, <1>7, <1>8, <2>1 DEF CutLedger
<1>10. CutLog'
  <2>1. PICK due : due = Dues
    OBVIOUS
  <2>2. \A q \in Pids : pd'[q].cpu_index = pd[q].cpu_index
    BY <1>4
  <2>3. /\ sched_pc \in InTurn /\ sched_pc' \notin Pending /\ sched_pc' # "unborn"
    BY <1>2 DEF InTurn, Pending
  <2>4. UNCHANGED log /\ global_counter <= global_counter'
    BY <1>1, <1>2, <1>4 DEF log, Charges, SimTypeOK
  <2>5. LogInv(due)
    BY <2>1 DEF RrBalanced, CutLog
  <2>6. LogInv(due)'
    BY <1>1, <1>2, <2>2, <2>3, <2>4, <2>5, LogKept
  <2>7. due = Dues'
    BY <1>2, <2>1 DEF Dues
  <2> QED  BY <2>6, <2>7 DEF CutLog, LogInv, TurnInv, LineInv
<1> QED  BY <1>5, <1>9, <1>10

(* The loop ended because the burst or the quantum was spent, so time is   *)
(* the smaller of the two.                                                 *)
LEMMA RrEndBalanced ==
    ASSUME RrInv, RrInv', RrBalanced, RrEnd
    PROVE  Ledger' /\ CutLedger' /\ CutLog'
<1>1. SimTypeOK(RrLabels) /\ SimTypeOK(RrLabels)' /\ time \in Nat /\ proc_time \in Int
  BY DEF RrInv, RrTypeOK, RrLabels
<1>2. /\ sched_pc = "run" /\ ~ (time < proc_time /\ time < quantum) /\ time <= quantum
      /\ end_time' = global_counter
      /\ UNCHANGED <<process_d, T_PROCESS, global_counter, running_pd, start_time, task_log>>
  BY DEF RrEnd, CpuUnchanged, RrInv, WithinQuantum
<1>3. PICK p \in Pids : /\ p = running_pd /\ p < T_PROCESS /\ CpuBurst(p) \in Nat
                        /\ p \notin Retired /\ pd[p].status # "TERMINATED"
                        /\ pd[p] \in process_t /\ pd \in [Pids -> process_t]
                        /\ pd[p].cpu_index < Len(process_d[p].cpu_burst)
                        /\ pd[p].cpu_index + 1 \in 1 .. Len(process_d[p].cpu_burst)
  BY <1>2, OnTurn
<1> DEFINE slept == [pd[p] EXCEPT !.cpu_index = @ + 1, !.status = "SLEEP",
                                  !.remaining_time = NextRemaining(p)]
<1>4. sched_pc' = "enqueue" /\ pd' = [pd EXCEPT ![p] = slept]
  <2>1. ~ (time > quantum)
    BY <1>1, <1>2, QuantumAssumption
  <2> QED  BY <1>3, <2>1 DEF RrEnd
<1>5. /\ slept.cpu_index = pd[p].cpu_index + 1 /\ slept.status = "SLEEP"
      /\ slept.remaining_time = NextRemaining(p)
      /\ slept.cpu_time = pd[p].cpu_time /\ slept.io_time = pd[p].io_time
      /\ slept.process_time = pd[p].process_time /\ slept.io_index = pd[p].io_index
  BY <1>3 DEF process_t
<1> HIDE DEF slept
<1>6. pd'[p] = slept /\ \A q \in Pids \ {p} : pd'[q] = pd[q]
  BY <1>3, <1>4
<1>7. Charges(p, 0, 0) /\ pd'[p].io_index = pd[p].io_index
  BY <1>1, <1>2, <1>5, <1>6, TimesAreNat DEF Charges
<1>8. Ledger'
  <2>1. SumTo(process_d[p].io_burst, pd[p].io_index) \in Int
    BY <1>1, TimesAreNat DEF RrBalanced, Ledger
  <2>2. SumTo(process_d[p].io_burst, pd'[p].io_index) =
          SumTo(process_d[p].io_burst, pd[p].io_index) + 0
    BY <1>7, <2>1
  <2>3. pd'[p].status # "TERMINATED"
    BY <1>5, <1>6
  <2> QED  BY <1>1, <1>3, <1>6, <1>7, <2>2, <2>3, ChargesKeepLedger DEF RrBalanced
<1>9. /\ proc_time = CpuBurst(p) /\ time <= proc_time /\ start_time + time <= global_counter
      /\ time = AtMost(CpuBurst(p), quantum)
  <2>1. proc_time = CpuBurst(p) /\ time <= proc_time /\ start_time + time <= global_counter
    BY <1>2, <1>3 DEF RrBalanced, CutLedger
  <2>2. time = AtMost(proc_time, quantum)
    BY <1>1, <1>2, <2>1, QuantumAssumption DEF AtMost
  <2> QED  BY <2>1, <2>2
<1>10. \A q \in Pids : /\ Cut(q)' = Cut(q) /\ ServedNow(q)' = 0
                       /\ q = p => ServedNow(q) = time
                       /\ q # p => ServedNow(q) = 0 /\ CpuBurst(q)' = CpuBurst(q)
  BY <1>2, <1>3, <1>4, <1>6 DEF ServedNow, Cut, CpuBurst
<1>11. pd'[p].cpu_time = SumTo(Cut(p), pd'[p].cpu_index)
  <2> DEFINE c == Cut(p)
             n == pd[p].cpu_index
  <2>1. c \in Seq(Nat) /\ Len(c) \in Nat /\ n \in Nat /\ n + 1 \in 1 .. Len(c)
    BY <1>1, <1>3, CutFacts, LineFacts, TimesAreNat
  <2>2. c[n + 1] = time
    <3>1. c[n + 1] = AtMost(process_d[p].cpu_burst[n + 1], quantum)
      BY <1>1, <2>1, CutFacts
    <3> QED  BY <1>9, <3>1 DEF CpuBurst
  <2>3. pd[p].cpu_time = SumTo(c, n) + time
    BY <1>10 DEF RrBalanced, CutLedger
  <2> HIDE DEF c, n
  <2>4. n \in 0 .. Len(c) /\ n < Len(c)
    BY <2>1
  <2>5. SumTo(c, n + 1) = SumTo(c, n) + c[n + 1]
    BY <2>1, <2>4, PrefixSums
  <2>6. pd[p].cpu_time = SumTo(c, n + 1)
    BY <2>2, <2>3, <2>5
  <2> QED  BY <1>5, <1>6, <2>6 DEF c, n
<1>12. pd'[p].cpu_index < Len(process_d[p].cpu_burst) => pd'[p].remaining_time = CpuBurst(p)'
  BY <1>2, <1>5, <1>6 DEF NextRemaining, CpuBurst
<1>13. CutLedger'
  <2>1. ASSUME NEW q \in Pids
        PROVE  /\ pd'[q].cpu_time = SumTo(Cut(q)', pd'[q].cpu_index) + ServedNow(q)'
               /\ q < T_PROCESS /\ pd'[q].cpu_index < Len(process_d[q].cpu_burst) =>
                    pd'[q].remaining_time = CpuBurst(q)' - ServedNow(q)'
    <3>1. CASE q = p
      <4>1. pd'[p].cpu_time \in Nat
        BY <1>1, TimesAreNat, <1>5, <1>6
      <4>2. SumTo(Cut(p)', pd'[p].cpu_index) + 0 = pd'[p].cpu_time
        BY <1>10, <1>11, <4>1
      <4>3. pd'[p].cpu_index < Len(process_d[p].cpu_burst) => CpuBurst(p)' - 0 = CpuBurst(p)'
        <5> SUFFICES ASSUME pd'[p].cpu_index < Len(process_d[p].cpu_burst)
                     PROVE  CpuBurst(p)' \in Int
          OBVIOUS
        <5>1. NextRemaining(p) \in Int
          BY <1>1, NextRemainingIsInt
        <5> QED  BY <1>5, <1>6, <1>12, <5>1
      <4> QED  BY <1>10, <1>12, <3>1, <4>2, <4>3
    <3>2. CASE q # p
      BY <1>6, <1>10, <3>2 DEF RrBalanced, CutLedger
    <3> QED  BY <3>1, <3>2
  <2> QED  BY <1>2, <1>4, <2>1 DEF CutLedger
<1>14. CutLog'
  <2>1. PICK due : due = Dues
    OBVIOUS
  <2>2. LogInv(due) /\ sched_pc \in InTurn
    BY <1>2, <2>1 DEF RrBalanced, CutLog, InTurn
  <2>3. global_counter - start_time >= due[p][pd[p].cpu_index + 1]
    <3>1. due[p][pd[p].cpu_index + 1] = time
      <4>1. pd[p].cpu_index + 1 \in Nat
        BY <1>1, TimesAreNat
      <4>2. Dues[p][pd[p].cpu_index + 1] = AtMost(CpuBurst(p), quantum)
        BY <1>3, <4>1 DEF Dues, CpuBurst
      <4> QED  BY <1>9, <2>1, <4>2
    <3>2. global_counter \in Nat /\ start_time \in Nat
      BY <1>1 DEF SimTypeOK
    <3> QED  BY <1>1, <1>9, <3>1, <3>2
  <2>4. LogInv(due)'
    BY <1>1, <1>2, <1>3, <1>4, <1>5, <1>6, <2>2, <2>3, TurnEnds
  <2>5. due = Dues'
    BY <1>2, <2>1 DEF Dues
  <2> QED  BY <2>4, <2>5 DEF CutLog, LogInv, TurnInv, LineInv
<1> QED  BY <1>8, <1>13, <1>14

(* The other threads, and the scheduler outside its burst.                 *)
LEMMA SharedKeepsTurn ==
    ASSUME RrInv,
           \/ main \/ add_arrival \/ dispatch \/ wakeUp \/ UNCHANGED vars
           \/ CpuFinished \/ CpuRetire \/ CpuEnqueue \/ CpuPost \/ CpuLog
    PROVE  /\ sched_pc' = "run" <=> sched_pc = "run"
           /\ sched_pc = "run" =>
                UNCHANGED <<running_pd, start_time>> /\ global_counter <= global_counter'
<1>1. SimTypeOK(RrLabels) /\ SimInv
  BY DEF RrInv, RrTypeOK, RrLabels
<1>2. sched_pc' = "run" => sched_pc = "run"
  BY EntersNoTurn
<1>3. sched_pc = "run" => sched_pc' = "run" /\ running_pd' = running_pd
  <2>1. CASE main
    BY <1>1, <2>1 DEF main, CreateScheduler, CreateWakeup, JoinWakeup, JoinScheduler,
                      write_result, MainStep, SimInv, ThreadsStarted
  <2>2. CASE add_arrival
    BY <2>2 DEF add_arrival, ArrivalAdmit, ArrivalTick
  <2>3. CASE dispatch
    BY <2>3 DEF dispatch, SchedCheck, SchedDoneCounter, SchedDoneReady, SchedDoneWait,
                SchedTryWait, SchedRemove, SchedStep
  <2>4. CASE wakeUp
    BY <2>4 DEF wakeUp, WakeCheck, WakeTryWait, WakeRemove, IoFinished, IoRetire, IoBurstDone,
                IoEnqueue, IoPost, WakeUnchanged
  <2>5. CASE CpuFinished \/ CpuRetire \/ CpuEnqueue \/ CpuPost \/ CpuLog
    BY <2>5 DEF CpuFinished, CpuRetire, CpuEnqueue, CpuPost, CpuLog, SchedStep
  <2>6. CASE UNCHANGED vars
    BY <2>6 DEF vars
  <2> QED  BY <2>1, <2>2, <2>3, <2>4, <2>5, <2>6
<1>4. sched_pc = "run" => start_time' = start_time /\ global_counter <= global_counter'
  <2>1. CASE CpuLog
    BY <2>1 DEF CpuLog, SchedStep
  <2>2. CASE ~ CpuLog
    BY <1>1, <2>2, SharedSparesLog DEF log
  <2> QED  BY <2>1, <2>2
<1> QED  BY <1>2, <1>3, <1>4

LEMMA RrSharedBalanced ==
    ASSUME RrInv, RrInv', RrBalanced, UNCHANGED slice,
           \/ main \/ add_arrival \/ dispatch \/ wakeUp \/ UNCHANGED vars
           \/ CpuFinished \/ CpuRetire \/ CpuEnqueue \/ CpuPost \/ CpuLog
    PROVE  Ledger' /\ CutLedger' /\ CutLog'
<1>1. /\ SimTypeOK(RrLabels) /\ SimInv /\ SimTypeOK(RrLabels)' /\ time \in Nat
      /\ time' = time /\ proc_time' = proc_time
  BY DEF RrInv, RrTypeOK, RrLabels, slice
<1>2. Ledger'
  BY <1>1, SharedKeepsLedger DEF RrBalanced
<1>3. /\ process_d' = process_d
      /\ \A p \in Pids :
           \/ /\ pd'[p].cpu_time = pd[p].cpu_time /\ pd'[p].cpu_index = pd[p].cpu_index
              /\ pd'[p].remaining_time = pd[p].remaining_time
           \/ /\ pd'[p].cpu_time = 0 /\ pd'[p].cpu_index = 0
              /\ sched_pc = "unborn" /\ sched_pc' = "unborn" /\ ArrivalAdmit /\ p = T_PROCESS
  BY <1>1, SharedSparesCpu
<1>4. /\ sched_pc' = "run" <=> sched_pc = "run"
      /\ sched_pc = "run" =>
           UNCHANGED <<running_pd, start_time>> /\ global_counter <= global_counter'
  BY SharedKeepsTurn
<1>5. \A p \in Pids : ServedNow(p)' = ServedNow(p) /\ Cut(p)' = Cut(p)
  BY <1>1, <1>3, <1>4 DEF ServedNow, Cut
<1>6. ASSUME NEW p \in Pids
      PROVE  pd'[p].cpu_time = SumTo(Cut(p)', pd'[p].cpu_index) + ServedNow(p)'
  <2>1. CASE pd'[p].cpu_time = pd[p].cpu_time /\ pd'[p].cpu_index = pd[p].cpu_index
    BY <1>5, <2>1 DEF RrBalanced, CutLedger
  <2>2. CASE pd'[p].cpu_time = 0 /\ pd'[p].cpu_index = 0 /\ sched_pc' = "unborn"
    <3>1. SumTo(Cut(p), 0) = 0
      BY <1>1, CutFacts, LineFacts, PrefixSums
    <3>2. ServedNow(p)' = 0
      BY <2>2 DEF ServedNow
    <3> QED  BY <1>5, <2>2, <3>1, <3>2
  <2> QED  BY <1>3, <2>1, <2>2
<1>7. ASSUME NEW p \in Pids, p < T_PROCESS', pd'[p].cpu_index < Len(process_d[p].cpu_burst)
      PROVE  pd'[p].remaining_time = CpuBurst(p)' - ServedNow(p)'
  <2>1. CASE ArrivalAdmit /\ p = T_PROCESS
    <3>1. /\ pd'[p].cpu_index = 0 /\ pd'[p].remaining_time \in FirstBurst(process_d[p])
      BY <1>1, <2>1, AdmittedAnew, RrAssumption
    <3>2. process_d[p].cpu_burst # <<>>
      BY <1>7, <3>1
    <3>3. pd'[p].remaining_time = process_d[p].cpu_burst[1]
      BY <3>1, <3>2 DEF FirstBurst
    <3>4. CpuBurst(p)' = process_d[p].cpu_burst[1]
      BY <1>3, <3>1 DEF CpuBurst
    <3>5. ServedNow(p)' = 0
      BY <1>1, <1>4, <2>1 DEF ArrivalAdmit, SimInv, ThreadsStarted, ServedNow
    <3>6. process_d[p].cpu_burst[1] \in Nat
      <4>1. /\ process_d[p].cpu_burst \in Seq(Nat) /\ Len(process_d[p].cpu_burst) \in Nat
        BY <1>1, LineFacts
      <4>2. 1 \in 1 .. Len(process_d[p].cpu_burst)
        BY <1>7, <3>1, <4>1
      <4> QED  BY <4>1, <4>2, ElementOfSeq
    <3> QED  BY <3>3, <3>4, <3>5, <3>6
  <2>2. CASE ~ (ArrivalAdmit /\ p = T_PROCESS)
    <3>1. pd'[p].cpu_index = pd[p].cpu_index /\ pd'[p].remaining_time = pd[p].remaining_time
      BY <1>3, <2>2
    <3>2. p < T_PROCESS
      <4>1. CASE ArrivalAdmit
        <5>1. T_PROCESS' = T_PROCESS + 1 /\ p # T_PROCESS
          BY <2>2, <4>1 DEF ArrivalAdmit
        <5>2. p \in Int /\ T_PROCESS \in Int
          BY <1>1, TotalAssumption DEF SimTypeOK, Pids
        <5> QED  BY <1>7, <5>1, <5>2
      <4>2. CASE ~ ArrivalAdmit
        BY <1>7, <4>2, SharedAdmits
      <4> QED  BY <4>1, <4>2
    <3>3. CpuBurst(p)' = CpuBurst(p)
      BY <1>3, <3>1 DEF CpuBurst
    <3> QED  BY <1>3, <1>5, <1>7, <3>1, <3>2, <3>3 DEF RrBalanced, CutLedger
  <2> QED  BY <2>1, <2>2
<1>8. ASSUME sched_pc' = "run"
      PROVE  /\ proc_time' = CpuBurst(running_pd)' /\ time' <= proc_time'
             /\ start_time' + time' <= global_counter'
  <2>1. /\ sched_pc = "run" /\ UNCHANGED <<running_pd, start_time>>
        /\ global_counter <= global_counter'
    BY <1>4, <1>8
  <2>2. running_pd \in Pids
    BY <2>1, OnTurn
  <2>3. CpuBurst(running_pd)' = CpuBurst(running_pd)
    BY <1>3, <2>1, <2>2 DEF CpuBurst
  <2>4. /\ global_counter \in Nat /\ global_counter' \in Nat /\ start_time \in Nat
    BY <1>1 DEF SimTypeOK
  <2> QED  BY <1>1, <2>1, <2>3, <2>4 DEF RrBalanced, CutLedger
<1>9. CutLedger'
  BY <1>3, <1>6, <1>7, <1>8 DEF CutLedger
<1>10. CutLog'
  <2>1. PICK due : due = Dues
    OBVIOUS
  <2>2. LogInv(due)
    BY <2>1 DEF RrBalanced, CutLog
  <2>3. LogInv(due)'
    BY <1>1, <2>2, SharedKeepsLog
  <2>4. due = Dues'
    BY <1>3, <2>1 DEF Dues
  <2> QED  BY <2>3, <2>4 DEF CutLog, LogInv, TurnInv, LineInv
<1> QED  BY <1>2, <1>9, <1>10

LEMMA RrNextBalanced ==
    ASSUME RrInv, RrInv', RrBalanced, [RrNext]_rrVars
    PROVE  RrBalanced'
<1>1. LifeInv'
  BY RrNextLife DEF RrBalanced
<1>2. CASE RrStart \/ RrTick \/ RrEnd
  BY <1>1, <1>2, RrStartBalanced, RrTickBalanced, RrEndBalanced DEF RrBalanced
<1>3. CASE ~ (RrStart \/ RrTick \/ RrEnd)
  <2>1. Ledger' /\ CutLedger' /\ CutLog'
    BY <1>3, RrSharedBalanced
       DEF RrNext, rrVars, main_rr, add_arrival_process_rr, schedular_rr, process_cpu_rr,
           wakeUp_rr, Slice
  <2> QED  BY <1>1, <2>1 DEF RrBalanced
<1> QED  BY <1>2, <1>3

LEMMA RrInitBalanced ==
    ASSUME RrInit, RrInv
    PROVE  RrBalanced
<1>1. SimTypeOK(RrLabels)
  BY DEF RrInv, RrTypeOK, RrLabels
<1>2. /\ sched_pc = "unborn" /\ T_PROCESS = 0
      /\ \A p \in Pids : pd[p].cpu_index = 0 /\ pd[p].cpu_time = 0
  BY DEF RrInit, Init, create_process
<1>3. \A p \in Pids : SumTo(Cut(p), 0) = 0 /\ ServedNow(p) = 0
  <2>1. \A p \in Pids : SumTo(Cut(p), 0) = 0
    BY <1>1, CutFacts, LineFacts, PrefixSums
  <2> QED  BY <1>2, <2>1 DEF ServedNow
<1>4. CutLedger
  BY <1>2, <1>3 DEF CutLedger, Pids
<1>5. LifeInv /\ Ledger /\ CutLog
  BY InitLife, InitLedger, InitLog DEF RrInit, CutLog
<1> QED  BY <1>4, <1>5 DEF RrBalanced

LEMMA RrBalancedAlways == RrSpec => []RrBalanced
<1>1. RrInit /\ RrInv => RrBalanced
  BY RrInitBalanced
<1>2. RrInv /\ RrInv' /\ RrBalanced /\ [RrNext]_rrVars => RrBalanced'
  BY RrNextBalanced
<1> QED  BY <1>1, <1>2, RrInvariance, PTL DEF RrSpec

(* Who retires under rr has had each of its bursts once: the CPU bursts    *)
(* cut at the quantum and never shorter, the I/O bursts in full.           *)
THEOREM RrBurstsCut == RrSpec => []BurstsCutAtQuantum
<1>1. ASSUME RrInv, RrBalanced
      PROVE  BurstsCutAtQuantum
  <2>1. SimTypeOK(RrLabels) /\ SimInv
    BY <1>1 DEF RrInv, RrTypeOK, RrLabels
  <2> SUFFICES ASSUME NEW p \in Retired
               PROVE  /\ pd[p].cpu_time = SumFunction(Cut(p))
                      /\ pd[p].io_time = SumFunction(process_d[p].io_burst)
    BY DEF BurstsCutAtQuantum, Cut
  <2>2. p \in Pids /\ Ended(p)
    BY <1>1 DEF RrBalanced, Ledger, Retired
  <2>3. ServedNow(p) = 0
    <3>1. sched_pc = "run" => p # running_pd
      BY <1>1, OnTurn
    <3> QED  BY <3>1 DEF ServedNow
  <2>4. /\ Cut(p) \in Seq(Nat) /\ Len(Cut(p)) = Len(process_d[p].cpu_burst)
        /\ process_d[p].io_burst \in Seq(Nat) /\ Len(process_d[p].cpu_burst) \in Nat
    BY <2>1, <2>2, CutFacts, LineFacts
  <2>5. DOMAIN Cut(p) = 1 .. Len(Cut(p))
        /\ DOMAIN process_d[p].io_burst = 1 .. Len(process_d[p].io_burst)
    BY <2>4, LenProperties
  <2>6. pd[p].cpu_time = SumTo(Cut(p), Len(Cut(p)))
    <3>1. pd[p].cpu_time = SumTo(Cut(p), Len(Cut(p))) + 0
      BY <1>1, <2>2, <2>3, <2>4 DEF RrBalanced, CutLedger, Ended
    <3>2. SumTo(Cut(p), Len(Cut(p))) \in Nat
      <4>1. Len(Cut(p)) \in 0 .. Len(Cut(p))
        BY <2>4
      <4> QED  BY <2>4, <4>1, PrefixSums
    <3> QED  BY <3>1, <3>2
  <2>7. pd[p].io_time = SumTo(process_d[p].io_burst, Len(process_d[p].io_burst))
    BY <1>1, <2>2 DEF RrBalanced, Ledger, Ended
  <2> QED  BY <2>5, <2>6, <2>7 DEF SumTo, SumFunction
<1> QED  BY <1>1, RrInvariance, RrBalancedAlways, PTL

(* The log of rr is one timeline: its lines follow each other, cover what  *)
(* the quantum leaves of their bursts and repeat none.                     *)
THEOREM RrLogCorrect == RrSpec => []RrLogTimeline
<1>1. ASSUME RrInv, RrBalanced
      PROVE  RrLogTimeline
  <2>1. SimTypeOK(RrLabels)
    BY <1>1 DEF RrInv, RrTypeOK, RrLabels
  <2>2. LinesOrdered
    BY <1>1 DEF RrBalanced, CutLog, LogInv
  <2>3. ASSUME NEW k \in 1 .. Len(task_log)
        PROVE  LET line == task_log[k]
               IN  line.end - line.start
                     >= AtMost(process_d[line.pid].cpu_burst[line.cpu_index], quantum)
    <3>1. task_log[k].pid \in Pids /\ task_log[k].cpu_index \in Nat
      BY <2>1, LogLines
    <3>2. task_log[k].end - task_log[k].start
            >= Dues[task_log[k].pid][task_log[k].cpu_index]
      BY <1>1 DEF RrBalanced, CutLog, LogInv, LineInv
    <3> QED  BY <3>1, <3>2 DEF Dues
  <2> QED  BY <2>2, <2>3 DEF LinesOrdered, RrLogTimeline, Timeline
<1> QED  BY <1>1, RrInvariance, RrBalancedAlways, PTL
-----------------------------------------------------------------------------
(* The order.  Cut off or not, a turn is one burst: nobody's turn changes. *)
LEMMA RrServingKeepsTurns ==
    ASSUME RrInv, TurnsInv, RrStart \/ RrTick \/ RrEnd
    PROVE  TurnsInv'
<1>1. SimTypeOK(RrLabels) /\ SimInv
  BY DEF RrInv, RrTypeOK, RrLabels
<1>2. /\ sched_pc \in Serving
      /\ UNCHANGED <<queues, running_pd, sleeping_pd, wake_pc, main_pc>>
  BY DEF RrStart, RrTick, RrEnd, SchedStep, CpuUnchanged, Serving
<1>3. OnCpu = {running_pd} /\ OnCpu' \subseteq OnCpu
  <2>1. OnCpu = {running_pd}
    BY <1>2, ServingHoldsCpu
  <2> QED  BY <1>2, <2>1 DEF OnCpu
<1>4. PICK p \in Pids : p = running_pd /\ pd[p] \in process_t /\ pd \in [Pids -> process_t]
  BY <1>1, <1>3, PlacesApart DEF SimTypeOK
<1>5. PICK served :
        /\ pd' = [pd EXCEPT ![p] = served]
        /\ served.priority = pd[p].priority /\ served.io_index = pd[p].io_index
  <2>1. CASE pd' = pd
    <3>1. pd' = [pd EXCEPT ![p] = pd[p]]
      BY <1>4, <2>1
    <3> QED  BY <3>1
  <2>2. CASE RrTick
    <3> DEFINE ticked == [pd[p] EXCEPT !.cpu_time = @ + 1, !.process_time = @ + 1,
                                       !.remaining_time = @ - 1]
    <3>1. pd' = [pd EXCEPT ![p] = ticked]
      BY <1>4, <2>2 DEF RrTick, SpendTick, Spent
    <3>2. ticked.priority = pd[p].priority /\ ticked.io_index = pd[p].io_index
      BY <1>4 DEF process_t
    <3> HIDE DEF ticked
    <3> QED  BY <3>1, <3>2
  <2>3. CASE RrEnd /\ pd' # pd
    <3> DEFINE next == NextRemaining(p)
               slept == [pd[p] EXCEPT !.cpu_index = @ + 1, !.status = "SLEEP",
                                      !.remaining_time = next]
    <3>1. pd' = [pd EXCEPT ![p] = slept]
      BY <1>4, <2>3 DEF RrEnd
    <3>2. slept.priority = pd[p].priority /\ slept.io_index = pd[p].io_index
      <4> HIDE DEF next
      <4> QED  BY <1>4 DEF process_t
    <3> HIDE DEF slept
    <3> QED  BY <3>1, <3>2
  <2> QED  BY <2>1, <2>2, <2>3 DEF RrStart
<1>6. \A q \in Pids : /\ pd'[q].priority = pd[q].priority
                      /\ pd'[q].io_index = pd[q].io_index
                      /\ q \notin OnCpu => pd'[q] = pd[q]
  BY <1>3, <1>4, <1>5
<1> QED  BY <1>1, <1>2, <1>3, <1>6, ServingKeepsTurns

(* Under rr all processes take turns in arrival order: none is passed by a *)
(* whole burst, whatever the quantum leaves of it.                         *)
THEOREM RrOrderKept == RrSpec => []NoOvertaking
<1>1. RrInit => TurnsInv
  BY InitTurns DEF RrInit
<1>2. RrInv /\ TurnsInv /\ [RrNext]_rrVars => TurnsInv'
  <2> SUFFICES ASSUME RrInv, TurnsInv, [RrNext]_rrVars PROVE TurnsInv'
    OBVIOUS
  <2>1. CASE RrStart \/ RrTick \/ RrEnd
    BY <2>1, RrServingKeepsTurns
  <2>2. CASE ~ (RrStart \/ RrTick \/ RrEnd)
    BY <2>2, SharedKeepsTurns
       DEF RrInv, RrTypeOK, RrNext, rrVars, main_rr, add_arrival_process_rr, schedular_rr,
           process_cpu_rr, wakeUp_rr, Slice
  <2> QED  BY <2>1, <2>2
<1>3. RrInv /\ TurnsInv => NoOvertaking
  BY TurnsDoNotOvertake DEF RrInv, RrTypeOK
<1> QED  BY <1>1, <1>2, <1>3, RrInvariance, PTL DEF RrSpec
=============================================================================
