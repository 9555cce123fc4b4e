------------------------------ MODULE Metrics -------------------------------
(***************************************************************************)
(* The numbers printed at the end: the wall-clock time each process        *)
(* gathers while the scheduler thread serves it (_process_cpu of fcfs, sjf *)
(* and rr, src/time_t.c) and what write_result (src/result.c) makes of the *)
(* task list.  A timespec is seconds and nanoseconds.  srtf's recursion    *)
(* reads the same timer several times and is left out.                     *)
(***************************************************************************)
EXTENDS Integers, Sequences, Functions

CONSTANTS
    Second,             (* nanoseconds in a second, 1000000000 in the code *)
    Readings,           (* what clock_gettime may return                   *)
    Turns               (* bound: CPU bursts served in all                 *)

ASSUME SecondAssumption == Second \in Nat \ {0}
ASSUME TurnsAssumption == Turns \in Nat

timespec == [tv_sec : Int, tv_nsec : 0 .. Second - 1]
zero == [tv_sec |-> 0, tv_nsec |-> 0]

ASSUME ReadingAssumption == Readings \subseteq timespec

VARIABLES
    TOTAL_PROCESS,
    wall_time,          (* of the process of each node of the task list     *)
    turnaround_time,    (* likewise                                         *)
    elapsed,            (* for reference: nanoseconds it has been served    *)
    turns,              (* CPU bursts served so far                         *)
    served_pd, start,   (* the process being served, and wall_timer->start  *)
    tnode, ts, t_avg, t_max,
    report_pc

processes == <<TOTAL_PROCESS, turnaround_time>>
timers == <<wall_time, elapsed, turns, served_pd, start>>
totals == <<ts, t_avg, t_max>>
metricsVars == <<processes, timers, tnode, totals, report_pc>>

Nodes == 1 .. TOTAL_PROCESS         (* the task list, in order *)

MetricsInit ==
    /\ TOTAL_PROCESS = 0
    /\ wall_time = <<>> /\ turnaround_time = <<>> /\ elapsed = <<>>
    /\ turns = 0
    /\ served_pd = 0 /\ start = zero
    /\ tnode = 0 /\ ts = zero /\ t_avg = 0 /\ t_max = 0
    /\ report_pc = "schedule"

(* As many processes as the file has lines, with the turnaround times the  *)
(* threads will leave in them.                                             *)
Create(count, turnarounds) ==
    /\ TOTAL_PROCESS' = count
    /\ turnaround_time' = turnarounds
    /\ wall_time' = [n \in 1 .. count |-> zero]
    /\ elapsed' = [n \in 1 .. count |-> 0]
    /\ UNCHANGED <<turns, served_pd, start, tnode, totals, report_pc>>
-----------------------------------------------------------------------------
(* Fault: the nanoseconds do not borrow from the seconds. *)
diff_no_borrow(from, to) ==
    [tv_sec |-> to.tv_sec - from.tv_sec,
     tv_nsec |-> IF to.tv_nsec < from.tv_nsec
                 THEN to.tv_nsec - from.tv_nsec + Second ELSE to.tv_nsec - from.tv_nsec]

diff_timespec(from, to) ==
    LET sec == to.tv_sec - from.tv_sec
        nsec == to.tv_nsec - from.tv_nsec
    IN  IF nsec < 0 THEN [tv_sec |-> sec - 1, tv_nsec |-> nsec + Second]
                    ELSE [tv_sec |-> sec, tv_nsec |-> nsec]

timespec_add(t1, t2) ==
    LET sec == t1.tv_sec + t2.tv_sec
        nsec == t1.tv_nsec + t2.tv_nsec
    IN  IF nsec >= Second THEN [tv_sec |-> sec + 1, tv_nsec |-> nsec - Second]
                          ELSE [tv_sec |-> sec, tv_nsec |-> nsec]

Nanoseconds(t) == t.tv_sec * Second + t.tv_nsec
-----------------------------------------------------------------------------
(* A CPU burst of the process of node n begins.  The clock is the wall     *)
(* clock (CLOCK_REALTIME), which may be set back at any time.              *)
StartTimer(n, now) ==
    /\ report_pc = "schedule" /\ turns < Turns
    /\ served_pd' = n
    /\ start' = now
    /\ report_pc' = "serve"
    /\ UNCHANGED <<processes, wall_time, elapsed, turns, tnode, totals>>

EndTimer(now) ==
    /\ report_pc = "serve"
    /\ wall_time' = [wall_time EXCEPT ![served_pd] = timespec_add(@, diff_timespec(start, now))]
    /\ elapsed' = [elapsed EXCEPT ![served_pd] = @ + Nanoseconds(now) - Nanoseconds(start)]
    /\ turns' = turns + 1
    /\ report_pc' = "schedule"
    /\ UNCHANGED <<processes, served_pd, start, tnode, totals>>

(* main joins the threads and calls write_result, which reads              *)
(* front->next first: of an empty task list that is a read through NULL.   *)
CallWriteResult ==
    /\ report_pc = "schedule"
    /\ \/ TOTAL_PROCESS > 0 /\ tnode' = 1 /\ report_pc' = "traverse"
       \/ TOTAL_PROCESS = 0 /\ report_pc' = "crash" /\ UNCHANGED tnode
    /\ UNCHANGED <<processes, timers, totals>>

(* The body of the loop, for a node that has a next one. *)
TraverseBody ==
    /\ report_pc = "traverse" /\ tnode < TOTAL_PROCESS
    /\ ts' = timespec_add(ts, wall_time[tnode])
    /\ t_avg' = t_avg + turnaround_time[tnode]
    /\ t_max' = IF turnaround_time[tnode] > t_max THEN turnaround_time[tnode] ELSE t_max
    /\ tnode' = tnode + 1
    /\ UNCHANGED <<processes, timers, report_pc>>

(* Fault: the last node is left out of the average and the maximum too. *)
LastNodeSkipped ==
    /\ report_pc = "traverse" /\ tnode = TOTAL_PROCESS
    /\ t_avg' = t_avg \div TOTAL_PROCESS
    /\ report_pc' = "printed"
    /\ UNCHANGED <<processes, timers, tnode, ts, t_max>>

(* The last node, the division and the print. *)
LastNode ==
    /\ report_pc = "traverse" /\ tnode = TOTAL_PROCESS
    /\ t_avg' = (t_avg + turnaround_time[tnode]) \div TOTAL_PROCESS
    /\ t_max' = IF turnaround_time[tnode] > t_max THEN turnaround_time[tnode] ELSE t_max
    /\ report_pc' = "printed"
    /\ UNCHANGED <<processes, timers, tnode, ts>>

serve ==
    \/ \E n \in Nodes, now \in Readings : StartTimer(n, now)
    \/ \E now \in Readings : EndTimer(now)

write_result == CallWriteResult \/ TraverseBody \/ LastNode
-----------------------------------------------------------------------------
(* The wall time of a process is exactly the time it was served, over any  *)
(* number of bursts and clocks set back: no second is lost to a borrow or  *)
(* a carry, and the nanoseconds stay below a second.                       *)
WallTimeExact ==
    \A n \in Nodes : wall_time[n] \in timespec /\ Nanoseconds(wall_time[n]) = elapsed[n]

(* What is printed: the mean of all turnaround times, rounded down; the    *)
(* greatest of them, the last one's included; and the wall time of all     *)
(* processes but the last, which the loop leaves out.                      *)
PrintedResult ==
    report_pc = "printed" =>
        LET total == SumFunction(turnaround_time)
        IN  /\ t_avg * TOTAL_PROCESS <= total /\ total < (t_avg + 1) * TOTAL_PROCESS
            /\ \A n \in Nodes : turnaround_time[n] <= t_max
            /\ \E n \in Nodes : turnaround_time[n] = t_max
            /\ Nanoseconds(ts) = SumFunction([n \in 1 .. TOTAL_PROCESS - 1 |-> elapsed[n]])
=============================================================================
