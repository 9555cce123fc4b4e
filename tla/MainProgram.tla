----------------------------- MODULE MainProgram -----------------------------
(***************************************************************************)
(* main (main.c) from its arguments to its result: it opens the log, has   *)
(* the burst file read (BurstFile), chooses the scheduler, runs the        *)
(* threads and has the result written (Metrics).  The threads are what     *)
(* Simulator models; here only what they leave behind is: the time each    *)
(* process was served, by wall clock and by its turnaround time.           *)
(***************************************************************************)
EXTENDS BurstFile, Metrics

CONSTANTS
    Names,              (* what the scheduler argument may be              *)
    Turnarounds         (* what rr and srtf may leave as a turnaround time *)

ASSUME TurnaroundsAssumption == Turnarounds \subseteq Nat

VARIABLES
    argv,               (* the arguments, without the program's name       *)
    task_log,           (* the log file: of an earlier run, or emptied     *)
    main_pc

mainVars == <<argv, task_log, main_pc>>
programVars == <<mainVars, fileVars, metricsVars>>

(* The second argument is the name of the file, or of none. *)
MainInit ==
    /\ Init /\ MetricsInit
    /\ argv \in {<<>>, <<"fcfs">>} \cup (Names \X {"file", "none"})
    /\ task_log = "earlier"
    /\ main_pc = "arguments"
-----------------------------------------------------------------------------
Goto(from, to) == main_pc = from /\ main_pc' = to
MainOnly == UNCHANGED <<argv, fileVars, metricsVars>>

Usage == Goto("arguments", "failed") /\ Len(argv) # 2 /\ UNCHANGED task_log /\ MainOnly

(* The log is emptied before anything else is looked at; it may be one     *)
(* that cannot be opened.                                                  *)
OpenLog ==
    /\ Len(argv) = 2
    /\ \/ Goto("arguments", "open_file") /\ task_log' = "header"
       \/ Goto("arguments", "failed") /\ UNCHANGED task_log
    /\ MainOnly

OpenFile ==
    /\ \/ Goto("open_file", "read") /\ argv[2] = "file"
       \/ Goto("open_file", "failed") /\ argv[2] # "file"
    /\ UNCHANGED task_log /\ MainOnly

(* The reader's own steps. *)
read_burstfile == main_pc = "read" /\ Next /\ UNCHANGED <<mainVars, metricsVars>>

(* The sum of the bursts of line j, which fcfs and sjf leave as turnaround *)
(* time (ReportComplete).                                                  *)
Served(j) == SumFunction(b_data[j].cpu_burst) + SumFunction(b_data[j].io_burst)

(* What follows the reader: TOTAL_PROCESS is set and the scheduler looked  *)
(* up by its name.                                                         *)
init_scheduler ==
    /\ pc = "done"
    /\ \/ /\ Goto("read", "threads") /\ argv[1] \in {"fcfs", "sjf"}
          /\ Create(t_process, [j \in 1 .. t_process |-> Served(j)])
       \/ /\ Goto("read", "threads") /\ argv[1] \in {"rr", "srtf"}
          /\ \E left \in [1 .. t_process -> Turnarounds] : Create(t_process, left)
       \/ /\ Goto("read", "failed") /\ argv[1] \notin {"fcfs", "sjf", "rr", "srtf"}
          /\ UNCHANGED metricsVars
    /\ UNCHANGED <<argv, task_log, fileVars>>

(* The arrival thread reads the last line first: without processes that is *)
(* in front of the array.                                                  *)
ArrivalCrash ==
    /\ Goto("threads", "crash") /\ t_process = 0
    /\ UNCHANGED task_log /\ MainOnly

Serve == main_pc = "threads" /\ serve /\ UNCHANGED <<mainVars, fileVars>>

(* All threads have been joined. *)
WriteResult == main_pc = "threads" /\ write_result /\ UNCHANGED <<mainVars, fileVars>>

MainReturn ==
    /\ Goto("threads", "done") /\ report_pc = "printed"
    /\ UNCHANGED task_log /\ MainOnly

MainNext ==
    \/ Usage \/ OpenLog \/ OpenFile \/ read_burstfile \/ init_scheduler
    \/ ArrivalCrash \/ Serve \/ WriteResult \/ MainReturn

(* The program runs; the threads end (ProgramExits), so main gets there.   *)
MainSpec == MainInit /\ [][MainNext]_programVars /\ WF_programVars(MainNext)
-----------------------------------------------------------------------------
(* What becomes of a run: the result is printed, or main has refused its   *)
(* arguments, or the program crashed, which it does only on a file with    *)
(* too few lines or with more reads to it than str has lines; the reader's *)
(* loops end on every file.                                                *)
Crashed == "crash" \in {main_pc, pc, report_pc}
TooShort == eof /\ t_process <= 0
TooLong == ~ eof /\ Len(str) = StrLines /\ unread # <<>>
MainEnds == <>(main_pc \in {"done", "failed"} \/ (Crashed /\ (TooShort \/ TooLong)))
=============================================================================
