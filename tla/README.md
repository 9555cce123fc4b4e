# CPU scheduler simulator: models, checks and proofs

This directory is a verification development of the multithreaded CPU-scheduling simulator in
this repository: TLA+ modules that model its threads, queues and four scheduling policies, TLC
configurations that check them on small burst files, and theorems that hold for every burst
file, checked by TLAPS. Paths below are relative to the repository.

## The system

| component | state | operations | works with |
|---|---|---|---|
| process queues (`src/queue.c`, `src/priority_queue.c`) | linked nodes, `len`, `front`, `rear` | `enqueue`, `dequeue`, `p_enqueue`, `remove_node_by_pid` | the wrappers, under a mutex each |
| wrappers and counters (`schedule_algorithms/thread_op.c`, `*/*_th.c`) | three queues, two semaphores, `global_counter`, `TERMINATED_PROCESS` | add/remove per queue, `update_*`, `all_processes_done`, `write_cpu_process_data` | all threads |
| main (`main.c`, `sched_common.c`) | thread handles | create, join, `write_result` | all threads |
| arrival thread (`add_arrival_process_*`) | index of the next line | admit a process when its time has come, tick | main joins it before the others start |
| scheduler thread (`schedular_*`, `_process_cpu`) | `running_pd`, `start_time`, `end_time` | poll, dequeue, serve a CPU burst, hand over, log, retire | wake-up thread, by the two queues and semaphores |
| wake-up thread (`wakeUp_*`, `_process_io`) | `sleeping_pd` | poll, dequeue, serve an I/O burst, hand over, retire | scheduler thread |
| process table (`src/process.[ch]`) | `process_t` | `create_process` | the process's current owner |
| burst-file reader (`src/file.c`) | `burst_data` | `read_burstfile`, `_process_burst_line` | main, once |
| metrics (`src/result.c`, `src/time_t.c`) | start, end and gathered wall time per process | `write_result`, timespec arithmetic | the scheduler thread's turns; main, once, at the end |
| linked list (`src/linkedList.c`) | `front`, `rear`, nodes | `list_add`, remove from either end, print | nothing: no other file uses it |
| experiments (`thread_ex.c`, `proc_ex.c`) | a ring with two semaphores; a queue with a condition variable | produce and consume; file and take | stand-alone programs |

What is hard here: two threads exchange processes through two queue/semaphore pairs whose two halves
are updated in separate steps; the counter that ends both polling loops is raised before the process
it counts is retired; the log line is written after the process has been given away; the clock is
advanced by both threads; the bounds of the burst arrays rest on one shared predicate; `srtf` swaps
processes in two critical sections and recurses; priorities go stale. Below the threads, the queue
operations follow pointers that the other thread may be changing unless the mutex is held; the
reader derives the number of processes from its count of reads; wall times are differences with a
borrow. The experiments have a ring that wraps round and wake-ups that could be lost. There is no
persistence, no network and no timeout, so nothing about crashes, lost messages or retries applies.
`PROJECT.json` lists these hazards line by line.

What makes each component right: a queue keeps its order and its content; a semaphore counts its
queue; a process is in exactly one place and gets each burst of its line once, in order; no tick
is lost; both threads leave their loops exactly when nothing is left; the report is complete;
a policy dispatches by its rule.

## Modules

The simulator:

| module | models |
|---|---|
| `SchedQueue` | the queue operations on sequences of nodes, each atomic |
| `ProcessLifecycle` | abstract specification: one CPU, one I/O device, each process takes its bursts alternately and once. No threads, queues, semaphores or clock |
| `Simulator` | the state all policies share, main's create and join, the arrival thread, the dispatch loop of the scheduler thread, the wake-up thread; the properties of every policy; the refinement of `ProcessLifecycle` |
| `RunToCompletion` | `_process_cpu` of fcfs (and sjf): one whole burst per dispatch |
| `SjfSched` | sjf: the same over priority queues |
| `RrSched` | rr: ticks, quantum |
| `SrtfSched` | srtf: ticks, comparison, the swap and the recursion it leaves behind |
| `MCFcfs`, `MCSjf`, `MCRr`, `MCSrtf` | burst files for TLC |

What is below it, the queue:

| module | models |
|---|---|
| `SharedQueue` | abstract specification: a queue shared by threads, one step per call |
| `LinkedQueue` | `src/queue.c` and `src/priority_queue.c` with their nodes and pointers, called by threads through the wrappers, which lock a mutex; shown to implement `SharedQueue` |
| `MCLinkedQueue` | threads, processes and addresses for TLC |

What is around it, the program:

| module | models |
|---|---|
| `BurstLine` | a line of the burst file, as the reader gives it to the simulator |
| `BurstFile` | `read_burstfile`: the `fgets` loop, the count of processes, the token loop |
| `Metrics` | timespec arithmetic, the wall time fcfs, sjf and rr gather per process, `write_result` |
| `MainProgram` | `main` from its arguments to its return; composes `BurstFile` and `Metrics` |
| `MCMainProgram` | burst files and clock readings for TLC |

What is beside it:

| module | models |
|---|---|
| `Channel`, `BoundedBuffer` | `thread_ex.c`: a bounded FIFO channel, and the ring with two semaphores and a mutex that implements it |
| `CpuWorkers` | `proc_ex.c`: workers that wait on a condition variable for processes main files |
| `IntList` | `src/linkedList.c`, which no other file uses |
| `Experiments` | the composition of these three: one is run at a time |

The `*Proofs` modules hold the theorems and their proofs, one for each module with a
specification of its own; `DataProofs` and `SimulatorProofs` hold what several of them share.

How they meet: `LinkedQueue` implements the queue `SharedQueue` promises, whose operations are
those of `SchedQueue`, which `Simulator` takes as atomic; `BurstFile` produces the lines that
`WorkloadAssumption` asks of the simulator's burst file (`ReaderAlternates`); `MainProgram`
leaves the threads to `Simulator` and takes from it that they end (`ProgramExits`) and what
turnaround times they leave (`ReportComplete`).

**Correspondence.** Variables have the names of the globals. `pd` is the process table, indexed
by pid, `process_d` the burst file. `main_pc`, `sched_pc` and `wake_pc` say where each thread
stands. A step is one access to state another thread can see: an atomic load or add, a semaphore
operation, a queue operation under its mutex; updates of a process that only its owner can touch
ride on the access next to them. The arrival thread runs alone (main joins it at once), so one
iteration of its loop is one step. The C code indexes bursts from 0, the sequences from 1.

The scheduler's labels: `check` (the counter), `done?`, `ready empty?`, `wait empty?` (the three
reads of `all_processes_done`), `trywait`, `remove`, `cpu` (enter `_process_cpu`), `retire`, the
policy's own labels, `enqueue`, `post`, `log`, `exit`. The wake-up thread has `check`, `trywait`,
`remove`, `io`, `retire`, `enqueue`, `post`, `exit`.

`LinkedQueue` has a step for each lock, unlock and turn of a traversing loop, and one for the
straight-line code between them; `enqueue` and `p_enqueue` are one set of actions told apart by
`sorted`, as the policy installs one kind of wrapper. `BurstFile` has a step per `fgets` and per
token. In `Metrics` a step is a reading of the wall clock or a turn of `write_result`'s loop. In
`BoundedBuffer` it is a semaphore operation, the lock, or the critical section.

Definitions under a comment that begins with "Fault:" are plausible bugs, not the code. They are
the mutants of `PROJECT.json`: each property is shown to fail when its fault replaces the
definition after it.

**Abstractions.** Log wording and `debug`/`assert` (compiled out by `-DNDEBUG`) are left out; a
log line is a record. Allocation failure is left out. Integers are unbounded. A process without
a CPU burst has its priority read from `cpu_burst[0]`, past a zero-byte allocation: the models
let that be any member of `Garbage`. In `Simulator` burst lengths and arrival times are
naturals, as in the format `src/file.c` documents; the reader accepts any integer, and
`BurstFile` does too. Reads by the scheduler of a process that the wake-up thread may be writing
(the log line, the wall time) touch fields the wake-up thread does not write. A token of a burst
file is the number `atoi` makes of it, so that the footer and a blank line are both the line
`<<0>>`; the length of a line is counted in tokens (`LineTokens` for the 1023 characters of one
`fgets`), which cuts a long line between tokens only. A read past the `StrLines` lines of `str`
(1024 in the code) goes through a pointer that is nobody's: if it has something to write, the
program crashes; the read that finds the end of the file writes nothing and does no harm. A second
has `Second` nanoseconds.

## Runs

The four simulator runs use three processes with bodies chosen per module (`Bodies` in the `MC*`
modules); TLC explores every combination as an initial state and every interleaving from it. No
counter needs a bound: the burst file bounds the clock, the semaphores and the log. The program
ends, so deadlock is not checked there; that it ends *properly* is `ProgramExits`.

| run | shows |
|---|---|
| `fcfs` | types, semaphores, ownership, burst bounds, counter, drained exits, clock, report, log, order; refinement of `ProcessLifecycle`; termination |
| `sjf` | the same threads over priority queues; least priority value dispatched, ties in order |
| `rr` | bursts below, at and above the quantum; each burst is served up to the quantum, once |
| `srtf` | semaphore, ownership and clock survive the non-atomic swap; the swap takes a least one |
| `linked_queue` | pointers and mutex implement the atomic queue; the structure is well formed at every step, not only between calls; every call that has the mutex gives it back |
| `main_program` | the reader parses every line as its format says; how many processes a file gives; wall times are exact; what `write_result` prints; every run of `main` ends, and on which files in a crash |
| `experiments` | the ring is a FIFO channel and neither thread sleeps for ever; no wake-up is lost among the workers; the list holds what was asked for, but for one node it may fail to remove |
| `fcfs_turnaround`, `rr_expiry`, `srtf_restart`, `srtf_log`, `queue_removes_asked` | five statements of the repository that the code does not keep |

`ThreadsInv`, the invariant of the sjf, rr and srtf runs, is `SimInv` (ownership, semaphores and
what they rest on) with `BurstIndexInBounds`, `CounterMatchesRetired`, `ExitDrained` and
`ExitCounted`, which the fcfs run states one by one.

### Bounds

* Simulator: three processes are the least for which one is on the CPU, one in I/O and one
  queued, so that each thread can meet the other's hand-over. Lines with one CPU burst, lines
  that end in I/O, lines with two CPU bursts and empty lines are the four shapes
  `_should_terminate` tells apart. Bursts of 1 to 3 against a quantum of 2 lie below, at and
  above it; arrival gaps make the arrival thread tick, ties make it lag behind.
* `linked_queue`: two threads, three processes (two of equal priority), three addresses, so that
  a queue of none, one, two and three nodes - the four cases `dequeue` tells apart - is reached,
  and freed addresses are given out again. Every order of calls is explored, without a bound on
  their number. Deadlock is checked.
* `main_program`: files of none to four lines, ending in a newline or not, with footers, blank
  lines, and lines that take one, two and three reads or fill one exactly; room for 7 lines in
  `str`, which some files fill, with the read at the end still to come, and some run past; a
  second of two nanoseconds with readings that give borrows, carries and negative differences; two
  CPU bursts in all (`Turns`). `main` returns, so deadlock is not checked.
* `experiments`: a ring of 3 slots wraps round three times over 10 items, as the code's of
  `BUF_SIZE` does; 3 workers and 5 processes; 4 list nodes. The workers of `proc_ex.c` wait for
  ever once nothing is left, so deadlock is not checked.

### What the violations mean

* `TurnaroundIsElapsed`: the reported turnaround is the sum of the bursts (`ReportComplete`
  states that), not completion minus arrival.
* `ExpiryRequeues`: rr never requeues; the rest of a burst beyond the quantum is dropped
  (`BurstsCutAtQuantum` states what it does).
* `PausedNotRestarted`, `NoTurnLoggedTwice`: srtf restarts a preempted burst, and logs a turn
  once per pending call.
* `RemovesAsked`: `remove_node_by_pid`, asked for the rear node, takes the front one off and
  returns that. No wrapper in use calls it. `SharedQueue` has it so, as that is what callers get.

Divergences that the modules show but that no run is spent on:

* sjf orders by the *first* burst for ever; a process that returns from I/O is filed by a burst
  it has already had. `DispatchesLeastPriority` is about the priority filed under.
* `end - start` of a log line includes I/O another process did meanwhile. What holds is
  `LogTimeline`: lines are disjoint, in order, at least as long as the burst.
* srtf's swap files the running process and takes a least one, which may be the same.
* The reader counts its `fgets` calls and takes two off, for the footer and the read at the end
  of the file. A last line without a newline has no such read, unless it fills the buffer of
  `fgets`: one process more is lost.
* `str` (`src/file.c`) has room for 1024 lines, and nothing stops the loop that fills it: on a
  file that takes more reads the reader writes past it (`ReadPastStr`; `MainEnds` says that these
  are the only files, beside those with too few lines, on which the program crashes).
* `list_RemoveFromEnd` (`src/linkedList.c:39-51`) does not remove the node of a list of one: the
  loop stops at it, there is none behind it to free, and `front` still points to it. The list then
  has one integer too many, in front of all that are added later, until `list_RemoveFromFront`
  has emptied it. `IntList` keeps beside the list what the calls ask for (`content`) and whether
  the list owes a removal (`owed`); `HoldsContent` allows that one node and no other difference.
  `rear` of a list of one node may be `NULL` or a freed node; no function reads it. No comment or
  test speaks of either case, and no other file calls the list.
* The printed total wall time leaves out the last process (`PrintedResult` says so).
* `priority` is on the list of schedulers `main` prints; `init_scheduler` refuses it.

### Fairness

* Simulator: weak fairness of each thread: main, the arrival thread, the scheduler, the wake-up
  thread. They are POSIX threads that poll and never block on each other, except main in
  `pthread_join`; an operating system that schedules runnable threads gives just this. No
  fairness among the actions of a thread is assumed, nor needed: each label has one way on.
* `LinkedQueue`: weak fairness of each thread's `Lock` and of what it does under the mutex.
  Nothing forces a call, and no thread is promised the mutex (that would be strong fairness),
  hence `CallsEnd` speaks of calls that have it.
* `MainProgram`: weak fairness of its next step, as of any sequential program.
* `Experiments`: weak fairness of each thread; a spurious wake-up may or may not happen.

## Proofs

All theorems hold for every value of the constants under the named assumptions of the modules.

| module | theorems |
|---|---|
| `DataProofs` | what the queue operations return, keep and remove; positions in a queue; sums of a sequence and of a function over a set (lemmas only) |
| `SimulatorProofs` | one lemma per action that the policies share, for the invariant, the counter, the order of filing, the accounts, the log, the turns and the refinement (lemmas only) |
| `RunToCompletionProofs` | fcfs: `TypeOK`, `SemaphoresCountQueues`, `OneOwner`, `BurstIndexInBounds`, `CounterMatchesRetired`, `ExitDrained`, `ThreadsInv`, `ClockAccounting`, `ReportComplete`, `LogTimeline`, `NoOvertaking`, `Implements`; sjf: the same, carried over, and the action property `DispatchesLeastPriority` |
| `RrProofs` | rr: `RrTypeOK`, `ThreadsInv`, `BurstsCutAtQuantum`, `RrLogTimeline`, `NoOvertaking`, `Implements` |
| `SrtfProofs` | srtf: `SrtfTypeOK`, `ThreadsInv`, `ClockAccounting`, `Implements`; the action property `SwapTakesLeast` |
| `MainProgramProofs` | the reader: types, `ParsedAsFormat`, `EveryLineAProcess`, `ReaderAlternates` (every line parsed alternates CPU and I/O bursts); main: both again (every behaviour of `MainSpec` is one of the reader's), `WallTimeExact`, `PrintedResult` |
| `LinkedQueueProofs` | the queue with its pointers: `QueueInv`, and that it implements the atomic queue, `ImplementsQueue` |
| `ExperimentsProofs` | the ring of `thread_ex.c` is a bounded FIFO channel, `ImplementsChannel`; the list of `linkedList.c`, `HoldsContent` |

**Threads.** The inductive invariant of fcfs and sjf is `IInv == TypeOK /\ SimInv /\ Counted`.
None of the theorems is inductive alone:

* a type can only be kept if a burst is read inside its array, which needs the status of a
  process to follow from its place (`StatusByPlace`) and the two burst indices from its status
  (`BurstsInStep`: equal when ready, one apart when asleep);
* `OneOwner` needs `SemaphoresCountQueues`, which makes a removal find a node (the code's "BUG:
  No process in ready queue" branch is dead), and `ThreadsStarted`;
* `ExitDrained` needs the counter to be exact (`CounterMatchesRetired`) and a thread on its way
  out to have seen it at its limit (`ExitCounted`); then the retired processes and those being
  retired are all there are, by cardinality, and `OneOwner` empties the queues.

Each action has a lemma in `SimulatorProofs`, with one step per conjunct; the policy's labels are
a parameter, so fcfs, rr and srtf share them and only prove their own steps.
They are about `Spec`, which leaves `Policy` open; `SjfSpec` is `Spec` with the policy fixed, so
its theorems follow (`SjfRefinesSpec`): they do not depend on where a queue files a node.

rr adds `WithinQuantum`: the loop of ticks never passes the quantum, so the branch for `time >
quantum` is dead (its label is not in `RrTypeOK`). srtf adds that the swap's dequeue finds a node:
it has just filed one and touched no semaphore, so for as long as the swap lasts the queue is one
longer than its semaphore says, which `SemaphoresCountQueues` allows for at `redispatch`.

**Order.** `DispatchesLeastPriority` and `SwapTakesLeast` are action properties over the whole
queue, and need `Filed`: the ready queue is sorted by the priority stored in its nodes and that is
still the priority of the process. `p_enqueue` keeps the first half (`PEnqueueOrders`), and the
second holds because only srtf writes a priority after creation, and only of the process that is
on the CPU.

**Sums.** `ClockAccounting`, `ReportComplete` and `PrintedResult` add up bursts and processes.
The sums are folds, of which the library's induction theorems cannot be used here (they take an
operator). `DataProofs` proves what is needed of them by a least counterexample: if a fact about
prefixes failed, it would fail at a first length, and there the fold's own equation gives the
contradiction. A step then changes one term of a sum over the processes, and the sum by as much
(`SumFunctionOnSet` of a function with one value replaced).

**Accounts.** `Ledger` says of each process that its process time is its CPU time and its I/O time,
and the latter the sum of the I/O bursts behind its index; `CpuLedger` that the CPU time is the
sum of the CPU bursts behind the other index - and of the one that is charged but not yet counted,
when the scheduler stands between `run` and `end`. The clock is then the last admission plus all
of it (`ClockInv`): both threads add to it in one atomic step, so no order of theirs loses a tick
(`ChargesKeepClock`). A retired process has its indices at the end of both lists, whence its
turnaround time (`ReportComplete`). rr charges the part of a burst up to the quantum
(`CutLedger`); srtf charges tick by tick the process that is on the CPU, whatever swaps put it
there.

**Log.** A log line is written after its process was given away, from `start_time` and `end_time`
of the scheduler. `TurnInv` keeps these at a whole turn apart from the moment the turn begins,
while the wake-up thread moves the clock; `LogInv` says that the lines written are in order and
end before the turn now under way starts. That a burst is named once follows from the CPU index,
which is past every burst on a line.

**Turns.** `NoOvertaking` compares how many CPU bursts processes of one priority have had.
`TurnsInv` counts the laps a process has made, through the CPU and I/O back to the ready queue
(`IoDone`), and orders the processes on the round ready queue - CPU - wait queue - I/O device
(`Ahead`): of two of one priority, who is further round the circle is on the same lap and arrived
earlier, or is a lap behind and arrived later. A FIFO queue keeps the order because a newcomer
goes behind all of its equals, and so does a queue filed by priority if its nodes still carry the
priorities of their processes (`QueuesFiled`); so each of the hand-overs keeps it too.

**Pointers.** `IInv` of `LinkedQueueProofs` names the sequence of nodes that `QueueInv` only says
exists, with the processes and priorities the nodes carry, and adds what the threads know: a
traversing thread is at a node of that sequence; one that files has its node ready and has passed
only nodes it belongs behind; one that searches has seen that the rear is not what it looks for -
without which the middle branch of `remove_node_by_pid` could unlink the rear node and leave
`rear` dangling. Each step leaves the sequence, puts a node in at a position (`ChainGrows`) or
takes one out (`ChainShrinks`), by facts about sequences and functions that mention no thread.
The refinement mapping reads the queue by walking from `front` (`Walk`, recursive along `next`);
that the walk of a chain is the chain is a least counterexample again. A step then puts, takes or
takes by pid (`Puts`, `Takes`, `TakesByPid`), or leaves the queue and what every thread owns.

**Reader and main.** The reader's `IInv` says that what has been read and what is unread are the
file (`ReadInOrder`), that no more reads than `str` has lines left something there (`Tokens`),
that the token loop has split exactly the tokens it passed (`InLoop`), and how many reads the
count stands for (`Counted`). `ReaderAlternates` discharges the part of `WorkloadAssumption` that
the simulator's array bounds rest on. `WallTimesExact` rests on `TimersInv` and on two lemmas,
`DiffExact` and `AddExact`, about borrow and carry. `ResultCorrect` has the loop of `write_result`
as an invariant, a sum and a maximum over the prefix of the table it has passed. It is about files
of natural numbers (`NaturalFiles`), as the format documents: the reader accepts negative bursts
too, and then the maximum, which starts at 0, may be the turnaround time of no process.

**Ring and list.** The two semaphores of the ring count its free and its filled places but for
what the threads have in hand (`RingCounts`); hence the writer, in its critical section, finds a
free place and the reader a filled one (`LagFacts`). `in` is the place `Lag` behind `out`, and
with at most `BUF_SIZE` items between them the code's remainder is one subtraction (`Place`,
`ModOnce`), which makes the places of the items on their way distinct. `ListInv` is
`HoldsContent`, the node the list owes and `rear` included, with the types, and that a free node
has no link: so `Traverse`, modelled by a function recursive along `next`, is defined on every
node, and from `front` it ends at the last node, or with its break at the one before
(`LoopExists`, `LoopStops`).

**Refinement.** That the threads implement `ProcessLifecycle` (`Implements`) is proved for all four
policies. The mapping takes a process's phase from the place `OneOwner` gives it, so a step that
moves one process from place to place is one action of `ProcessLifecycle` (`MapPlain`,
`MapTerminate`, `MapCpuBurstDone`, `MapIoBurstDone`) and any other is a stutter (`QuietMaps`). The
code moves a burst index one step before the process leaves for the next queue; the mapping counts
the burst with the move. That a burst is due, and that who terminates has had all of its line, is
`LifeInv`: no index is past its list, a process being retired has had its whole line, one not yet
created has had nothing. Its heart is `NothingLeft`: with the two indices equal or one apart and
inside their lists, `_should_terminate` says exactly that both lists are at their end. srtf's swap
is a `Preempt` and then a `Dispatch`, between which the CPU is nobody's.

**Assumptions.** `TotalAssumption`, `PolicyAssumption`, `GarbageAssumption`, `WorkloadAssumption`
(lines of naturals that alternate), `RrAssumption`, `SrtfAssumption` (the policy of the module),
`QuantumAssumption`, `FilesAssumption` (lines of integers, none without a token, and any number of
them), `LineAssumption`, `StrAssumption`, `SecondAssumption`, `ReadingAssumption`,
`TurnsAssumption`, `TurnaroundsAssumption`, `AddrAssumption` (0 is no address),
`ThreadAssumption`, `ProcAssumption`, `PriorityAssumption`, `RingAssumption`, `WorkersAssumption`.
TLC evaluates each on the run of its module.

**Only model-checked.** Liveness, which with fairness and `ENABLED` is out of the prover's reach:
`ProgramExits`, `CallsEnd`, `MainEnds`, `ExperimentsFinish`. Every invariant and every other action
or refinement property of a passing run is a theorem.

## Not modelled

* `dbg.h`: logging and assertions, compiled out by `-DNDEBUG`; its `check` exits on an allocation
  failure, which no module has.
* srtf's wall time: its recursion reads one timer several times, and nothing states what the
  outcome should be.
* Failures of `malloc` and `pthread_create`; the characters of a file; everything printed but the
  numbers of the result.
* The width of integers: `ClockAccounting` shows that the clock is a sum of the file's own times,
  so it overflows only when that sum does.

## What is left

Proofs: nothing but liveness, which stays with TLC.  Models: the wall time of srtf.
