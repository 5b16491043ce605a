# Verification of the process scheduler

TLA+ models of the scheduler simulator in this repository, the TLC runs that
check them on small instances, and proofs that the TLA+ proof system (TLAPS)
checks for every instance. Source lines are quoted as `file:line`.

## 1. The system

A *processor* (`processor/src/lib.rs`) simulates a single-core machine. The
simulated processes are closures, each on a thread of its own, which call
`exec`, `fork`, `sleep`, `wait`, `signal` and, at the end of their body, `exit`.
A *scheduler* (`scheduler/src`) decides which of them runs; there are three, with
the same interface and the same PCB type. Exactly one process thread is meant
to be past `suspend` at a time.

| Component | State | Operations |
|---|---|---|
| PCB and types (`scheduler.rs`, `schedulers/pcb.rs`) | pid, state, wakeup condition, priority and fork priority, vruntime, timings | state and wakeup setters, priority up/down, ordering, adding times |
| Round robin (`schedulers/round_robin.rs`) | running and stopped process, ready list, waiting list, remaining time, highest PID, sleep time | `stop(reason)`, `next()`, `list()` |
| Priority queues (`schedulers/round_robin_priorities.rs`) | the same with six ready queues | the same |
| CFS (`schedulers/cfs.rs`) | the same with one ready list sorted by vruntime at each dispatch | the same |
| Processor (`processor/src/lib.rs`) | scheduler mutex, current process with its mutex and condition variable, `remaining`, `running`, logs | `run`, `exec`, `scheduler(reason)`, `suspend`, the system calls |
| Runner (`runner/src`) | none | an example and tests that compare the recorded logs of single runs |

**How they interact.** A process thread makes a system call, or its `exec` uses
the last unit of its time. Its thread then takes the scheduler's mutex, calls
`stop(reason)` with the time that is left, and calls `next()` until the answer
is `Run` or one of the final decisions (`processor/src/lib.rs:207-273`). `Sleep`
makes it call `next()` once more; the scheduler itself lets the time pass in
that second call. `Run` sets the current process and wakes all threads; the
final decisions stop the simulation.

**What is hard here.**

- *Long sequences of calls.* A process sleeps for some time and that time is
  counted down in increments, by the calls of other processes and by the sleep
  of the processor. Any branch of `stop` that forgets a step leaves a state a
  much later `next()` acts on. The tests replay five programs.
- *State carried from call to call*: `remaining_time`, which must agree with
  the number the processor keeps on its own; `sleep_time`, a promise `next()`
  makes to itself; `stopped_process`, in which an exited PCB stays.
- *Boundaries*: `NonZeroUsize` made from differences and quotients that can be
  0, a division by a configuration value, indices made from an `i8`.
- *Fairness*: whether ready and sleeping processes get to run, under each policy.
- *Threads*: a child is given a PID, and may be dispatched, before its thread
  exists; `running` is changed under one mutex and read without it; after the
  simulation halts all threads are released and run on.

What makes each component correct:

- PCB lists: waking splits the waiting list into two lists that together have each
  process once, in the same order.
- Every scheduler: no process is lost, duplicated or given another's PID; the
  state written in a PCB agrees with its place; a decision means what
  `scheduler.rs` says of it; `next()` always returns.
- Round robin: ready processes are served in the order they became ready.
- Priority queues: the highest priority first; a process is in the queue of its
  priority; only an expired timeslice costs priority; priorities decay enough
  that processes that only compute starve nobody.
- CFS: the least vruntime first; a timeslice is a fair share of `cpu_time`; the
  least vruntime never falls.
- Processor: at most one process runs; every process that may run is woken; its
  count of the time left is the scheduler's; the logs have every decision, with
  the stop that answered it.
- Timings: exact at all times, whatever lists a process has been in.

## 2. The modules

| Module | What it models |
|---|---|
| `SchedulerTypes` | `SchedulingDecision`, and what the processor knows between calls |
| `Pcb` | the PCB and the passes all three schedulers make over the waiting list: time passes (`Elapsed`), a signal is sent (`Notified`), the ready ones are taken out (`Woken`, `StillWaiting`), the next sleep is found (`FindSleepTime`) |
| `RoundRobin` | the round robin scheduler |
| `RoundRobinPriorities` | the priority queue scheduler |
| `Cfs` | the fair scheduler |
| `Scheduler` | what any scheduler promises to the processor: the abstract specification |
| `RoundRobinTimings` | `RoundRobin` with the timings of its PCBs and a clock |
| `Processor` | the threads of the processes and what they share, over `Scheduler` |
| `PcbTheorems` | theorems about the operators of `Pcb` |
| `RoundRobinProofs` | theorems about `RoundRobin`: its invariants and action properties |
| `RoundRobinRefinement` | that `RoundRobin` implements `Scheduler`, and theorems about `RoundRobinTimings` |
| `PrioritiesProofs` | theorems about `RoundRobinPriorities` |
| `PrioritiesRefinement` | that it implements `Scheduler`, and who loses priority |
| `CfsProofs` | theorems about `Cfs` |
| `CfsRefinement` | that `Cfs` implements `Scheduler` |
| `ProcessorProofs` | theorems about `Processor` |

`Pcb` and `SchedulerTypes` have no variables; each scheduler module EXTENDS
both, and adds what its PCB has of its own (priorities, vruntime).

```
            Processor
                | INSTANCE (composed with)
            Scheduler
           /    |     \      INSTANCE ... WITH (implemented by)
 RoundRobin     |      Cfs
     |   RoundRobinPriorities
 RoundRobinTimings
```

The proofs EXTEND what they are about: `PcbTheorems` and a scheduler the `Proofs` of
that scheduler, and these its `Refinement`; `ProcessorProofs` only `Processor`.

**State of the schedulers.** The variables of a scheduler module are the fields of the struct,
under their names. An `Option` is the set of its at most one value, a `Vec` is
a sequence. `stopped_process` keeps the PCB of an exited process in the two round robin
schedulers, where nothing reads it before the next `stop()` replaces it; in CFS `Exit` drops it,
and must, since `size()` counts it (`DropStopped`). `decision` is not a field: it is what the processor last learned,
the answer of the last `next()`, or `Stopped` when a `stop()` has returned and
`next()` is due, or `Start` before the first call. It carries the call protocol
of the processor: which call comes next is decided by it alone.

**Actions.** One action per call: each kind of `stop` (`Start`, `Expired`,
`Fork`, `Signal`, `Sleep`, `Wait`, `Exit`) and each outcome of `next`
(`DecideDone`, `DecidePanic`, `DecideContinue`, `DecideDispatch`,
`DecideSleep`, `DecideDeadlock`), from the first line of the call to its return.
A `next()` that follows a `Sleep` first plays it: `ReadyOnNext` and
`WaitingOnNext` are the lists after that. Calls are atomic in the model because
the code makes them under the scheduler's mutex.

**The contract.** In `Scheduler` a process is nothing but the condition it waits
for, or none; its variable `wakeup` is a function from the PIDs that exist to
these. Left open are the queues, who of the awake processes is chosen, and the
timeslice. Kept is what the processor and the processes can rely on: who exists,
that every call counts its time for every sleeper, when a sleeper and a waiter
wake up, and which decision may be answered when. `Overlooks` says whether
`Sleep` and `Wait` may leave a process that has just woken up to be found by a
later call: TRUE for the two round robin schedulers, which is the weakness
behind Finding 1, and FALSE for CFS, which so implements the strict contract.
The refinement mapping takes `wakeup` from the PCBs of all lists, and
`overlooked` is the processes that are `Ready` in the waiting list. A CFS
timeslice may be anything up to `Longest`.

**The threads.** `Processor` has one thread per process, and thread 0 is in
`Processor::run`. `pc` says where a thread is; the places are listed at the top of
the module. The mutexes have no variables, they are held at certain places: that of the
scheduler from `stop()` to the end of `scheduler()` ("stopped", "deciding"), that
of `current_process` in the loop ("deciding") and from a failed test in
`suspend` to the wait ("parking"), where the condition variable gives it up. A
step is what a thread does between two points at which another can interfere.
The thread of a fork, or of `run`, that has the child's PID and has not spawned
its thread yet is "spawning": by then another process may be running. After
the simulation has halted all threads go on with their bodies side by side
(`CallsInVain`). `remaining` is an integer modulo `Usize`, as `fetch_sub` makes
it. Of the logs the last one is kept, the only one the code ever changes.
`WakeSpuriously` is `Condvar::wait` returning unnotified.

`Relaxed` atomics are modelled as sequentially consistent: while the simulation
runs, `remaining` is touched by one thread at a time, with the mutex of
`current_process` between one and the next, and `running` changes once, under
that mutex, under which `suspend` reads it.

**The timings.** Every step of `RoundRobinTimings` is a step of `RoundRobin` that
also counts. `clock`, `born` and `gone` are history variables of the properties:
nothing in the code has them.

**The processes** are not modelled in the schedulers: while a process runs, any system call may come
with any amount of time left below the one it was given (a system call takes at
least one unit, `processor/src/lib.rs:210`), or its time may expire. So the
models have every program of the tests, and all others within the bounds. In
`Processor` a body is any sequence of instructions that comes to an end.

**Abort.** `next()` and the fork of the priority scheduler contain
`exit(-1)`, and CFS a division that can panic. Either ends the program, which
is the decision `Abort`; no property is about what follows.

**Bounds.** `MaxPid` ends the forks and, in `Cfs`, `MaxVruntime` ends the run of
a process, since the code lets both grow; `MaxClock` does the same in
`RoundRobinTimings`, and `MaxSpurious` bounds the spurious wakeups. `usize` is modelled by the natural
numbers, except in `Processor`: the schedulers subtract only after a comparison, or a remaining time
from a larger one (`DecisionMatchesState` and the guard of `Remaining` are what
makes that so, and `CallsTakeTime` of `Processor` is why that guard is right), and no test of interest reaches 2^64.

## 3. The runs

| Run | Instance | Shows |
|---|---|---|
| `round_robin_safety` | 4 processes, timeslice 3, two events, sleeps 1 and 4 | the contract and seven more safety and action properties |
| `round_robin_liveness` | 3 processes, timeslice 3, minimum 2 | no ready and no sleeping process is starved |
| `round_robin_deadlock` | 2 processes | a violation: see Findings |
| `round_robin_zero` | minimum 0 | a violation: see Findings |
| `priorities_safety` | 3 processes, priorities 0, 2 and 5 | the contract and seven more |
| `priorities_liveness` | 3 processes, timeslice 2, minimum 1, priorities 0, 2 and 6 | computing processes starve nobody; sleeps end |
| `priorities_deadlock` | 2 processes | the same violation as in round robin |
| `cfs_safety` | 3 processes, cpu time 5, minimum 2, sleeps 1 and 4 | the strict contract and eight more |
| `cfs_zero` | minimum 0 | a violation: see Findings |
| `processor_threads` | main and 3 process threads, timeslices 1 and 3, 2 spurious wakeups | mutual exclusion, no lost wakeup, the counts of time, the logs, and that all threads end |
| `processor_fork` | main and 2 process threads | a violation: see Findings |
| `round_robin_timings` | 3 processes, timeslice 3, up to time 8 | the timings are exact and add up |

**Why these bounds are enough.** Three processes are the least for which order in
a queue can go wrong while somebody else runs; with four in the round robin
instance one runs, two wait for the same or another event, and one sleeps. One
sleep is shorter than a timeslice and one longer, so that a sleep ends during
another's call, during a run, and only while the processor sleeps. The minimum
remaining timeslice is such that a system call may leave enough time to go on or
not. In `cfs_safety` 5 is not divided by 2 or 3, and with three processes the
share falls below the minimum. In `priorities_liveness` a process may go on after a call
with one of its two units, and a ready process has to wait for that too. Priorities 0, 2 and 5 are the ends of the range
and one between; 6 has no queue, so that `priorities_liveness` also takes the
abort of `fork`.

In `processor_threads` a timeslice of 1 is one that the first instruction uses
up and one of 3 leaves time after a call; `Usize` is 4, the least that holds 3,
so that a count that has wrapped around (3) is a value a wrong read would take
for a good one. With three process threads one runs, one can be on its way to wait and
one without a thread; two spurious wakeups let two of them test at a wrong
moment. `Overlooks` is TRUE, as the two round robin schedulers need it. Neither value has all
behaviours of the other: with FALSE a process whose sleep has run out must be found by the next
`next()`, which so has other decisions to choose from than with TRUE. `ProcessorProofs` covers both.

`CHECK_DEADLOCK` is on in every run. A simulation that has come to a final
decision rests (`Halted`), as the processor does: that is a step of its own, so
that a state in which the code has no next call would be reported.

**The properties.** `TypeOK` in each module. Of the others, briefly (each is
stated in words where it is defined):

- `ImplementsScheduler`: each scheduler keeps the contract. No process is lost or
  made up, a signal reaches all who wait for it and nothing else ends a wait,
  a sleep ends neither early nor late, the decisions are warranted.
- `StateMatchesPlace`, `EachProcessOnce`: the lists and the PCBs in them stay
  coherent through any sequence of calls.
- `DecisionMatchesState`, `RunsAfterSleep`: the decision the processor acts on is
  true, and an announced sleep is played once and is exactly long enough.
- `ServedInOrder`, `HighestPriorityFirst`, `LeastVruntimeFirst`: the policy.
- `QueueMatchesPriority`, `OnlyExpiryDemotes`: the priorities.
- `FairShare`, `LeastNeverFalls`, `CallsCostTime`: the shares of CFS. A timeslice is neither more
  than a fair share of `cpu_time`, but for the minimum, nor less than a whole one.
- `NeverAborts`: no call ends the program, when the configuration and the
  programs give it no zero and no priority without a queue.

- `OneThreadRuns`, `NobodySleepsThroughItsTurn`, `AllThreadsEnd`: the threads
  take turns, and none is left behind.
- `RemainingAgrees`, `CallsTakeTime`: no decrement that has wrapped around is ever read,
  and a system call always leaves less than was given, which `time - 1` in
  `increment_timings` (`round_robin.rs:54`) relies on. The second is about what the processor
  reports, so it must be asked here: in the scheduler modules the time left is an input,
  less than the time given (`Remaining`).
- `EveryStopIsLogged`, `LogsAreComplete`: the logs.
- `TotalsAreExact`, `TimesAddUp`: the timings.

**Fairness.** The liveness runs of the schedulers assume `WF_vars(NextDecision)` and
`WF_vars(Stop)`. The first is the loop of `Processor::scheduler`, which calls
`next()` without waiting for anything. The second is the thread of the running
process: each of its instructions uses time, so that it comes to the end of its
timeslice, to a system call, or to the end of its body, which is `exit`. Nothing
is assumed about which of these comes, and no action of one process is assumed
to be fair on its own. It excludes closures that loop for ever between two
instructions.

`AllThreadsEnd` assumes that a thread that can go on does (`WF` of the steps of each
thread, and of the main one), and that the body of a process is finite
(`SF` of `Finish`: a thread that is between two instructions again and again
comes to the end of its body). It is strong fairness because the body is
suspended in between. A thread that waits is not assumed to be woken up: that is
what is shown. The threads of the children are detached, so the property is
about a program that outlives them; when `main` returns first they are cut off.

For the priority scheduler starvation of low priorities by processes that keep
making system calls in time is what the policy means. What is checked is
conditional: if from some moment on every step in which a process runs is one that uses up its
timeslice, every ready process runs. The premise is about `Expired` and not about the absence of
system calls, since a step is a pair of states: where a process of priority 0 expires, a signal
nobody waits for can have the same effect. CFS has no liveness run: its vruntime grows
for ever, and within a bound on it a long wait and an endless one look the same.

## 4. Findings

1. **Deadlock with a process that could run** (`round_robin_deadlock`,
   `priorities_deadlock`). In `round_robin.rs:235-254` and
   `round_robin_priorities.rs:182-203` the system calls `Sleep` and `Wait` let
   time pass for the waiting list and, unlike all the others, do not move those
   whose sleep has run out. `next()` looks for processes in the ready
   list and for sleepers in the waiting list; a process that is `Ready` in
   the waiting list is neither, and the answer is `Deadlock`. The shortest run:
   PID 1 forks PID 2, PID 2 sleeps for 1, PID 1 waits for an event.
   `cfs.rs` has the missing calls, and there `ImplementsScheduler`
   holds with `Overlooks` FALSE.
2. **A minimum remaining timeslice of 0** (`round_robin_zero`, `cfs_zero`). The
   constructors accept it. In the two round robin schedulers a process that
   makes a system call with its last unit of time then goes on with 0 units and
   `next()` exits; in CFS the first `next()` divides by zero. `round_robin_zero`
   also has a sleep of 0, with which `next()` exits when nobody else runs.

3. **`fork` after the end** (`processor_fork`). When the simulation halts, every
   suspended process is released and its body runs on; `exec` and the system calls
   do nothing, but `fork` has no PID to return and panics
   (`processor/src/lib.rs:325`). If that is PID 1, `join().unwrap()` makes
   `run` panic too, and the logs that would show the `Deadlock` are never
   returned. The shortest run: PID 1 waits for an event and then forks. This is
   also why `AllThreadsEnd` counts a panic as an end, and why `LogsAreComplete` is about a
   `run` that returns.

`StateMatchesPlace` of `RoundRobin` allows the `Ready` processes of the waiting
list that finding 1 is about, since they are what the code has; they do not stay
for ever, and are moved by the next call that wakes processes. `SleepsEnd` and
`SleeperEventuallyRuns` hold for that reason, with "or the simulation is over".

## 5. The proofs

All proofs are checked by TLAPS, with SMT (Z3), Zenon and LS4. What is assumed are
the named assumptions on the constants in the modules, which TLC evaluates in every
run, and nothing else but where it is said below. The timeslice is positive (`NonZeroUsize`), so is `cpu_time`; minimum, events and
sleep times are natural numbers, priorities are `i8`, `MaxPid` is positive; and for the processor `Usize` is at least 2, the
times given fit a `usize`, and a sleep is not 0. Every
invariant and every action property that a passing run checks is the statement of
a theorem, and so is each refinement.

**`PcbTheorems`.** `Filter` is defined by recursion on the list, so its
properties need induction. The induction principle is obtained from the
well-foundedness of the order of the natural numbers, for properties given as
sets (`InductionUpTo`). `FilterPicks` then says that there is a strictly
increasing function from the places of the result to the places of the list, onto those
kept. From it follow `FilterType`, `FilterPids`, `FilterElements`, and for
`wakeup_processes` `WakeupType`, `WakeupPids` and `WakeupElements`: each process of the waiting
list is in exactly one of the two parts. `ElapsedPids`, `NotifiedPids`, `AppendPids`,
`ConcatPids` and `HeadTailPids` say what the other operations do to PIDs. The lemmas on
`Distinct` and `Wakeups` are about a set of PCBs without regard to their places; the refinements
use them.

**Round robin** (`RoundRobinProofs`). `StateMatchesPlace` is not inductive alone: that `Elapse`
returns a well-typed PCB needs the types, that the process which goes on may
become `Running` needs its wakeup condition to be `None`, and that a `stop` finds a
running process and no sleep pending needs `DecisionMatchesState`. The invariant
`Coherent` says all of it at once, by giving each place the set of PCBs that may be in it
(`RunningPcbs`, `ReadyPcbs`, `WaitingPcbs`). There is one lemma per action,
with the common parts (`WakeupStep`, `ContinueOrYieldStep`, `StoppedStep`,
`NextStep`) taken out. Theorem `Coherence` is that it holds of every behaviour;
from it:

- `TypeCorrect`, `PlacesMatch`, `DecisionsMatch`: `TypeOK`, `StateMatchesPlace`,
  `DecisionMatchesState`.
- `ProcessOnce`: `EachProcessOnce`. It is inductive together with
  `Coherent`. The lemmas are about `Once(R, q, w, h)`, the same statement for any
  lists, one for each way a list changes; each action is a chain of them.
- `NoAbort`: `NeverAborts`, if the minimum remaining timeslice is not
  0 and 0 is not a sleep time (`PositiveTimes`). The invariant is that a running process has time
  left and a sleeper has time left to sleep (`TimeIsLeft`). Finding 2 shows that
  neither assumption can be dropped.
- `FirstComeFirstServed`: `ServedInOrder`. All calls but a dispatch append (`GrowYield`,
  `GrowWoken`), and a dispatch takes the head of what the sleep has appended to.
- `NoSecondSleep`: `RunsAfterSleep`. `SleepIsExact`, inductive with `Coherent`, keeps from the
  decision that there is a sleeper with exactly `sleep_time` left and that PID 1
  exists; the call that plays the sleep then has a ready process.

**The contract** (`RoundRobinRefinement`, `PrioritiesRefinement`, `CfsRefinement`).
The refinement mapping takes the condition of a process from the one PCB that
has its PID. So the first lemma, `Conditions`, is that with `EachProcessOnce` the
mapped `wakeup` gives every PCB its own condition, and from there on only the
*set* of all PCBs matters, wherever they are. For each action there is a lemma that finds the
set after the call (waking moves PCBs and changes none of them; `Elapsed` is
`After` on each) and concludes the contract's action of the same name. For `next`,
`PassedIs` and `AwakeIs` show what the contract calls passed and awake
to be what the code has in its lists when it decides. `ImplementsUntilAbort` is
`Spec /\ []NeverAborts => ImplementsScheduler` for any configuration: the contract
has no abort. `Refinement` drops the second hypothesis with `NoAbort`. In
round robin and the priority scheduler the contract has `Overlooks` TRUE: the proofs show that
overlooked are exactly those due in a `Sleep` or `Wait`. For CFS it is
FALSE; there the invariant says that nobody `Ready` is in the waiting list.

**The timings** (at the end of `RoundRobinRefinement`). `TimedIsRoundRobin` is
`TimedSpec => Spec`, which makes all of the above available. `ExactTotals` is
`[]TotalsAreExact`: each call counts the same time for the clock and for every
process; for the sleep in `next()` that needs that nobody is ready or runs, since
only the waiting list is counted then (`SleepTime`, from `DecisionMatchesState`).
`AllTimeIsCounted` is `[]TimesAddUp`. The sum is a recursive function of the library
that takes the elements in the order of `CHOOSE`; the lemma `Sums` says, by
induction on the cardinality, that it exists and that any element may be taken first. Who is
there after a call comes from the contract (`StopLive`, `NextLive`).

**The priority scheduler** (`PrioritiesProofs`). `Coherent` has the same form, with
the PCBs of queue *q* those of priority *q*, and everywhere no priority above the
one the process was forked with; the second is needed for the first, as a system call raises
the priority up to that. From it: `TypeCorrect`, `QueuesMatch`, `ProcessOnce`,
`HighestFirst` (`HighestPriorityFirst`) and `FirstComeFirstServed`. `NoAbort`
also assumes that every priority is one of the six queues (`QueueForEach`): with others, `fork`
exits. `OnlyExpiry`, which compares the PCBs of a process before and after a call, is proved in
`PrioritiesRefinement`, where the set of all PCBs after each call is known. For that
argument a call is a chain of steps of which none takes priority from anybody
(`NobodyLoses`), but for `Expired` and the process that runs.

**CFS** (`CfsProofs`). The sort is written as an insertion of one PCB after the other,
as a recursive function, which is stable as the code's is; `SortedInOrder` says
by induction that it keeps the elements and puts them in order. Being in order needs the
PIDs to differ, since the order compares them last, so here `Coherent` includes that
(`Placed`) and `ProcessOnce` follows from it. From it also: `TypeCorrect`, `PlacesMatch`, and the
policy: `LeastFirst` (`LeastVruntimeFirst`), `FairTimeslice`
(`FairShare`, from `TimesliceShare`, which is about the division alone, and `SizeOfAll`: what
`size()` counts is the processes that exist, nobody twice and no exited one),
`CallsCost` (`CallsCostTime`), and `LeastStays` (`LeastNeverFalls`). The last is shown
call by call as a relation between the PCBs before and after: each one after has one
before with no more vruntime. For a fork it is that `min_vruntime` is
computed of the processes in the lists, when the forking one is in none of them. `NoAbort` assumes
`PositiveTimes`.

**The processor** (`ProcessorProofs`), for any number of threads, any timeslices
that fit a `usize`, and any number of spurious wakeups. None of the
properties is inductive. `Coherent` adds to them, as named parts:

- `Turns`: while the simulation runs, one thread has the turn. Either it is in
  `scheduler()`, and then nobody executes; or the decision is `Run`, the current process is
  the one decided, and `remaining` is at most what was given. Here it is that the
  order of the writes matters: `decision` before `current_process` before `body`.
- `OneHolds`: the mutex of `current_process`, so that nothing changes between a
  failed test in `suspend` and the wait.
- `MainPath`, `Returns`, `Children`, `Beginning`: where each thread can be and return to;
  that a PID whose thread is not spawned yet has one parent that will spawn it, and no thread.
- `LogOfDecision`, `LogOfHalt`: the last log is that of the last decision, with its stop.

From it `TypeCorrect`, `OneAtATime`, `NoUnderflow`, `NoLostWakeup`, `LogsComplete`,
and the action properties `CallsTake` (`CallsTakeTime`) and `StopsAreLogged`. The scheduler is the contract, of
which only its types are needed (`SchedulerOK`), so that these hold with any of
the three schedulers.

**Only model-checked**: the liveness properties (`ReadyEventuallyRuns`,
`SleeperEventuallyRuns`, `ComputingCannotStarve`, `SleepsEnd`, `AllThreadsEnd`):
fairness and `ENABLED` are out of the prover's reach.

## 6. Not modelled, and why

- Calls the processor never makes: a `stop` when no process runs (the code
  answers `NoRunningProcess`) and a `next()` while one does without a `stop`
  before it.
- The timings of the other two schedulers, which count as round robin does, and
  the list of processes in a log, a copy of what `list()` returns.
- A child that panics for a reason of its own, with a mutex in its hands or not: no
  body of the simulation is known, and only the panic of `fork` is in the code.
- How long a sleeper of CFS, which comes back with the vruntime it left with, keeps
  the others waiting: it depends on vruntime, which a finite instance has to bound.
- `extra`, the `Display` implementations and `format_logs`: text.
- The `Empty` scheduler, whose methods are `unimplemented!()`.

## 7. The plan

1. *Done*: the three schedulers, their safety and liveness; the contract and its
   three implementations; the processor composed with the contract; the timings of
   round robin.
2. *Done*: proofs of all invariants, all action properties and all refinements that the runs check.
3. **Next**:
   - That the decisions of each scheduler are ones `Processor` may rely on, as a theorem:
     with `Times` of `Processor` any set that has the timeslices of the scheduler,
     the contract of `Refinement` implies the `SchedulerOK` that `ProcessorProofs` uses.
   - The safety parts of the liveness properties: that `Elapsed` brings each sleeper
     nearer to its end by exactly the time that passes, and that the place of a process in the ready list only falls.
   - Finding 1 as a theorem about the code it is not in: in CFS a `Deadlock` does mean
     that all processes wait for events.
