-------------------------------- MODULE Cfs --------------------------------
(***************************************************************************)
(* The simplified completely fair scheduler,                               *)
(* scheduler/src/schedulers/cfs.rs.  It is driven as RoundRobin is, one    *)
(* stop() per decision to run and a next() after each.  A process is       *)
(* charged the time it runs in its vruntime; the ready process with the    *)
(* least vruntime runs next, for its share of cpu_time among the processes *)
(* that want the processor.  Unlike the other schedulers it wakes the      *)
(* processes whose sleep has run out in every system call.                 *)
(***************************************************************************)
EXTENDS SchedulerTypes, Pcb, FiniteSets

CONSTANTS
  CpuTime,                      \* cpu_time: NonZeroUsize
  MinimumRemainingTimeslice, Events, SleepTimes,
  MaxPid,                       \* bound: no fork beyond this pid
  MaxVruntime                   \* bound: nobody runs on beyond this vruntime

ASSUME CfsAssumption ==
  /\ CpuTime \in Nat \ {0}
  /\ MinimumRemainingTimeslice \in Nat
  /\ Events \subseteq Nat
  /\ SleepTimes \subseteq Nat
  /\ MaxPid \in Nat \ {0}
  /\ MaxVruntime \in Nat

VARIABLES
  running_process,      \* Option<Pcb>
  stopped_process,      \* Option<Pcb>: None between the calls, as size() needs it
  remaining_time,
  ready_processes,      \* Vec<Pcb>
  waiting_processes,    \* Vec<Pcb>
  highest_pid,
  sleep_time,
  decision              \* what the processor last learned

vars == <<running_process, stopped_process, remaining_time, ready_processes,
          waiting_processes, highest_pid, sleep_time, decision>>

CfsPcb == [pid : Pid, state : ProcessState, wakeup : WakeupCondition, vruntime : Nat]

NewCfsPcb(pid, vruntime) ==
  [pid |-> pid, state |-> Ready, wakeup |-> NoWakeup, vruntime |-> vruntime]

\* Ord for Pcb: by vruntime, then by PID.
Before(p, q) ==
  p.vruntime < q.vruntime \/ (p.vruntime = q.vruntime /\ p.pid < q.pid)

\* For mutation: the order that PartialEq for Pcb suggests, PIDs are not compared.
InsertByVruntime(queue, p) ==
  Filter(queue, {q \in Elements(queue) : q.vruntime <= p.vruntime})
    \o <<p>>
    \o Filter(queue, {q \in Elements(queue) : q.vruntime > p.vruntime})

Insert(queue, p) ==
  Filter(queue, {q \in Elements(queue) : ~ Before(p, q)})
    \o <<p>>
    \o Filter(queue, {q \in Elements(queue) : Before(p, q)})

\* sort(), which is stable: each process in turn is put after those it is not before.
Sorted(list) ==
  LET upTo[i \in 0..Len(list)] ==
        IF i = 0 THEN << >> ELSE Insert(upTo[i-1], list[i])
  IN  upTo[Len(list)]

\* For mutation: a new process starts at 0, as in the other schedulers.
ZeroVruntime(processes) == 0

\* min_vruntime.  The set is not empty but in the call that creates PID 1.
MinVruntime(processes) ==
  IF processes = {} THEN 0
  ELSE CHOOSE v \in {p.vruntime : p \in processes} :
         \A p \in processes : v <= p.vruntime

\* size(): the processes that want the processor.
HowMany(option) == IF option = {} THEN 0 ELSE 1

Size(ready, running, stopped) == Len(ready) + HowMany(running) + HowMany(stopped)

(***************************************************************************)
(* compute_timeslice, with the size() of the moment.  With a minimum of 0  *)
(* the code panics, dividing by zero: 0 stands for that.                   *)
(***************************************************************************)
ComputeTimeslice(size) ==
  IF MinimumRemainingTimeslice = 0 THEN 0
  ELSE IF CpuTime \div MinimumRemainingTimeslice >= size THEN CpuTime \div size
       ELSE MinimumRemainingTimeslice

Smaller(a, b) == IF a <= b THEN a ELSE b

Longest == IF CpuTime >= MinimumRemainingTimeslice THEN CpuTime ELSE MinimumRemainingTimeslice

Live == running_process \cup Elements(ready_processes) \cup Elements(waiting_processes)

TypeOK ==
  /\ running_process \in SUBSET CfsPcb
  /\ stopped_process \in SUBSET CfsPcb
  /\ remaining_time \in 0..Longest
  /\ ready_processes \in Seq(CfsPcb)
  /\ waiting_processes \in Seq(CfsPcb)
  /\ highest_pid \in 0..MaxPid
  /\ sleep_time \in Nat
  /\ decision \in Decision
  /\ \A p, q \in running_process : p = q

Init ==
  /\ running_process = {}
  /\ stopped_process = {}
  /\ remaining_time = 0
  /\ ready_processes = << >>
  /\ waiting_processes = << >>
  /\ highest_pid = 0
  /\ sleep_time = 0
  /\ decision = Outcome("Start")

-----------------------------------------------------------------------------
(* stop(reason). *)

\* The system calls leave at least the unit of time they take themselves.
Remaining == 0..(remaining_time - 1)

WaitingAfter(time) == Elapsed(waiting_processes, time)

\* AddAssign for Pcb.
Charge(p, time) == [p EXCEPT !.vruntime = @ + time]

\* set_ready.
Yield(p, queue) ==
  /\ running_process' = {}
  /\ ready_processes' = Append(queue, SetReady(p))
  /\ remaining_time' = 0

\* For mutation: the process goes on whatever is left of its timeslice.
AnyTimeIsEnough(remaining) == remaining >= 0

LongEnough(remaining) == remaining >= MinimumRemainingTimeslice

\* For mutation: the process that goes on is given a new timeslice.
RestartedTimeslice(size, remaining) == ComputeTimeslice(size)

\* For mutation: the process that goes on is given a new timeslice on top.
AddedTimeslice(size, remaining) == ComputeTimeslice(size) + remaining

\* The time of a process that goes on: its share may have shrunk.
RestOfTimeslice(size, remaining) == Smaller(ComputeTimeslice(size), remaining)

ContinueOrYield(p, queue, remaining) ==
  \/ /\ LongEnough(remaining)
     /\ running_process' = {SetRunning(p)}
     /\ ready_processes' = queue
     /\ remaining_time' = RestOfTimeslice(Size(queue, {p}, {}), remaining)
  \/ /\ ~ LongEnough(remaining)
     /\ Yield(p, queue)

\* The first call, made by Processor::run: it creates the process with PID 1.
Start ==
  /\ decision.kind = "Start"
  /\ highest_pid' = highest_pid + 1
  /\ ready_processes' = <<NewCfsPcb(highest_pid + 1, MinVruntime(Live))>>
  /\ stopped_process' = {}
  /\ decision' = Outcome("Stopped")
  /\ UNCHANGED <<running_process, remaining_time, waiting_processes, sleep_time>>

Expired ==
  /\ decision.kind = "Run"
  /\ LET waiting == WaitingAfter(remaining_time)
     IN  \E p \in running_process :
           /\ Yield(Charge(p, remaining_time), ready_processes \o Woken(waiting))
           /\ waiting_processes' = StillWaiting(waiting)
  /\ stopped_process' = {}
  /\ decision' = Outcome("Stopped")
  /\ UNCHANGED <<highest_pid, sleep_time>>

\* Unlike RoundRobin, the woken processes are queued before the new one.
Fork(remaining) ==
  /\ decision.kind = "Run"
  /\ highest_pid < MaxPid
  /\ highest_pid' = highest_pid + 1
  /\ LET time == remaining_time - remaining
         waiting == WaitingAfter(time)
     IN  \E r \in running_process :
           LET p == Charge(r, time)
               vruntime == MinVruntime({p} \cup Elements(ready_processes) \cup Elements(waiting))
               new == NewCfsPcb(highest_pid + 1, vruntime)
           IN  /\ ContinueOrYield(p, Append(ready_processes \o Woken(waiting), new), remaining)
               /\ waiting_processes' = StillWaiting(waiting)
  /\ stopped_process' = {}
  /\ decision' = Outcome("Stopped")
  /\ UNCHANGED sleep_time

Signal(event, remaining) ==
  /\ decision.kind = "Run"
  /\ LET time == remaining_time - remaining
         waiting == Notified(WaitingAfter(time), event)
     IN  \E p \in running_process :
           /\ ContinueOrYield(Charge(p, time), ready_processes \o Woken(waiting), remaining)
           /\ waiting_processes' = StillWaiting(waiting)
  /\ stopped_process' = {}
  /\ decision' = Outcome("Stopped")
  /\ UNCHANGED <<highest_pid, sleep_time>>

\* For mutation: Sleep and Wait as they are in the other schedulers.
BlockOnly(asleep, time) ==
  /\ waiting_processes' = Append(WaitingAfter(time), Charge(asleep, time))
  /\ UNCHANGED ready_processes

\* Sleep and Wait end in wakeup_processes.
Block(asleep, time) ==
  /\ waiting_processes' =
       Append(StillWaiting(WaitingAfter(time)), Charge(asleep, time))
  /\ ready_processes' = ready_processes \o Woken(WaitingAfter(time))

Sleep(time, remaining) ==
  /\ decision.kind = "Run"
  /\ \E p \in running_process : Block(PutToSleep(p, time), remaining_time - remaining)
  /\ running_process' = {}
  /\ stopped_process' = {}
  /\ decision' = Outcome("Stopped")
  /\ UNCHANGED <<remaining_time, highest_pid, sleep_time>>

Wait(event, remaining) ==
  /\ decision.kind = "Run"
  /\ \E p \in running_process : Block(AwaitEvent(p, event), remaining_time - remaining)
  /\ running_process' = {}
  /\ stopped_process' = {}
  /\ decision' = Outcome("Stopped")
  /\ UNCHANGED <<remaining_time, highest_pid, sleep_time>>

\* For mutation: the PCB is left where stop() has put it, as RoundRobin does.
LeaveStopped == stopped_process' = running_process

DropStopped == stopped_process' = {}

Exit(remaining) ==
  /\ decision.kind = "Run"
  /\ LET waiting == WaitingAfter(remaining_time - remaining)
     IN  /\ ready_processes' = ready_processes \o Woken(waiting)
         /\ waiting_processes' = StillWaiting(waiting)
  /\ running_process' = {}
  /\ DropStopped
  /\ decision' = Outcome("Stopped")
  /\ UNCHANGED <<remaining_time, highest_pid, sleep_time>>

\* The bound on vruntime, which the code lets grow: past it the system rests.
WithinBound ==
  \A p \in running_process : p.vruntime + remaining_time <= MaxVruntime

Stop ==
  /\ WithinBound
  /\ \/ Start
     \/ Expired
     \/ \E remaining \in Remaining :
          \/ Fork(remaining)
          \/ Exit(remaining)
          \/ \E event \in Events : Signal(event, remaining) \/ Wait(event, remaining)
          \/ \E time \in SleepTimes : Sleep(time, remaining)

-----------------------------------------------------------------------------
(* next().  It first plays the sleep it asked for last time, if any. *)

NextIsDue == decision.kind \in {"Stopped", "Sleep"}

ReadyOnNext ==
  IF sleep_time = 0 THEN ready_processes
  ELSE ready_processes \o Woken(WaitingAfter(sleep_time))

WaitingOnNext ==
  IF sleep_time = 0 THEN waiting_processes
  ELSE StillWaiting(WaitingAfter(sleep_time))

IsDone == running_process = {} /\ ReadyOnNext = << >> /\ WaitingOnNext = << >>

Pid1Exists ==
  1 \in {p.pid : p \in running_process} \cup Pids(ReadyOnNext) \cup Pids(WaitingOnNext)

Halt(kind) ==
  /\ ready_processes' = ReadyOnNext
  /\ waiting_processes' = WaitingOnNext
  /\ sleep_time' = 0
  /\ decision' = Outcome(kind)
  /\ UNCHANGED <<running_process, stopped_process, remaining_time, highest_pid>>

DecideDone == NextIsDue /\ IsDone /\ Halt("Done")

DecidePanic == NextIsDue /\ ~ IsDone /\ ~ Pid1Exists /\ Halt("Panic")

\* The process that made the system call goes on.
DecideContinue ==
  /\ NextIsDue
  /\ Pid1Exists
  /\ ready_processes' = ReadyOnNext
  /\ waiting_processes' = WaitingOnNext
  /\ sleep_time' = 0
  /\ \E p \in running_process :
       decision' = NonZero(remaining_time, RunFor(p.pid, remaining_time))
  /\ UNCHANGED <<running_process, stopped_process, remaining_time, highest_pid>>

\* scheduled_process and set_running.  The process to run has its part in the share.
DecideDispatch ==
  /\ NextIsDue
  /\ Pid1Exists
  /\ running_process = {}
  /\ ReadyOnNext # << >>
  /\ LET queue == Sorted(ReadyOnNext)
         timeslice == ComputeTimeslice(Size(ReadyOnNext, running_process, stopped_process))
     IN  /\ running_process' = {SetRunning(Head(queue))}
         /\ ready_processes' = Tail(queue)
         /\ remaining_time' = timeslice
         /\ decision' = NonZero(timeslice, RunFor(Head(queue).pid, timeslice))
  /\ waiting_processes' = WaitingOnNext
  /\ sleep_time' = 0
  /\ UNCHANGED <<stopped_process, highest_pid>>

NobodyToRun ==
  NextIsDue /\ Pid1Exists /\ running_process = {} /\ ReadyOnNext = << >>

DecideSleep ==
  /\ NobodyToRun
  /\ ready_processes' = ReadyOnNext
  /\ waiting_processes' = WaitingOnNext
  /\ \E time \in FindSleepTime(WaitingOnNext) :
       /\ sleep_time' = time
       /\ decision' = NonZero(time, SleepFor(time))
  /\ UNCHANGED <<running_process, stopped_process, remaining_time, highest_pid>>

DecideDeadlock ==
  /\ NobodyToRun
  /\ FindSleepTime(WaitingOnNext) = {}
  /\ Halt("Deadlock")

NextDecision ==
  \/ DecideDone
  \/ DecidePanic
  \/ DecideContinue
  \/ DecideDispatch
  \/ DecideSleep
  \/ DecideDeadlock

-----------------------------------------------------------------------------
\* After a final decision the processor makes no more calls.
Halted == (decision.kind \in Final \/ ~ WithinBound) /\ UNCHANGED vars

Next == Stop \/ NextDecision \/ Halted

Spec == Init /\ [][Next]_vars

-----------------------------------------------------------------------------
(* Safety. *)

(***************************************************************************)
(* The place of a PCB and what is written in it agree.  Between the calls  *)
(* of this scheduler a process of the waiting list really waits: no sleep  *)
(* that has run out and no signal is left for a later call to act on.      *)
(***************************************************************************)
Waits(p) ==
  \/ p.state = Waiting({}) /\ p.wakeup.kind = "Sleep"
  \/ \E event \in Events :
       p.state = Waiting({event}) /\ p.wakeup = SignalWakeup(event)

StateMatchesPlace ==
  /\ \A p \in running_process : p.state = Running /\ p.wakeup = NoWakeup
  /\ \A p \in Elements(ready_processes) : p.state = Ready /\ p.wakeup = NoWakeup
  /\ \A p \in Elements(waiting_processes) : Waits(p)

(***************************************************************************)
(* The scheduler does what Scheduler specifies, and overlooks nobody: a    *)
(* Deadlock is answered only when everyone waits for an event, as          *)
(* scheduler.rs:53 says, and the processor sleeps only when nobody could   *)
(* run.  That the vruntime order is another changes none of the promises.  *)
(***************************************************************************)
WakeupOf(pid) == (CHOOSE p \in Live : p.pid = pid).wakeup

WakeupConditions == [pid \in {p.pid : p \in Live} |-> WakeupOf(pid)]

Contract == INSTANCE Scheduler
  WITH wakeup <- WakeupConditions,
       overlooked <- {},
       Times <- 1..Longest,
       Overlooks <- FALSE

ImplementsScheduler == Contract!Spec

\* A process is in one place, once, and has a PID of its own.
EachProcessOnce ==
  /\ \A p, q \in Live : p.pid = q.pid => p = q
  /\ Len(ready_processes) = Cardinality(Elements(ready_processes))
  /\ Len(waiting_processes) = Cardinality(Elements(waiting_processes))
  /\ Elements(ready_processes) \cap Elements(waiting_processes) = {}
  /\ \A p \in Live : p.pid <= highest_pid

(***************************************************************************)
(* The process that is given the processor is the first, by vruntime and   *)
(* then by PID, of all that were ready, those a sleep has just woken       *)
(* included.                                                               *)
(***************************************************************************)
LeastVruntimeFirst ==
  [][ running_process = {} /\ running_process' # {} =>
        \A p \in running_process', q \in Elements(ready_processes') : Before(p, q) ]_vars

(***************************************************************************)
(* The least vruntime never falls: a new process does not start behind all *)
(* the others, where it would keep the processor until it caught up.       *)
(***************************************************************************)
LeastNeverFalls ==
  [][ Live # {} /\ Live' # {} =>
        \A p \in Live' : \E q \in Live : q.vruntime <= p.vruntime ]_vars

(***************************************************************************)
(* A timeslice is a fair share of cpu_time, unless that were less than the *)
(* minimum: the ready processes and the one that runs, given the same,     *)
(* would use no more than cpu_time, and no timeslice is below the minimum. *)
(* It is the whole share as well: one unit more for each and cpu_time would*)
(* not do, so that nobody who is gone, or blocked, is counted among them.  *)
(***************************************************************************)
FairShare ==
  [][ running_process = {} /\ decision'.kind = "Run" =>
        LET sharers == Len(ready_processes') + 1
        IN  /\ remaining_time' >= MinimumRemainingTimeslice
            /\ \/ remaining_time' = MinimumRemainingTimeslice
               \/ remaining_time' * sharers <= CpuTime
            /\ (remaining_time' + 1) * sharers > CpuTime ]_vars

(***************************************************************************)
(* A system call never buys time: a process that goes on after one has     *)
(* less time left than before it, so that it must yield in the end.        *)
(***************************************************************************)
CallsCostTime ==
  [][ decision.kind = "Run" /\ running_process' # {} =>
        remaining_time' < remaining_time ]_vars

\* next() never ends the program: true if the minimum is not 0 and nobody sleeps for 0.
NeverAborts == decision.kind # "Abort"
=============================================================================
