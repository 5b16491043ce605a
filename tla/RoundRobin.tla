----------------------------- MODULE RoundRobin -----------------------------
(***************************************************************************)
(* The round robin scheduler, scheduler/src/schedulers/round_robin.rs.     *)
(*                                                                         *)
(* A scheduler is driven by the processor (processor/src/lib.rs) through   *)
(* two calls, made one at a time under the scheduler's mutex:              *)
(*                                                                         *)
(*   stop(reason)  the running process has made a system call or has used  *)
(*                 up its time; made once per decision to run;             *)
(*   next()        what to do now; called again after each Sleep, until    *)
(*                 it answers Run or one of the final decisions.           *)
(*                                                                         *)
(* Every action below is one such call, from its first line to its return. *)
(* `decision' is what the processor last learned: the decision of the last *)
(* next(), or that stop() has returned and next() is due.  The processes   *)
(* are not modelled here: they may make any system call at any moment.     *)
(***************************************************************************)
EXTENDS SchedulerTypes, Pcb

CONSTANTS
  Timeslice,                    \* timeslice: NonZeroUsize
  MinimumRemainingTimeslice,    \* minimum_remaining_timeslice: usize
  Events,                       \* the event numbers processes wait for and signal
  SleepTimes,                   \* the times processes ask to sleep
  MaxPid                        \* bound: no fork beyond this pid

ASSUME RoundRobinAssumption ==
  /\ Timeslice \in Nat \ {0}
  /\ MinimumRemainingTimeslice \in Nat
  /\ Events \subseteq Nat
  /\ SleepTimes \subseteq Nat
  /\ MaxPid \in Nat \ {0}

VARIABLES
  running_process,      \* Option<Pcb>
  stopped_process,      \* Option<Pcb>
  remaining_time,
  ready_processes,      \* Vec<Pcb>
  waiting_processes,    \* Vec<Pcb>
  highest_pid,
  sleep_time,
  decision              \* what the processor last learned

vars == <<running_process, stopped_process, remaining_time, ready_processes,
          waiting_processes, highest_pid, sleep_time, decision>>

RunningPids == {p.pid : p \in running_process}
ReadyPids == Pids(ready_processes)
WaitingPids == Pids(waiting_processes)

\* The processes list() reports: the stopped process is not one of them.
LivePids == RunningPids \cup ReadyPids \cup WaitingPids

TypeOK ==
  /\ running_process \in SUBSET PcbType
  /\ stopped_process \in SUBSET PcbType
  /\ remaining_time \in 0..Timeslice
  /\ ready_processes \in Seq(PcbType)
  /\ waiting_processes \in Seq(PcbType)
  /\ highest_pid \in 0..MaxPid
  /\ sleep_time \in Nat
  /\ decision \in Decision
  /\ \A p, q \in running_process : p = q
  /\ \A p, q \in stopped_process : p = q

Init ==
  /\ running_process = {}
  /\ stopped_process = {}
  /\ remaining_time = 0
  /\ ready_processes = << >>
  /\ waiting_processes = << >>
  /\ highest_pid = 0
  /\ sleep_time = 0
  /\ decision = Outcome("Start")

-----------------------------------------------------------------------------
(***************************************************************************)
(* stop(reason).  The running process becomes the stopped one; the time it *)
(* used passes for the processes of the waiting list (increment_timings).  *)
(***************************************************************************)

\* The system calls leave at least the unit of time they take themselves.
Remaining == 0..(remaining_time - 1)

WaitingAfter(time) == Elapsed(waiting_processes, time)

\* The vector a process is pushed on, for mutation: pushed in front.
EnqueueInFront(queue, p) == <<p>> \o queue

Enqueue(queue, p) == Append(queue, p)

\* set_ready: p waits for its turn behind `queue'.
Yield(p, queue) ==
  /\ running_process' = {}
  /\ ready_processes' = Enqueue(queue, SetReady(p))
  /\ remaining_time' = 0

\* For mutation: the process keeps the processor whatever is left of its time.
AlwaysContinue(p, queue, remaining) ==
  /\ running_process' = {SetRunning(p)}
  /\ ready_processes' = queue
  /\ remaining_time' = remaining

\* For mutation: the process that goes on is given a fresh timeslice on top.
ContinueWithMore(p, queue, remaining) ==
  IF remaining >= MinimumRemainingTimeslice
  THEN /\ running_process' = {SetRunning(p)}
       /\ ready_processes' = queue
       /\ remaining_time' = remaining + Timeslice
  ELSE Yield(p, queue)

(***************************************************************************)
(* How Fork and Signal end: the process goes on for the rest of its        *)
(* timeslice if that is long enough, and else joins the ready processes.   *)
(***************************************************************************)
ContinueOrYield(p, queue, remaining) ==
  IF remaining >= MinimumRemainingTimeslice
  THEN /\ running_process' = {SetRunning(p)}
       /\ ready_processes' = queue
       /\ remaining_time' = remaining
  ELSE Yield(p, queue)

\* The first call, made by Processor::run: it creates the process with PID 1.
Start ==
  /\ decision.kind = "Start"
  /\ highest_pid' = highest_pid + 1
  /\ ready_processes' = <<NewPcb(highest_pid + 1)>>
  /\ decision' = Outcome("Stopped")
  /\ UNCHANGED <<running_process, stopped_process, remaining_time,
                 waiting_processes, sleep_time>>

Expired ==
  /\ decision.kind = "Run"
  /\ LET waiting == WaitingAfter(remaining_time)
     IN  \E p \in running_process :
           /\ Yield(p, ready_processes \o Woken(waiting))
           /\ waiting_processes' = StillWaiting(waiting)
  /\ stopped_process' = {}
  /\ decision' = Outcome("Stopped")
  /\ UNCHANGED <<highest_pid, sleep_time>>

Fork(remaining) ==
  /\ decision.kind = "Run"
  /\ highest_pid < MaxPid
  /\ highest_pid' = highest_pid + 1
  /\ LET waiting == WaitingAfter(remaining_time - remaining)
         queue == Append(ready_processes, NewPcb(highest_pid + 1))
     IN  \E p \in running_process :
           /\ ContinueOrYield(p, queue \o Woken(waiting), remaining)
           /\ waiting_processes' = StillWaiting(waiting)
  /\ stopped_process' = {}
  /\ decision' = Outcome("Stopped")
  /\ UNCHANGED sleep_time

Signal(event, remaining) ==
  /\ decision.kind = "Run"
  /\ LET waiting == Notified(WaitingAfter(remaining_time - remaining), event)
     IN  \E p \in running_process :
           /\ ContinueOrYield(p, ready_processes \o Woken(waiting), remaining)
           /\ waiting_processes' = StillWaiting(waiting)
  /\ stopped_process' = {}
  /\ decision' = Outcome("Stopped")
  /\ UNCHANGED <<highest_pid, sleep_time>>

(***************************************************************************)
(* Sleep and Wait put the process at the end of the waiting list.  Neither *)
(* calls wakeup_processes: a process whose sleep has just run out stays in *)
(* the waiting list, Ready, until a later call moves it; remaining_time    *)
(* keeps its old value.                                                    *)
(***************************************************************************)
Block(asleep, remaining) ==
  /\ waiting_processes' =
       Append(WaitingAfter(remaining_time - remaining), asleep)
  /\ running_process' = {}
  /\ stopped_process' = {}
  /\ decision' = Outcome("Stopped")
  /\ UNCHANGED <<remaining_time, ready_processes, highest_pid, sleep_time>>

Sleep(time, remaining) ==
  /\ decision.kind = "Run"
  /\ \E p \in running_process : Block(PutToSleep(p, time), remaining)

Wait(event, remaining) ==
  /\ decision.kind = "Run"
  /\ \E p \in running_process : Block(AwaitEvent(p, event), remaining)

\* The PCB of the process is left in stopped_process, where the next stop drops it.
Exit(remaining) ==
  /\ decision.kind = "Run"
  /\ LET waiting == WaitingAfter(remaining_time - remaining)
     IN  /\ ready_processes' = ready_processes \o Woken(waiting)
         /\ waiting_processes' = StillWaiting(waiting)
  /\ running_process' = {}
  /\ stopped_process' = running_process
  /\ decision' = Outcome("Stopped")
  /\ UNCHANGED <<remaining_time, highest_pid, sleep_time>>

Stop ==
  \/ Start
  \/ Expired
  \/ \E remaining \in Remaining :
       \/ Fork(remaining)
       \/ Exit(remaining)
       \/ \E event \in Events : Signal(event, remaining) \/ Wait(event, remaining)
       \/ \E time \in SleepTimes : Sleep(time, remaining)

-----------------------------------------------------------------------------
(***************************************************************************)
(* next().  It first plays the sleep it asked for last time, if any.       *)
(***************************************************************************)
NextIsDue == decision.kind \in {"Stopped", "Sleep"}

\* For mutation: sleep() without its call of wakeup_processes.
ReadyNotAwakened == ready_processes

ReadyOnNext ==
  IF sleep_time = 0 THEN ready_processes
  ELSE ready_processes \o Woken(WaitingAfter(sleep_time))

WaitingOnNext ==
  IF sleep_time = 0 THEN waiting_processes
  ELSE StillWaiting(WaitingAfter(sleep_time))

IsDone == running_process = {} /\ ReadyOnNext = << >> /\ WaitingOnNext = << >>

Pid1Exists == 1 \in RunningPids \cup Pids(ReadyOnNext) \cup Pids(WaitingOnNext)

\* A decision that ends the simulation leaves the processes where they are.
Halt(kind) ==
  /\ ready_processes' = ReadyOnNext
  /\ waiting_processes' = WaitingOnNext
  /\ sleep_time' = 0
  /\ decision' = Outcome(kind)
  /\ UNCHANGED <<running_process, stopped_process, remaining_time, highest_pid>>

DecideDone ==
  /\ NextIsDue
  /\ IsDone
  /\ Halt("Done")

DecidePanic ==
  /\ NextIsDue
  /\ ~ IsDone
  /\ ~ Pid1Exists
  /\ Halt("Panic")

\* The process that made the system call goes on.
DecideContinue ==
  /\ NextIsDue
  /\ Pid1Exists
  /\ ready_processes' = ReadyOnNext
  /\ waiting_processes' = WaitingOnNext
  /\ sleep_time' = 0
  /\ \E p \in running_process :
       decision' = NonZero(remaining_time, RunFor(p.pid, remaining_time))
  /\ UNCHANGED <<running_process, stopped_process, remaining_time, highest_pid>>

\* For mutation: remaining_time is not reset.
SetRunningOnly(p) ==
  /\ running_process' = {SetRunning(p)}
  /\ UNCHANGED remaining_time

\* set_running.
Dispatch(p) ==
  /\ running_process' = {SetRunning(p)}
  /\ remaining_time' = Timeslice

\* The first of the ready processes is the scheduled_process.
DecideDispatch ==
  /\ NextIsDue
  /\ Pid1Exists
  /\ running_process = {}
  /\ ReadyOnNext # << >>
  /\ Dispatch(Head(ReadyOnNext))
  /\ ready_processes' = Tail(ReadyOnNext)
  /\ waiting_processes' = WaitingOnNext
  /\ sleep_time' = 0
  /\ decision' = RunFor(Head(ReadyOnNext).pid, Timeslice)
  /\ UNCHANGED <<stopped_process, highest_pid>>

NobodyToRun ==
  /\ NextIsDue
  /\ Pid1Exists
  /\ running_process = {}
  /\ ReadyOnNext = << >>

\* For mutation: the sleep is announced and forgotten.
ForgetSleep(time) ==
  /\ sleep_time' = 0
  /\ decision' = NonZero(time, SleepFor(time))

PlanSleep(time) ==
  /\ sleep_time' = time
  /\ decision' = NonZero(time, SleepFor(time))

DecideSleep ==
  /\ NobodyToRun
  /\ ready_processes' = ReadyOnNext
  /\ waiting_processes' = WaitingOnNext
  /\ \E time \in FindSleepTime(WaitingOnNext) : PlanSleep(time)
  /\ UNCHANGED <<running_process, stopped_process, remaining_time, highest_pid>>

DecideDeadlock ==
  /\ NobodyToRun
  /\ FindSleepTime(WaitingOnNext) = {}
  /\ Halt("Deadlock")

NextDecision ==
  \/ DecideDone
  \/ DecidePanic
  \/ DecideContinue
  \/ DecideDispatch
  \/ DecideSleep
  \/ DecideDeadlock

-----------------------------------------------------------------------------
\* After a final decision the processor makes no more calls.
Halted == decision.kind \in Final /\ UNCHANGED vars

Next == Stop \/ NextDecision \/ Halted

Spec == Init /\ [][Next]_vars

(***************************************************************************)
(* The processor calls next() in a loop, and the thread of the running     *)
(* process goes on to its next instruction: each of them uses up time, and *)
(* the end of its body is an Exit.                                         *)
(***************************************************************************)
FairSpec == Spec /\ WF_vars(NextDecision) /\ WF_vars(Stop)
-----------------------------------------------------------------------------
(***************************************************************************)
(* Safety.  The scheduler is one record of state handed from call to call; *)
(* what can go wrong takes several calls, usually of several processes.    *)
(***************************************************************************)

(***************************************************************************)
(* The place of a PCB and what is written in it agree, whatever sequence   *)
(* of system calls brought it there: get_all_processes reports the state,  *)
(* wakeup_processes and find_sleep_time decide by it.  A Ready process in  *)
(* the waiting list is one whose sleep has run out during a Sleep or a Wait*)
(* of another process.                                                     *)
(***************************************************************************)
Parked(p) == p.state = Ready /\ p.wakeup = NoWakeup

Asleep(p) == p.state = Waiting({}) /\ p.wakeup.kind = "Sleep"

Awaiting(p, event) == p.state = Waiting({event}) /\ p.wakeup = SignalWakeup(event)

Blocked(p) == Asleep(p) \/ \E event \in Events : Awaiting(p, event)

StateMatchesPlace ==
  /\ \A p \in running_process : p.state = Running /\ p.wakeup = NoWakeup
  /\ \A i \in DOMAIN ready_processes : Parked(ready_processes[i])
  /\ \A i \in DOMAIN waiting_processes :
       Parked(waiting_processes[i]) \/ Blocked(waiting_processes[i])

(***************************************************************************)
(* A process is in one place, once: cloning the waiting list in            *)
(* wakeup_processes and moving PCBs through stopped_process neither        *)
(* duplicates a process nor gives two the same PID.                        *)
(***************************************************************************)
EachProcessOnce ==
  /\ PidsDiffer(ready_processes)
  /\ PidsDiffer(waiting_processes)
  /\ RunningPids \cap ReadyPids = {}
  /\ RunningPids \cap WaitingPids = {}
  /\ ReadyPids \cap WaitingPids = {}
  /\ LivePids \subseteq 1..highest_pid

(***************************************************************************)
(* What the processor believes and what the scheduler will do next agree:  *)
(* a process told to run is the running one, with exactly that time left,  *)
(* and a sleep that was announced, and only such a one, is still to be     *)
(* played by the next next(), with nobody running or ready.                *)
(***************************************************************************)
DecisionMatchesState ==
  /\ decision.kind = "Run" =>
       \E p \in running_process : decision = RunFor(p.pid, remaining_time)
  /\ decision.kind = "Sleep" => decision = SleepFor(sleep_time)
  /\ sleep_time # 0 =>
       /\ decision.kind = "Sleep"
       /\ running_process = {}
       /\ ready_processes = << >>

(***************************************************************************)
(* next() never calls exit(-1) to end the program: scheduler.rs:202 says it*)
(* "Returns the action that the OS has to perform next".  True if the      *)
(* minimum_remaining_timeslice is not 0 and nobody sleeps for 0.           *)
(***************************************************************************)
NeverAborts == decision.kind # "Abort"

(***************************************************************************)
(* The ready processes are served in the order they became ready: in every *)
(* call the queue only grows at its end and shrinks at its head, and what  *)
(* leaves the head is what runs.                                           *)
(***************************************************************************)
BeginsWith(list, prefix) ==
  Len(prefix) <= Len(list) /\ SubSeq(list, 1, Len(prefix)) = prefix

ServedInOrder ==
  [][ \/ BeginsWith(ready_processes', ready_processes)
      \/ /\ ready_processes # << >>
         /\ RunningPids' = {Head(ready_processes).pid}
         /\ BeginsWith(ready_processes', Tail(ready_processes)) ]_vars

(***************************************************************************)
(* The scheduler does what Scheduler specifies, in every call: no process  *)
(* is lost or made up; a signal wakes all that wait for the event, and     *)
(* nothing else does; a sleep ends neither early nor late, whether the     *)
(* others run, sleep or wait; and every decision is the one the processes  *)
(* warrant.  A process left Ready in the waiting list is overlooked.       *)
(***************************************************************************)
Everyone ==
  running_process \cup Elements(ready_processes) \cup Elements(waiting_processes)

WakeupOf(pid) == (CHOOSE p \in Everyone : p.pid = pid).wakeup

WakeupConditions == [pid \in LivePids |-> WakeupOf(pid)]

ReadyInWaiting == Pids(Woken(waiting_processes))

Contract == INSTANCE Scheduler
  WITH wakeup <- WakeupConditions,
       overlooked <- ReadyInWaiting,
       Times <- 1..Timeslice,
       Overlooks <- TRUE

ImplementsScheduler == Contract!Spec

(***************************************************************************)
(* The time of a Sleep decision is exact: it is long enough that the call  *)
(* that follows finds a process to run, and the processor never sleeps     *)
(* twice in a row.                                                         *)
(***************************************************************************)
RunsAfterSleep == [][decision.kind = "Sleep" => decision'.kind = "Run"]_vars

(***************************************************************************)
(* Liveness, for processes that make some system call or use up their time.*)
(*                                                                         *)
(* No starvation: a ready process runs, unless the simulation ends.        *)
(***************************************************************************)
Over == decision.kind \in Final

ReadyEventuallyRuns ==
  \A pid \in 1..MaxPid : pid \in ReadyPids ~> pid \in RunningPids \/ Over

(***************************************************************************)
(* A sleeper runs again, unless the simulation ends: its sleep is counted  *)
(* down whether the others run, sleep or wait.                             *)
(***************************************************************************)
SleepingPids ==
  {waiting_processes[i].pid :
     i \in {j \in DOMAIN waiting_processes : Asleep(waiting_processes[j])}}

SleeperEventuallyRuns ==
  \A pid \in 1..MaxPid : pid \in SleepingPids ~> pid \in RunningPids \/ Over

-----------------------------------------------------------------------------
(***************************************************************************)
(* scheduler.rs:53-56, Deadlock: "The OS cannot continue anymore, as all   *)
(* the processes are waiting for events."  The code does not ensure it: a  *)
(* process whose sleep ran out during a Sleep or a Wait call is Ready and  *)
(* in the waiting list, where next() does not look for it.                 *)
(***************************************************************************)
DeadlockMeansAllWaiting ==
  decision.kind = "Deadlock" =>
    /\ running_process = {}
    /\ ready_processes = << >>
    /\ \A i \in DOMAIN waiting_processes :
         waiting_processes[i].state.kind = "Waiting"
=============================================================================
