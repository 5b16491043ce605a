------------------------ MODULE RoundRobinPriorities ------------------------
(***************************************************************************)
(* The priority queue scheduler,                                           *)
(* scheduler/src/schedulers/round_robin_priorities.rs.  It is driven as    *)
(* RoundRobin is, one stop() per decision to run and a next() after each,  *)
(* and differs in its ready processes: one queue per priority, the highest *)
(* non-empty one served first.  A process loses a level of priority when   *)
(* it uses up its timeslice and regains one, never above the priority it   *)
(* was forked with, when it makes a system call before that.               *)
(***************************************************************************)
EXTENDS SchedulerTypes, Pcb

CONSTANTS
  Timeslice, MinimumRemainingTimeslice, Events, SleepTimes,
  Priorities,                   \* the priorities processes fork with (i8)
  MaxPid                        \* bound: no fork beyond this pid

ASSUME RoundRobinPrioritiesAssumption ==
  /\ Timeslice \in Nat \ {0}
  /\ MinimumRemainingTimeslice \in Nat
  /\ Events \subseteq Nat
  /\ SleepTimes \subseteq Nat
  /\ Priorities \subseteq -128..127
  /\ MaxPid \in Nat \ {0}

\* The indices of the six vectors of ready_processes.
Queues == 0..5

VARIABLES
  running_process,      \* Option<Pcb>
  stopped_process,      \* Option<Pcb>
  remaining_time,
  ready_processes,      \* Vec<Vec<Pcb>>
  waiting_processes,    \* Vec<Pcb>
  highest_pid,
  sleep_time,
  decision              \* what the processor last learned

vars == <<running_process, stopped_process, remaining_time, ready_processes,
          waiting_processes, highest_pid, sleep_time, decision>>

-----------------------------------------------------------------------------
(* The priority of a process. *)

\* Processes are only created with a priority that has a queue.
PriorityPcb == [pid : Pid, state : ProcessState, wakeup : WakeupCondition,
                fork_priority : Queues, priority : Queues]

NewPriorityPcb(pid, priority) ==
  [pid |-> pid, state |-> Ready, wakeup |-> NoWakeup,
   fork_priority |-> priority, priority |-> priority]

\* For mutation: the comparison with the fork priority is forgotten.
PromoteAlways(p) == [p EXCEPT !.priority = @ + 1]

\* For mutation: a system call costs priority, as an expired timeslice does.
DemoteForCalls(p) == [p EXCEPT !.priority = IF @ = 0 THEN @ ELSE @ - 1]

IncrementPriority(p) ==
  [p EXCEPT !.priority = IF @ = p.fork_priority THEN @ ELSE @ + 1]

\* For mutation: the priority of a process never decays.
KeepPriority(p) == p

DecrementPriority(p) == [p EXCEPT !.priority = IF @ = 0 THEN @ ELSE @ - 1]

-----------------------------------------------------------------------------
(* The queues of ready processes. *)

\* For mutation: a process joins the queue of the priority it was forked with.
PushByForkPriority(queues, p) ==
  [queues EXCEPT ![p.fork_priority] = Append(@, p)]

\* For mutation: a process joins the front of its queue.
PushInFront(queues, p) == [queues EXCEPT ![p.priority] = <<p>> \o @]

Push(queues, p) == [queues EXCEPT ![p.priority] = Append(@, p)]

\* What wakeup_processes pushes, in the order of the waiting list.
PushWoken(queues, waiting) ==
  [q \in Queues |->
     queues[q] \o Filter(Woken(waiting), {p \in Elements(waiting) : p.priority = q})]

NonEmptyQueues(queues) == {q \in Queues : queues[q] # << >>}

\* For mutation: filter(..).next() in place of filter(..).next_back().
FirstNonEmpty(queues) ==
  CHOOSE q \in NonEmptyQueues(queues) : \A r \in NonEmptyQueues(queues) : q <= r

\* The queue that scheduled_process takes from.
Highest(queues) ==
  CHOOSE q \in NonEmptyQueues(queues) : \A r \in NonEmptyQueues(queues) : q >= r

ReadyOf(queues) == UNION {Elements(queues[q]) : q \in Queues}

PidsOf(processes) == {p.pid : p \in processes}

RunningPids == PidsOf(running_process)
ReadyPids == PidsOf(ReadyOf(ready_processes))
WaitingPids == Pids(waiting_processes)

\* get_all_processes.
Live == running_process \cup ReadyOf(ready_processes) \cup Elements(waiting_processes)

TypeOK ==
  /\ running_process \in SUBSET PriorityPcb
  /\ stopped_process \in SUBSET PriorityPcb
  /\ remaining_time \in 0..Timeslice
  /\ ready_processes \in [Queues -> Seq(PriorityPcb)]
  /\ waiting_processes \in Seq(PriorityPcb)
  /\ highest_pid \in 0..MaxPid
  /\ sleep_time \in Nat
  /\ decision \in Decision
  /\ \A p, q \in running_process : p = q
  /\ \A p, q \in stopped_process : p = q

Init ==
  /\ running_process = {}
  /\ stopped_process = {}
  /\ remaining_time = 0
  /\ ready_processes = [q \in Queues |-> << >>]
  /\ waiting_processes = << >>
  /\ highest_pid = 0
  /\ sleep_time = 0
  /\ decision = Outcome("Start")

-----------------------------------------------------------------------------
(* stop(reason). *)

\* The system calls leave at least the unit of time they take themselves.
Remaining == 0..(remaining_time - 1)

WaitingAfter(time) == Elapsed(waiting_processes, time)

\* set_ready.
Yield(p, queues) ==
  /\ running_process' = {}
  /\ ready_processes' = Push(queues, SetReady(p))
  /\ remaining_time' = 0

Continue(p, queues, remaining) ==
  /\ running_process' = {SetRunning(p)}
  /\ ready_processes' = queues
  /\ remaining_time' = remaining

\* For mutation: the process goes on whatever is left of its timeslice.
AnyTimeIsEnough(remaining) == remaining >= 0

LongEnough(remaining) == remaining >= MinimumRemainingTimeslice

\* The first call, made by Processor::run: PID 1 has priority 0.
Start ==
  /\ decision.kind = "Start"
  /\ highest_pid' = highest_pid + 1
  /\ ready_processes' = Push(ready_processes, NewPriorityPcb(highest_pid + 1, 0))
  /\ decision' = Outcome("Stopped")
  /\ UNCHANGED <<running_process, stopped_process, remaining_time,
                 waiting_processes, sleep_time>>

Expired ==
  /\ decision.kind = "Run"
  /\ LET waiting == WaitingAfter(remaining_time)
     IN  \E p \in running_process :
           /\ Yield(DecrementPriority(p), PushWoken(ready_processes, waiting))
           /\ waiting_processes' = StillWaiting(waiting)
  /\ stopped_process' = {}
  /\ decision' = Outcome("Stopped")
  /\ UNCHANGED <<highest_pid, sleep_time>>

\* The process that forks gains priority whether or not it goes on.
Fork(priority, remaining) ==
  /\ decision.kind = "Run"
  /\ priority \in Queues
  /\ highest_pid < MaxPid
  /\ highest_pid' = highest_pid + 1
  /\ LET waiting == WaitingAfter(remaining_time - remaining)
         forked == Push(ready_processes, NewPriorityPcb(highest_pid + 1, priority))
         queues == PushWoken(forked, waiting)
     IN  \E p \in running_process :
           /\ \/ LongEnough(remaining) /\ Continue(IncrementPriority(p), queues, remaining)
              \/ ~ LongEnough(remaining) /\ Yield(IncrementPriority(p), queues)
           /\ waiting_processes' = StillWaiting(waiting)
  /\ stopped_process' = {}
  /\ decision' = Outcome("Stopped")
  /\ UNCHANGED sleep_time

\* usize_from! and get_mut: a priority that has no queue ends the program.
ForkWithoutQueue(priority) ==
  /\ decision.kind = "Run"
  /\ priority \notin Queues
  /\ decision' = Outcome("Abort")
  /\ UNCHANGED <<running_process, stopped_process, remaining_time, ready_processes,
                 waiting_processes, highest_pid, sleep_time>>

\* The process that signals gains priority only when it does not go on.
Signal(event, remaining) ==
  /\ decision.kind = "Run"
  /\ LET waiting == Notified(WaitingAfter(remaining_time - remaining), event)
         queues == PushWoken(ready_processes, waiting)
     IN  \E p \in running_process :
           /\ \/ LongEnough(remaining) /\ Continue(p, queues, remaining)
              \/ ~ LongEnough(remaining) /\ Yield(IncrementPriority(p), queues)
           /\ waiting_processes' = StillWaiting(waiting)
  /\ stopped_process' = {}
  /\ decision' = Outcome("Stopped")
  /\ UNCHANGED <<highest_pid, sleep_time>>

\* As in RoundRobin, Sleep and Wait do not call wakeup_processes.
Block(asleep, remaining) ==
  /\ waiting_processes' =
       Append(WaitingAfter(remaining_time - remaining), IncrementPriority(asleep))
  /\ running_process' = {}
  /\ stopped_process' = {}
  /\ decision' = Outcome("Stopped")
  /\ UNCHANGED <<remaining_time, ready_processes, highest_pid, sleep_time>>

Sleep(time, remaining) ==
  /\ decision.kind = "Run"
  /\ \E p \in running_process : Block(PutToSleep(p, time), remaining)

Wait(event, remaining) ==
  /\ decision.kind = "Run"
  /\ \E p \in running_process : Block(AwaitEvent(p, event), remaining)

\* The PCB of the process is left in stopped_process, where the next stop drops it.
Exit(remaining) ==
  /\ decision.kind = "Run"
  /\ LET waiting == WaitingAfter(remaining_time - remaining)
     IN  /\ ready_processes' = PushWoken(ready_processes, waiting)
         /\ waiting_processes' = StillWaiting(waiting)
  /\ running_process' = {}
  /\ stopped_process' = running_process
  /\ decision' = Outcome("Stopped")
  /\ UNCHANGED <<remaining_time, highest_pid, sleep_time>>

SystemCall ==
  \/ \E priority \in Priorities : ForkWithoutQueue(priority)
  \/ \E remaining \in Remaining :
       \/ Exit(remaining)
       \/ \E priority \in Priorities : Fork(priority, remaining)
       \/ \E event \in Events : Signal(event, remaining) \/ Wait(event, remaining)
       \/ \E time \in SleepTimes : Sleep(time, remaining)

Stop == Start \/ Expired \/ SystemCall

-----------------------------------------------------------------------------
(* next().  It first plays the sleep it asked for last time, if any. *)

NextIsDue == decision.kind \in {"Stopped", "Sleep"}

ReadyOnNext ==
  IF sleep_time = 0 THEN ready_processes
  ELSE PushWoken(ready_processes, WaitingAfter(sleep_time))

WaitingOnNext ==
  IF sleep_time = 0 THEN waiting_processes
  ELSE StillWaiting(WaitingAfter(sleep_time))

NobodyReady == NonEmptyQueues(ReadyOnNext) = {}

IsDone == running_process = {} /\ NobodyReady /\ WaitingOnNext = << >>

Pid1Exists ==
  1 \in RunningPids \cup PidsOf(ReadyOf(ReadyOnNext)) \cup Pids(WaitingOnNext)

Halt(kind) ==
  /\ ready_processes' = ReadyOnNext
  /\ waiting_processes' = WaitingOnNext
  /\ sleep_time' = 0
  /\ decision' = Outcome(kind)
  /\ UNCHANGED <<running_process, stopped_process, remaining_time, highest_pid>>

DecideDone == NextIsDue /\ IsDone /\ Halt("Done")

DecidePanic == NextIsDue /\ ~ IsDone /\ ~ Pid1Exists /\ Halt("Panic")

\* The process that made the system call goes on.
DecideContinue ==
  /\ NextIsDue
  /\ Pid1Exists
  /\ ready_processes' = ReadyOnNext
  /\ waiting_processes' = WaitingOnNext
  /\ sleep_time' = 0
  /\ \E p \in running_process :
       decision' = NonZero(remaining_time, RunFor(p.pid, remaining_time))
  /\ UNCHANGED <<running_process, stopped_process, remaining_time, highest_pid>>

\* scheduled_process and set_running: the first of the highest queue runs.
DecideDispatch ==
  /\ NextIsDue
  /\ Pid1Exists
  /\ running_process = {}
  /\ ~ NobodyReady
  /\ LET q == Highest(ReadyOnNext)
         p == Head(ReadyOnNext[q])
     IN  /\ running_process' = {SetRunning(p)}
         /\ ready_processes' = [ReadyOnNext EXCEPT ![q] = Tail(@)]
         /\ decision' = RunFor(p.pid, Timeslice)
  /\ waiting_processes' = WaitingOnNext
  /\ remaining_time' = Timeslice
  /\ sleep_time' = 0
  /\ UNCHANGED <<stopped_process, highest_pid>>

NobodyToRun == NextIsDue /\ Pid1Exists /\ running_process = {} /\ NobodyReady

\* For mutation: the sleep is announced and forgotten.
ForgetSleep(time) ==
  /\ sleep_time' = 0
  /\ decision' = NonZero(time, SleepFor(time))

PlanSleep(time) ==
  /\ sleep_time' = time
  /\ decision' = NonZero(time, SleepFor(time))

DecideSleep ==
  /\ NobodyToRun
  /\ ready_processes' = ReadyOnNext
  /\ waiting_processes' = WaitingOnNext
  /\ \E time \in FindSleepTime(WaitingOnNext) : PlanSleep(time)
  /\ UNCHANGED <<running_process, stopped_process, remaining_time, highest_pid>>

DecideDeadlock ==
  /\ NobodyToRun
  /\ FindSleepTime(WaitingOnNext) = {}
  /\ Halt("Deadlock")

NextDecision ==
  \/ DecideDone
  \/ DecidePanic
  \/ DecideContinue
  \/ DecideDispatch
  \/ DecideSleep
  \/ DecideDeadlock

-----------------------------------------------------------------------------
\* After a final decision the processor makes no more calls.
Halted == decision.kind \in Final /\ UNCHANGED vars

Next == Stop \/ NextDecision \/ Halted

Spec == Init /\ [][Next]_vars

\* The processor calls next() in a loop and the running process goes on.
FairSpec == Spec /\ WF_vars(NextDecision) /\ WF_vars(Stop)

-----------------------------------------------------------------------------
(* Safety. *)

(***************************************************************************)
(* A process is always in the queue of its priority, and its priority is   *)
(* between 0 and the one it was forked with (pcb.rs, increment_priority    *)
(* and decrement_priority): the priority is never changed while the PCB is *)
(* in a queue, by whatever calls it comes and goes.                        *)
(***************************************************************************)
QueueMatchesPriority ==
  /\ \A q \in Queues : \A i \in DOMAIN ready_processes[q] :
       ready_processes[q][i].priority = q
  /\ \A p \in Live : p.priority \in 0..p.fork_priority

(***************************************************************************)
(* A process is in one place, once: in one queue of the six, or waiting, or*)
(* running.                                                                *)
(***************************************************************************)
EachProcessOnce ==
  /\ \A q \in Queues : PidsDiffer(ready_processes[q])
  /\ \A q, r \in Queues :
       q # r => Pids(ready_processes[q]) \cap Pids(ready_processes[r]) = {}
  /\ PidsDiffer(waiting_processes)
  /\ RunningPids \cap ReadyPids = {}
  /\ (RunningPids \cup ReadyPids) \cap WaitingPids = {}
  /\ PidsOf(Live) \subseteq 1..highest_pid

(***************************************************************************)
(* A process that is given a fresh timeslice has the highest priority of   *)
(* all that were ready, those a sleep has just woken included.             *)
(***************************************************************************)
HighestPriorityFirst ==
  [][ running_process = {} /\ running_process' # {} =>
        \A p \in running_process', r \in ReadyOf(ready_processes') :
          p.priority >= r.priority ]_vars

(***************************************************************************)
(* Within a priority the processes are served in the order they became     *)
(* ready: a queue only grows at its end and shrinks at its head, and what  *)
(* leaves a head is what runs.                                             *)
(***************************************************************************)
BeginsWith(list, prefix) ==
  Len(prefix) <= Len(list) /\ SubSeq(list, 1, Len(prefix)) = prefix

ServedInOrder ==
  [][ \A q \in Queues :
        \/ BeginsWith(ready_processes'[q], ready_processes[q])
        \/ /\ ready_processes[q] # << >>
           /\ RunningPids' = {Head(ready_processes[q]).pid}
           /\ BeginsWith(ready_processes'[q], Tail(ready_processes[q])) ]_vars

(***************************************************************************)
(* A process that makes a system call in time never loses priority for it, *)
(* now or when it is woken up later: only a process that uses up its       *)
(* timeslice does, and then no other process changes priority.             *)
(***************************************************************************)
Demoted ==
  {p \in Live : \E q \in Live' : q.pid = p.pid /\ q.priority < p.priority}

OnlyExpiryDemotes ==
  [][ /\ Demoted # {} => Expired
      /\ Expired => Demoted \subseteq running_process ]_vars

(***************************************************************************)
(* The scheduler does what Scheduler specifies, in every call, as RoundRobin*)
(* does: the queues decide who runs next and nothing else.                 *)
(***************************************************************************)
WakeupOf(pid) == (CHOOSE p \in Live : p.pid = pid).wakeup

WakeupConditions == [pid \in PidsOf(Live) |-> WakeupOf(pid)]

ReadyInWaiting == Pids(Woken(waiting_processes))

Contract == INSTANCE Scheduler
  WITH wakeup <- WakeupConditions,
       overlooked <- ReadyInWaiting,
       Times <- 1..Timeslice,
       Overlooks <- TRUE

ImplementsScheduler == Contract!Spec

\* next() never calls exit(-1): true if every priority asked for has a queue.
NeverAborts == decision.kind # "Abort"

(***************************************************************************)
(* Liveness.  A process of a low priority may be starved by processes that *)
(* keep making system calls in time: that is what the priorities are for.  *)
(* What the decay of priorities promises is that processes that only       *)
(* compute cannot starve anyone, however high they started: if from some   *)
(* time on every stop() of a running process can be an expired timeslice,  *)
(* every ready process gets to run.                                        *)
(***************************************************************************)
Over == decision.kind \in Final

ComputingCannotStarve ==
  <>[][decision.kind = "Run" => Expired]_vars =>
    \A pid \in 1..MaxPid : pid \in ReadyPids ~> pid \in RunningPids \/ Over

(***************************************************************************)
(* A sleep ends, whatever the others do, unless the simulation does.       *)
(***************************************************************************)
SleepingPids ==
  {waiting_processes[i].pid :
     i \in {j \in DOMAIN waiting_processes : waiting_processes[j].wakeup.kind = "Sleep"}}

SleepsEnd ==
  \A pid \in 1..MaxPid : pid \in SleepingPids ~> pid \notin SleepingPids \/ Over

-----------------------------------------------------------------------------
(***************************************************************************)
(* scheduler.rs:53-56, Deadlock: "The OS cannot continue anymore, as all   *)
(* the processes are waiting for events."  As in RoundRobin, a process     *)
(* whose sleep ran out during a Sleep or a Wait call is overlooked.        *)
(***************************************************************************)
DeadlockMeansAllWaiting ==
  decision.kind = "Deadlock" => \A p \in Live : p.state.kind = "Waiting"
=============================================================================
