-------------------------- MODULE PrioritiesProofs --------------------------
(***************************************************************************)
(* Theorems about the priority queue scheduler, for every timeslice and    *)
(* minimum, any events, sleep times, priorities and number of processes.   *)
(* As for round robin, the inductive invariant Coherent says which PCBs may*)
(* be in which place: in queue q only those of priority q, nowhere one     *)
(* whose priority is above the one it was forked with.                     *)
(***************************************************************************)
EXTENDS RoundRobinPriorities, PcbTheorems

Parked(p) == p.state = Ready /\ p.wakeup = NoWakeup

Asleep(p) == p.state = Waiting({}) /\ p.wakeup.kind = "Sleep"

Awaiting(p, event) == p.state = Waiting({event}) /\ p.wakeup = SignalWakeup(event)

Blocked(p) == Asleep(p) \/ \E event \in Events : Awaiting(p, event)

\* The processes whose priority is one they may have.
Ranked == {p \in PriorityPcb : p.priority <= p.fork_priority}

RunningPcbs == {p \in Ranked : p.state = Running /\ p.wakeup = NoWakeup}
ReadyPcbs == {p \in Ranked : Parked(p)}
WaitingPcbs == {p \in Ranked : Parked(p) \/ Blocked(p)}

OfPriority(q) == {p \in ReadyPcbs : p.priority = q}

ReadyQueues == {queues \in [Queues -> Seq(ReadyPcbs)] :
                  \A q \in Queues : queues[q] \in Seq(OfPriority(q))}

DecisionMatchesState ==
  /\ decision.kind = "Run" =>
       \E p \in running_process : decision = RunFor(p.pid, remaining_time)
  /\ decision.kind = "Sleep" => decision = SleepFor(sleep_time)
  /\ sleep_time # 0 => decision.kind = "Sleep"

Nothing ==
  /\ running_process = {}
  /\ ready_processes = [q \in Queues |-> << >>]
  /\ waiting_processes = << >>
  /\ highest_pid = 0

Coherent ==
  /\ running_process \in SUBSET RunningPcbs
  /\ \A p, q \in running_process : p = q
  /\ stopped_process \in SUBSET Ranked
  /\ \A p, q \in stopped_process : p = q
  /\ remaining_time \in 0..Timeslice
  /\ ready_processes \in ReadyQueues
  /\ waiting_processes \in Seq(WaitingPcbs)
  /\ highest_pid \in 0..MaxPid
  /\ sleep_time \in Nat
  /\ decision \in Decision
  /\ decision.kind = "Start" => Nothing
  /\ DecisionMatchesState

-----------------------------------------------------------------------------
(* The PCBs. *)

\* The states and the wakeup conditions are told apart by their kinds.
LEMMA Kinds ==
  /\ Ready.kind = "Ready" /\ Running.kind = "Running"
  /\ \A event : Waiting(event).kind = "Waiting"
  /\ NoWakeup.kind = "None"
  /\ \A event : SignalWakeup(event).kind = "Signal"
BY DEF Ready, Running, Waiting, NoWakeup, SignalWakeup

\* What the operations make of a process, and that it stays the same process.
LEMMA PcbOperations ==
  ASSUME NEW p \in Ranked
  PROVE  /\ SetReady(p) \in ReadyPcbs /\ SetReady(p).pid = p.pid
         /\ p.wakeup = NoWakeup =>
              SetRunning(p) \in RunningPcbs /\ SetRunning(p).pid = p.pid
         /\ \A time \in Nat :
              PutToSleep(p, time) \in WaitingPcbs /\ PutToSleep(p, time).pid = p.pid
         /\ \A event \in Events :
              AwaitEvent(p, event) \in WaitingPcbs /\ AwaitEvent(p, event).pid = p.pid
<1>1. SetReady(p) \in ReadyPcbs /\ SetReady(p).pid = p.pid
  BY DEF SetReady, ReadyPcbs, Ranked, Parked, PriorityPcb, Ready, NoWakeup, ProcessState,
         WakeupCondition
<1>2. ASSUME p.wakeup = NoWakeup
      PROVE  SetRunning(p) \in RunningPcbs /\ SetRunning(p).pid = p.pid
  BY <1>2 DEF SetRunning, RunningPcbs, Ranked, PriorityPcb, Running, ProcessState
<1>3. ASSUME NEW time \in Nat
      PROVE  PutToSleep(p, time) \in WaitingPcbs /\ PutToSleep(p, time).pid = p.pid
  BY DEF PutToSleep, WaitingPcbs, Ranked, Blocked, Asleep, PriorityPcb, Waiting,
         SleepWakeup, ProcessState, WakeupCondition
<1>4. ASSUME NEW event \in Events
      PROVE  AwaitEvent(p, event) \in WaitingPcbs /\ AwaitEvent(p, event).pid = p.pid
  <2>1. event \in Nat
    BY RoundRobinPrioritiesAssumption
  <2> QED
    BY <2>1 DEF AwaitEvent, WaitingPcbs, Ranked, Blocked, Awaiting, PriorityPcb, Waiting,
                SignalWakeup, ProcessState, WakeupCondition
<1> QED
  BY <1>1, <1>2, <1>3, <1>4

\* A change of priority keeps the rest, and the priority between its bounds.
LEMMA PriorityOperations ==
  ASSUME NEW p \in Ranked
  PROVE  /\ IncrementPriority(p) \in Ranked /\ DecrementPriority(p) \in Ranked
         /\ IncrementPriority(p).pid = p.pid /\ DecrementPriority(p).pid = p.pid
         /\ IncrementPriority(p).wakeup = p.wakeup
         /\ DecrementPriority(p).wakeup = p.wakeup
         /\ p \in WaitingPcbs => IncrementPriority(p) \in WaitingPcbs
<1>1. /\ p.priority \in Queues /\ p.fork_priority \in Queues
      /\ p.priority <= p.fork_priority
      /\ p = [pid |-> p.pid, state |-> p.state, wakeup |-> p.wakeup,
              fork_priority |-> p.fork_priority, priority |-> p.priority]
  BY DEF Ranked, PriorityPcb
<1>2. /\ IncrementPriority(p).pid = p.pid
      /\ IncrementPriority(p).state = p.state
      /\ IncrementPriority(p).wakeup = p.wakeup
      /\ DecrementPriority(p).pid = p.pid
      /\ DecrementPriority(p).wakeup = p.wakeup
  BY <1>1 DEF IncrementPriority, DecrementPriority
<1>3. IncrementPriority(p) \in Ranked
  BY <1>1 DEF IncrementPriority, Ranked, PriorityPcb, Queues
<1>4. DecrementPriority(p) \in Ranked
  BY <1>1 DEF DecrementPriority, Ranked, PriorityPcb, Queues
<1> QED
  BY <1>2, <1>3, <1>4 DEF WaitingPcbs, Parked, Blocked, Asleep, Awaiting

LEMMA NewPcbReady ==
  ASSUME NEW pid \in Pid, NEW priority \in Queues
  PROVE  NewPriorityPcb(pid, priority) \in ReadyPcbs
BY DEF NewPriorityPcb, ReadyPcbs, Ranked, Parked, PriorityPcb, Ready, NoWakeup,
       ProcessState, WakeupCondition, Queues

\* Time passes for a process of the waiting list.
LEMMA ElapseWaiting ==
  ASSUME NEW p \in WaitingPcbs, NEW time \in Nat
  PROVE  Elapse(p, time) \in WaitingPcbs /\ Elapse(p, time).pid = p.pid
<1>1. p \in Ranked
  BY DEF WaitingPcbs
<1>2. CASE p.wakeup.kind # "Sleep"
  BY <1>2 DEF Elapse
<1>3. CASE p.wakeup.kind = "Sleep" /\ p.wakeup.arg > time
  <2>1. Asleep(p)
    BY <1>3, Kinds DEF WaitingPcbs, Parked, Blocked, Awaiting
  <2>2. p.wakeup.arg - time \in Nat
    BY <1>1, <1>3 DEF Ranked, PriorityPcb, WakeupCondition
  <2> QED
    BY <1>1, <1>3, <2>1, <2>2
       DEF Elapse, WaitingPcbs, Ranked, Blocked, Asleep, PriorityPcb, SleepWakeup,
           WakeupCondition
<1>4. CASE p.wakeup.kind = "Sleep" /\ ~(p.wakeup.arg > time)
  BY <1>1, <1>4, PcbOperations DEF Elapse, WaitingPcbs, ReadyPcbs
<1> QED
  BY <1>2, <1>3, <1>4

LEMMA NotifyWaiting ==
  ASSUME NEW p \in WaitingPcbs, NEW event
  PROVE  Notify(p, event) \in WaitingPcbs /\ Notify(p, event).pid = p.pid
BY PcbOperations DEF Notify, WaitingPcbs, ReadyPcbs

-----------------------------------------------------------------------------
(* The waiting list. *)

LEMMA ElapsedWaiting ==
  ASSUME NEW list \in Seq(WaitingPcbs), NEW time \in Nat
  PROVE  /\ Elapsed(list, time) \in Seq(WaitingPcbs)
         /\ Pids(Elapsed(list, time)) = Pids(list)
         /\ PidsDiffer(list) => PidsDiffer(Elapsed(list, time))
<1>1. \A i \in DOMAIN list : /\ Elapsed(list, time)[i] \in WaitingPcbs
                             /\ Elapsed(list, time)[i].pid = list[i].pid
  BY ElapseWaiting DEF Elapsed
<1>2. Elapsed(list, time) = [i \in DOMAIN list |-> Elapsed(list, time)[i]]
  BY DEF Elapsed
<1> QED
  BY <1>1, <1>2, MappedType, MappedPids

LEMMA NotifiedWaiting ==
  ASSUME NEW list \in Seq(WaitingPcbs), NEW event
  PROVE  /\ Notified(list, event) \in Seq(WaitingPcbs)
         /\ Pids(Notified(list, event)) = Pids(list)
         /\ PidsDiffer(list) => PidsDiffer(Notified(list, event))
<1>1. \A i \in DOMAIN list : /\ Notified(list, event)[i] \in WaitingPcbs
                             /\ Notified(list, event)[i].pid = list[i].pid
  BY NotifyWaiting DEF Notified
<1>2. Notified(list, event) = [i \in DOMAIN list |-> Notified(list, event)[i]]
  BY DEF Notified
<1> QED
  BY <1>1, <1>2, MappedType, MappedPids

LEMMA WakeupWaiting ==
  ASSUME NEW list \in Seq(WaitingPcbs)
  PROVE  /\ Woken(list) \in Seq(ReadyPcbs)
         /\ StillWaiting(list) \in Seq(WaitingPcbs)
<1>1. {p \in WaitingPcbs : p.state = Ready} \subseteq ReadyPcbs
  BY Kinds DEF WaitingPcbs, ReadyPcbs, Blocked, Asleep, Awaiting
<1>2. {p \in WaitingPcbs : p.state # Ready} \subseteq WaitingPcbs
  OBVIOUS
<1> QED
  BY <1>1, <1>2, WakeupType, SeqMonotonic

LEMMA SleepTimeIsNat ==
  ASSUME NEW list \in Seq(WaitingPcbs)
  PROVE  FindSleepTime(list) \subseteq Nat
BY DEF FindSleepTime, SleepingTimes, WaitingPcbs, Ranked, PriorityPcb, WakeupCondition

-----------------------------------------------------------------------------
(* The queues. *)

LEMMA QueueTypes ==
  ASSUME NEW queues \in ReadyQueues
  PROVE  /\ \A q \in Queues : queues[q] \in Seq(OfPriority(q)) /\ queues[q] \in Seq(ReadyPcbs)
         /\ ReadyOf(queues) \subseteq ReadyPcbs
<1>1. \A q \in Queues : queues[q] \in Seq(OfPriority(q)) /\ queues[q] \in Seq(ReadyPcbs)
  BY DEF ReadyQueues
<1> QED
  BY <1>1, ElementsType DEF ReadyOf

\* A process is pushed on the queue of its priority.
LEMMA PushReady ==
  ASSUME NEW queues \in ReadyQueues, NEW p \in ReadyPcbs
  PROVE  /\ p.priority \in Queues
         /\ Push(queues, p) \in ReadyQueues
         /\ \A q \in Queues : Push(queues, p)[q] =
              IF q = p.priority THEN Append(queues[q], p) ELSE queues[q]
         /\ ReadyOf(Push(queues, p)) = ReadyOf(queues) \cup {p}
<1> DEFINE more == Push(queues, p)
<1>1. p.priority \in Queues /\ p \in OfPriority(p.priority)
  BY DEF ReadyPcbs, Ranked, PriorityPcb, OfPriority
<1>2. queues \in [Queues -> Seq(ReadyPcbs)]
  BY DEF ReadyQueues
<1>3. /\ DOMAIN more = Queues
      /\ more = [q \in Queues |-> more[q]]
      /\ \A q \in Queues : more[q] = IF q = p.priority THEN Append(queues[q], p) ELSE queues[q]
  BY <1>1, <1>2 DEF Push
<1> HIDE DEF more
<1>4. ASSUME NEW q \in Queues
      PROVE  /\ more[q] \in Seq(OfPriority(q)) /\ more[q] \in Seq(ReadyPcbs)
             /\ Elements(more[q]) =
                  IF q = p.priority THEN Elements(queues[q]) \cup {p} ELSE Elements(queues[q])
  <2>1. queues[q] \in Seq(OfPriority(q)) /\ queues[q] \in Seq(ReadyPcbs)
    BY QueueTypes
  <2>2. CASE q = p.priority
    <3>1. more[q] = Append(queues[q], p) /\ p \in OfPriority(q)
      BY <1>1, <1>3, <2>2
    <3>2. /\ Append(queues[q], p) \in Seq(OfPriority(q))
          /\ Append(queues[q], p) \in Seq(ReadyPcbs)
      BY <2>1, <3>1, AppendProperties
    <3>3. Elements(Append(queues[q], p)) = Elements(queues[q]) \cup {p}
      BY <2>1, ElementsAppend
    <3> QED
      BY <2>2, <3>1, <3>2, <3>3
  <2>3. CASE q # p.priority
    BY <1>3, <2>1, <2>3
  <2> QED
    BY <2>2, <2>3
<1>5. more \in ReadyQueues
  BY <1>3, <1>4 DEF ReadyQueues
<1>6. ReadyOf(more) = ReadyOf(queues) \cup {p}
  BY <1>1, <1>4 DEF ReadyOf
<1> QED
  BY <1>1, <1>3, <1>5, <1>6 DEF more

\* The processes that are woken are pushed each on the queue of its priority.
LEMMA PushWokenReady ==
  ASSUME NEW queues \in ReadyQueues, NEW waiting \in Seq(WaitingPcbs)
  PROVE  /\ PushWoken(queues, waiting) \in ReadyQueues
         /\ ReadyOf(PushWoken(queues, waiting)) = ReadyOf(queues) \cup Elements(Woken(waiting))
<1> DEFINE woken == Woken(waiting)
           Kept(q) == {p \in Elements(waiting) : p.priority = q}
           more == PushWoken(queues, waiting)
<1>1. woken \in Seq(ReadyPcbs) /\ Elements(woken) \subseteq Elements(waiting)
  BY WakeupWaiting, WakeupElements
<1>2. \A q \in Queues : more[q] = queues[q] \o Filter(woken, Kept(q))
  BY DEF PushWoken
<1>3. more = [q \in Queues |-> more[q]]
  BY DEF PushWoken
<1>4. ASSUME NEW q \in Queues
      PROVE  /\ Filter(woken, Kept(q)) \in Seq(OfPriority(q))
             /\ Filter(woken, Kept(q)) \in Seq(ReadyPcbs)
             /\ Elements(Filter(woken, Kept(q))) = {p \in Elements(woken) : p.priority = q}
  <2>1. ReadyPcbs \cap Kept(q) \subseteq OfPriority(q) /\ OfPriority(q) \subseteq ReadyPcbs
    BY DEF OfPriority
  <2>2. Filter(woken, Kept(q)) \in Seq(ReadyPcbs \cap Kept(q))
    BY <1>1, FilterType
  <2>3. Elements(Filter(woken, Kept(q))) = Elements(woken) \cap Kept(q)
    BY <1>1, FilterElements
  <2> QED
    BY <1>1, <2>1, <2>2, <2>3, SeqMonotonic
<1> HIDE DEF woken, Kept, more
<1>5. ASSUME NEW q \in Queues
      PROVE  /\ more[q] \in Seq(OfPriority(q)) /\ more[q] \in Seq(ReadyPcbs)
             /\ Elements(more[q]) = Elements(queues[q]) \cup {p \in Elements(woken) : p.priority = q}
  <2> DEFINE added == Filter(woken, Kept(q))
  <2>1. /\ queues[q] \in Seq(OfPriority(q)) /\ queues[q] \in Seq(ReadyPcbs)
        /\ added \in Seq(OfPriority(q)) /\ added \in Seq(ReadyPcbs)
        /\ Elements(added) = {p \in Elements(woken) : p.priority = q}
        /\ more[q] = queues[q] \o added
    BY <1>2, <1>4, QueueTypes
  <2> HIDE DEF added
  <2>2. queues[q] \o added \in Seq(OfPriority(q)) /\ queues[q] \o added \in Seq(ReadyPcbs)
    BY <2>1, ConcatProperties
  <2>3. Elements(queues[q] \o added) = Elements(queues[q]) \cup Elements(added)
    BY <2>1, ElementsConcat
  <2> QED
    BY <2>1, <2>2, <2>3
<1>6. more \in ReadyQueues
  BY <1>3, <1>5 DEF ReadyQueues
<1>7. \A p \in Elements(woken) : p.priority \in Queues
  BY <1>1, ElementsType DEF ReadyPcbs, Ranked, PriorityPcb
<1>8. ReadyOf(more) = ReadyOf(queues) \cup Elements(woken)
  <2>1. ASSUME NEW p \in ReadyOf(more) PROVE p \in ReadyOf(queues) \cup Elements(woken)
    BY <1>5 DEF ReadyOf
  <2>2. ASSUME NEW p \in ReadyOf(queues) \cup Elements(woken) PROVE p \in ReadyOf(more)
    BY <1>5, <1>7 DEF ReadyOf
  <2> QED
    BY <2>1, <2>2
<1> QED
  BY <1>6, <1>8 DEF more, woken

-----------------------------------------------------------------------------
(* The pieces the calls are made of. *)

\* What every stop of a running process starts from.
LEMMA RunningStep ==
  ASSUME Coherent, decision.kind = "Run", NEW p \in running_process
  PROVE  /\ p \in Ranked /\ p.wakeup = NoWakeup
         /\ running_process = {p}
         /\ sleep_time = 0
         /\ remaining_time \in 0..Timeslice
         /\ \A time \in Nat : WaitingAfter(time) \in Seq(WaitingPcbs)
         /\ decision = RunFor(p.pid, remaining_time)
BY ElapsedWaiting DEF Coherent, RunningPcbs, DecisionMatchesState, WaitingAfter

\* A system call leaves some of the time, so that time has passed.
LEMMA RemainingStep ==
  ASSUME remaining_time \in 0..Timeslice, NEW remaining \in Remaining
  PROVE  /\ remaining \in 0..Timeslice
         /\ remaining_time - remaining \in Nat
BY RoundRobinPrioritiesAssumption DEF Remaining

\* The process that stops joins the ready processes or goes on.
LEMMA YieldStep ==
  ASSUME NEW p \in Ranked, NEW queues \in ReadyQueues, Yield(p, queues)
  PROVE  /\ running_process' = {}
         /\ ready_processes' \in ReadyQueues
         /\ remaining_time' \in 0..Timeslice
<1>1. SetReady(p) \in ReadyPcbs
  BY PcbOperations
<1> QED
  BY <1>1, PushReady, RoundRobinPrioritiesAssumption DEF Yield

LEMMA ContinueStep ==
  ASSUME NEW p \in Ranked, p.wakeup = NoWakeup, NEW queues \in ReadyQueues,
         NEW remaining \in 0..Timeslice, Continue(p, queues, remaining)
  PROVE  /\ running_process' \in SUBSET RunningPcbs
         /\ \A q, r \in running_process' : q = r
         /\ ready_processes' \in ReadyQueues
         /\ remaining_time' \in 0..Timeslice
BY PcbOperations DEF Continue

\* The end of every stop.
LEMMA StoppedStep ==
  ASSUME running_process' \in SUBSET RunningPcbs,
         \A p, q \in running_process' : p = q,
         stopped_process' \in SUBSET Ranked,
         \A p, q \in stopped_process' : p = q,
         remaining_time' \in 0..Timeslice,
         ready_processes' \in ReadyQueues,
         waiting_processes' \in Seq(WaitingPcbs),
         highest_pid' \in 0..MaxPid,
         sleep_time' = 0,
         decision' = Outcome("Stopped")
  PROVE  Coherent'
BY DEF Coherent, DecisionMatchesState, Outcome, Decision

\* What every next() starts from: the sleep that was announced has been played.
LEMMA NextStep ==
  ASSUME Coherent
  PROVE  /\ ReadyOnNext \in ReadyQueues
         /\ WaitingOnNext \in Seq(WaitingPcbs)
<1>1. WaitingAfter(sleep_time) \in Seq(WaitingPcbs)
  BY ElapsedWaiting DEF Coherent, WaitingAfter
<1> QED
  BY <1>1, PushWokenReady, WakeupWaiting DEF Coherent, ReadyOnNext, WaitingOnNext

\* The final decisions.
LEMMA HaltStep ==
  ASSUME Coherent, NEW kind \in Final, Halt(kind)
  PROVE  Coherent'
BY NextStep DEF Coherent, Halt, DecisionMatchesState, Outcome, Decision, Final

-----------------------------------------------------------------------------
(* Every call keeps the invariant. *)

LEMMA InitCoherent == Init => Coherent
<1> SUFFICES ASSUME Init PROVE Coherent
  OBVIOUS
<1>1. ready_processes \in ReadyQueues
  <2>1. << >> \in Seq(ReadyPcbs) /\ \A q \in Queues : << >> \in Seq(OfPriority(q))
    OBVIOUS
  <2> QED
    BY <2>1 DEF Init, ReadyQueues
<1> QED
  BY <1>1, RoundRobinPrioritiesAssumption
     DEF Init, Coherent, Nothing, DecisionMatchesState, Outcome, Decision

LEMMA StartCoherent ==
  ASSUME Coherent, Start
  PROVE  Coherent'
<1>1. Nothing
  BY DEF Coherent, Start
<1>2. sleep_time' = 0
  BY DEF Coherent, Start, DecisionMatchesState
<1>3. highest_pid' = 1 /\ ready_processes' = Push(ready_processes, NewPriorityPcb(1, 0))
  BY <1>1 DEF Start, Nothing
<1>4. NewPriorityPcb(1, 0) \in ReadyPcbs
  BY NewPcbReady DEF Pid, Queues
<1>5. 1 \in 0..MaxPid
  BY RoundRobinPrioritiesAssumption
<1>6. ready_processes' \in ReadyQueues
  BY <1>3, <1>4, PushReady DEF Coherent
<1> QED
  BY <1>1, <1>2, <1>3, <1>5, <1>6, StoppedStep DEF Coherent, Start, Nothing

LEMMA ExpiredCoherent ==
  ASSUME Coherent, Expired
  PROVE  Coherent'
<1> DEFINE waiting == WaitingAfter(remaining_time)
<1>1. PICK p \in running_process :
         /\ Yield(DecrementPriority(p), PushWoken(ready_processes, waiting))
         /\ waiting_processes' = StillWaiting(waiting)
  BY DEF Expired
<1>2. DecrementPriority(p) \in Ranked /\ sleep_time = 0 /\ waiting \in Seq(WaitingPcbs)
  BY <1>1, RunningStep, PriorityOperations DEF Expired, Coherent
<1> HIDE DEF waiting
<1>3. /\ PushWoken(ready_processes, waiting) \in ReadyQueues
      /\ StillWaiting(waiting) \in Seq(WaitingPcbs)
  BY <1>2, PushWokenReady, WakeupWaiting DEF Coherent
<1>4. /\ running_process' = {}
      /\ ready_processes' \in ReadyQueues
      /\ remaining_time' \in 0..Timeslice
  BY <1>1, <1>2, <1>3, YieldStep
<1> QED
  BY <1>1, <1>2, <1>3, <1>4, StoppedStep DEF Expired, Coherent

\* How Fork and Signal end.
LEMMA CallCoherent ==
  ASSUME Coherent, decision.kind = "Run", NEW p \in running_process,
         NEW remaining \in Remaining,
         NEW waiting \in Seq(WaitingPcbs), NEW queues \in ReadyQueues,
         NEW q \in Ranked, q.wakeup = NoWakeup,
         \/ Continue(q, PushWoken(queues, waiting), remaining)
         \/ Yield(q, PushWoken(queues, waiting)),
         waiting_processes' = StillWaiting(waiting),
         stopped_process' = {},
         highest_pid' \in 0..MaxPid,
         decision' = Outcome("Stopped"),
         UNCHANGED sleep_time
  PROVE  Coherent'
<1>1. remaining \in 0..Timeslice /\ sleep_time = 0
  BY RunningStep, RemainingStep
<1>2. /\ PushWoken(queues, waiting) \in ReadyQueues
      /\ StillWaiting(waiting) \in Seq(WaitingPcbs)
  BY PushWokenReady, WakeupWaiting
<1>3. /\ running_process' \in SUBSET RunningPcbs
      /\ \A r, s \in running_process' : r = s
      /\ ready_processes' \in ReadyQueues
      /\ remaining_time' \in 0..Timeslice
  <2>1. CASE Continue(q, PushWoken(queues, waiting), remaining)
    BY <1>1, <1>2, <2>1, ContinueStep
  <2>2. CASE Yield(q, PushWoken(queues, waiting))
    BY <1>2, <2>2, YieldStep
  <2> QED
    BY <2>1, <2>2
<1> QED
  BY <1>1, <1>2, <1>3, StoppedStep

LEMMA ForkCoherent ==
  ASSUME Coherent, NEW priority, NEW remaining \in Remaining, Fork(priority, remaining)
  PROVE  Coherent'
<1> DEFINE waiting == WaitingAfter(remaining_time - remaining)
           forked == Push(ready_processes, NewPriorityPcb(highest_pid + 1, priority))
<1>1. PICK p \in running_process :
         /\ \/ Continue(IncrementPriority(p), PushWoken(forked, waiting), remaining)
            \/ Yield(IncrementPriority(p), PushWoken(forked, waiting))
         /\ waiting_processes' = StillWaiting(waiting)
  BY DEF Fork
<1>2. /\ decision.kind = "Run" /\ priority \in Queues /\ highest_pid < MaxPid
      /\ highest_pid' = highest_pid + 1 /\ stopped_process' = {}
      /\ decision' = Outcome("Stopped") /\ UNCHANGED sleep_time
  BY DEF Fork
<1>3. p \in Ranked /\ p.wakeup = NoWakeup /\ waiting \in Seq(WaitingPcbs)
  BY <1>1, <1>2, RunningStep, RemainingStep
<1>4. highest_pid + 1 \in Pid /\ highest_pid' \in 0..MaxPid
  BY <1>2, RoundRobinPrioritiesAssumption DEF Coherent, Pid
<1>5. forked \in ReadyQueues
  BY <1>2, <1>4, NewPcbReady, PushReady DEF Coherent
<1>6. IncrementPriority(p) \in Ranked /\ IncrementPriority(p).wakeup = NoWakeup
  BY <1>3, PriorityOperations
<1> HIDE DEF waiting, forked
<1> QED
  BY <1>1, <1>2, <1>3, <1>4, <1>5, <1>6, CallCoherent

LEMMA SignalCoherent ==
  ASSUME Coherent, NEW event, NEW remaining \in Remaining, Signal(event, remaining)
  PROVE  Coherent'
<1> DEFINE waiting == Notified(WaitingAfter(remaining_time - remaining), event)
<1>1. PICK p \in running_process :
         /\ \/ Continue(p, PushWoken(ready_processes, waiting), remaining)
            \/ Yield(IncrementPriority(p), PushWoken(ready_processes, waiting))
         /\ waiting_processes' = StillWaiting(waiting)
  BY DEF Signal
<1>2. /\ decision.kind = "Run" /\ stopped_process' = {}
      /\ decision' = Outcome("Stopped") /\ UNCHANGED sleep_time
      /\ highest_pid' \in 0..MaxPid /\ ready_processes \in ReadyQueues
  BY DEF Signal, Coherent
<1>3. p \in Ranked /\ p.wakeup = NoWakeup /\ waiting \in Seq(WaitingPcbs)
  BY <1>1, <1>2, RunningStep, RemainingStep, NotifiedWaiting
<1>4. IncrementPriority(p) \in Ranked /\ IncrementPriority(p).wakeup = NoWakeup
  BY <1>3, PriorityOperations
<1> HIDE DEF waiting
<1>5. CASE Continue(p, PushWoken(ready_processes, waiting), remaining)
  BY <1>1, <1>2, <1>3, <1>5, CallCoherent
<1>6. CASE Yield(IncrementPriority(p), PushWoken(ready_processes, waiting))
  BY <1>1, <1>2, <1>3, <1>4, <1>6, CallCoherent
<1> QED
  BY <1>1, <1>5, <1>6

LEMMA BlockCoherent ==
  ASSUME Coherent, decision.kind = "Run", NEW remaining \in Remaining,
         NEW p \in running_process, NEW asleep \in WaitingPcbs,
         Block(asleep, remaining)
  PROVE  Coherent'
<1>1. sleep_time = 0 /\ WaitingAfter(remaining_time - remaining) \in Seq(WaitingPcbs)
  BY RunningStep, RemainingStep
<1>2. IncrementPriority(asleep) \in WaitingPcbs
  BY PriorityOperations DEF WaitingPcbs
<1>3. waiting_processes' \in Seq(WaitingPcbs)
  BY <1>1, <1>2 DEF Block
<1> QED
  BY <1>1, <1>3, StoppedStep DEF Block, Coherent

\* Sleep and Wait put a process that may be there in the waiting list.
LEMMA Blocks ==
  ASSUME Coherent, NEW remaining \in Remaining,
         \/ \E time \in SleepTimes : Sleep(time, remaining)
         \/ \E event \in Events : Wait(event, remaining)
  PROVE  /\ decision.kind = "Run"
         /\ \E p \in running_process, asleep \in WaitingPcbs :
              asleep.pid = p.pid /\ asleep.wakeup # NoWakeup /\ Block(asleep, remaining)
<1>1. CASE \E time \in SleepTimes : Sleep(time, remaining)
  <2>1. PICK time \in SleepTimes, p \in running_process : Block(PutToSleep(p, time), remaining)
    BY <1>1 DEF Sleep
  <2>2. decision.kind = "Run" /\ p \in Ranked /\ time \in Nat
    BY <1>1, <2>1, RunningStep, RoundRobinPrioritiesAssumption DEF Sleep
  <2>3. PutToSleep(p, time) \in WaitingPcbs /\ PutToSleep(p, time).pid = p.pid
    BY <2>2, PcbOperations
  <2>4. PutToSleep(p, time).wakeup # NoWakeup
    BY <2>2 DEF PutToSleep, Ranked, PriorityPcb, SleepWakeup, NoWakeup
  <2> QED
    BY <2>1, <2>2, <2>3, <2>4
<1>2. CASE \E event \in Events : Wait(event, remaining)
  <2>1. PICK event \in Events, p \in running_process : Block(AwaitEvent(p, event), remaining)
    BY <1>2 DEF Wait
  <2>2. decision.kind = "Run" /\ p \in Ranked
    BY <1>2, <2>1, RunningStep DEF Wait
  <2>3. AwaitEvent(p, event) \in WaitingPcbs /\ AwaitEvent(p, event).pid = p.pid
    BY <2>2, PcbOperations
  <2>4. AwaitEvent(p, event).wakeup # NoWakeup
    BY <2>2 DEF AwaitEvent, Ranked, PriorityPcb, SignalWakeup, NoWakeup
  <2> QED
    BY <2>1, <2>2, <2>3, <2>4
<1> QED
  BY <1>1, <1>2

LEMMA ExitCoherent ==
  ASSUME Coherent, NEW remaining \in Remaining, Exit(remaining)
  PROVE  Coherent'
<1> DEFINE waiting == WaitingAfter(remaining_time - remaining)
<1>1. PICK p \in running_process : TRUE
  BY DEF Exit, Coherent, DecisionMatchesState
<1>2. sleep_time = 0 /\ waiting \in Seq(WaitingPcbs)
  BY <1>1, RunningStep, RemainingStep DEF Exit
<1>3. running_process \in SUBSET Ranked
  BY DEF Coherent, RunningPcbs
<1>4. /\ ready_processes' = PushWoken(ready_processes, waiting)
      /\ waiting_processes' = StillWaiting(waiting)
  BY DEF Exit
<1> HIDE DEF waiting
<1>5. /\ ready_processes' \in ReadyQueues
      /\ waiting_processes' \in Seq(WaitingPcbs)
  BY <1>2, <1>4, PushWokenReady, WakeupWaiting DEF Coherent
<1> QED
  BY <1>2, <1>3, <1>5, StoppedStep DEF Exit, Coherent

LEMMA StopCoherent ==
  ASSUME Coherent, Stop
  PROVE  Coherent'
<1>1. CASE Start
  BY <1>1, StartCoherent
<1>2. CASE Expired
  BY <1>2, ExpiredCoherent
<1>3. ASSUME NEW priority, ForkWithoutQueue(priority) PROVE Coherent'
  <2>1. sleep_time = 0 /\ decision' = Outcome("Abort")
    BY <1>3 DEF ForkWithoutQueue, Coherent, DecisionMatchesState
  <2> QED
    BY <1>3, <2>1 DEF ForkWithoutQueue, Coherent, DecisionMatchesState, Outcome, Decision, Final
<1>4. ASSUME NEW remaining \in Remaining, NEW priority, Fork(priority, remaining)
      PROVE  Coherent'
  BY <1>4, ForkCoherent
<1>5. ASSUME NEW remaining \in Remaining, Exit(remaining) PROVE Coherent'
  BY <1>5, ExitCoherent
<1>6. ASSUME NEW remaining \in Remaining, NEW event, Signal(event, remaining)
      PROVE  Coherent'
  BY <1>6, SignalCoherent
<1>7. ASSUME NEW remaining \in Remaining,
             \/ \E time \in SleepTimes : Sleep(time, remaining)
             \/ \E event \in Events : Wait(event, remaining)
      PROVE  Coherent'
  BY <1>7, Blocks, BlockCoherent
<1> QED
  BY <1>1, <1>2, <1>3, <1>4, <1>5, <1>6, <1>7 DEF Stop, SystemCall

LEMMA ContinueCoherent ==
  ASSUME Coherent, DecideContinue
  PROVE  Coherent'
<1>1. PICK p \in running_process :
         decision' = NonZero(remaining_time, RunFor(p.pid, remaining_time))
  BY DEF DecideContinue
<1>2. p.pid \in Nat /\ remaining_time \in Nat
  BY <1>1, RoundRobinPrioritiesAssumption DEF Coherent, RunningPcbs, Ranked, PriorityPcb, Pid
<1>3. decision' \in Decision
  BY <1>1, <1>2 DEF NonZero, RunFor, Outcome, Decision, Final
<1>4. /\ decision'.kind = "Run" => decision' = RunFor(p.pid, remaining_time)
      /\ decision'.kind \in {"Run", "Abort"}
  BY <1>1 DEF NonZero, RunFor, Outcome
<1>5. DecisionMatchesState'
  BY <1>4 DEF DecisionMatchesState, DecideContinue
<1> QED
  BY <1>3, <1>4, <1>5, NextStep DEF Coherent, DecideContinue

\* There is a highest of the queues that are not empty.
LEMMA HighestIs ==
  ASSUME NEW queues, NonEmptyQueues(queues) # {}
  PROVE  /\ Highest(queues) \in Queues
         /\ queues[Highest(queues)] # << >>
         /\ \A r \in Queues : queues[r] # << >> => Highest(queues) >= r
<1> DEFINE T == {5 - q : q \in NonEmptyQueues(queues)}
<1>1. T \subseteq Nat /\ T # {}
  BY DEF NonEmptyQueues, Queues
<1>2. PICK n \in T : \A k \in T : n <= k
  BY <1>1, LeastElement
<1>3. PICK q \in NonEmptyQueues(queues) : n = 5 - q
  BY <1>2
<1>4. \A r \in NonEmptyQueues(queues) : 5 - q <= 5 - r
  BY <1>2, <1>3
<1>5. \A r \in NonEmptyQueues(queues) : q >= r
  BY <1>3, <1>4 DEF NonEmptyQueues, Queues
<1>6. /\ Highest(queues) \in NonEmptyQueues(queues)
      /\ \A r \in NonEmptyQueues(queues) : Highest(queues) >= r
  BY <1>5 DEF Highest
<1> QED
  BY <1>6 DEF NonEmptyQueues

\* The queues without the first of the highest, which is dispatched.
LEMMA DispatchQueues ==
  ASSUME NEW queues \in ReadyQueues, NonEmptyQueues(queues) # {}
  PROVE  LET q == Highest(queues)
             p == Head(queues[q])
             rest == [queues EXCEPT ![q] = Tail(@)]
         IN  /\ q \in Queues /\ p \in ReadyPcbs /\ p.priority = q
             /\ queues[q] \in Seq(ReadyPcbs) /\ queues[q] # << >>
             /\ rest \in ReadyQueues
             /\ \A r \in Queues : rest[r] = IF r = q THEN Tail(queues[q]) ELSE queues[r]
             /\ ReadyOf(queues) = {p} \cup ReadyOf(rest)
<1> DEFINE q == Highest(queues)
           p == Head(queues[q])
           rest == [queues EXCEPT ![q] = Tail(@)]
<1>1. q \in Queues /\ queues[q] # << >>
  BY HighestIs
<1> HIDE DEF q
<1>2. queues[q] \in Seq(OfPriority(q)) /\ queues[q] \in Seq(ReadyPcbs)
  BY <1>1, QueueTypes
<1>3. p \in OfPriority(q) /\ Tail(queues[q]) \in Seq(OfPriority(q))
  BY <1>1, <1>2, HeadTailProperties
<1>4. Tail(queues[q]) \in Seq(ReadyPcbs)
  BY <1>1, <1>2, HeadTailProperties
<1>5. queues \in [Queues -> Seq(ReadyPcbs)]
  BY DEF ReadyQueues
<1>6. /\ rest = [r \in Queues |-> rest[r]]
      /\ \A r \in Queues : rest[r] = IF r = q THEN Tail(queues[q]) ELSE queues[r]
  BY <1>1, <1>5
<1>7. Elements(queues[q]) = {p} \cup Elements(Tail(queues[q]))
  BY <1>1, <1>2, ElementsHeadTail
<1> HIDE DEF rest, p
<1>8. \A r \in Queues : rest[r] \in Seq(OfPriority(r)) /\ rest[r] \in Seq(ReadyPcbs)
  BY <1>3, <1>4, <1>6, QueueTypes
<1>9. rest \in ReadyQueues
  BY <1>6, <1>8 DEF ReadyQueues
<1>10. ReadyOf(queues) = {p} \cup ReadyOf(rest)
  <2>1. \A r \in Queues : Elements(queues[r]) =
          IF r = q THEN {p} \cup Elements(rest[r]) ELSE Elements(rest[r])
    BY <1>6, <1>7
  <2> QED
    BY <1>1, <2>1 DEF ReadyOf
<1> QED
  BY <1>1, <1>2, <1>3, <1>6, <1>9, <1>10 DEF q, p, rest, OfPriority

\* What a dispatch does.
LEMMA DispatchStep ==
  ASSUME Coherent, DecideDispatch
  PROVE  \E p \in ReadyPcbs, q \in Queues :
           /\ p = Head(ReadyOnNext[q]) /\ ReadyOnNext[q] # << >>
           /\ ReadyOnNext[q] \in Seq(ReadyPcbs)
           /\ running_process' = {SetRunning(p)}
           /\ SetRunning(p) \in RunningPcbs /\ SetRunning(p).pid = p.pid
           /\ p.wakeup = NoWakeup /\ p.pid \in Nat
           /\ ready_processes' \in ReadyQueues
           /\ \A r \in Queues : ready_processes'[r] =
                IF r = q THEN Tail(ReadyOnNext[q]) ELSE ReadyOnNext[r]
           /\ ReadyOf(ReadyOnNext) = {p} \cup ReadyOf(ready_processes')
           /\ \A r \in Queues : ReadyOnNext[r] # << >> => q >= r
           /\ p.priority = q
           /\ decision' = RunFor(p.pid, Timeslice)
<1> DEFINE q == Highest(ReadyOnNext)
           p == Head(ReadyOnNext[q])
<1>1. /\ running_process' = {SetRunning(p)}
      /\ ready_processes' = [ReadyOnNext EXCEPT ![q] = Tail(@)]
      /\ decision' = RunFor(p.pid, Timeslice)
      /\ NonEmptyQueues(ReadyOnNext) # {}
  BY DEF DecideDispatch, NobodyReady
<1>2. ReadyOnNext \in ReadyQueues
  BY NextStep
<1>3. /\ q \in Queues /\ p \in ReadyPcbs /\ p.priority = q
      /\ ReadyOnNext[q] \in Seq(ReadyPcbs) /\ ReadyOnNext[q] # << >>
      /\ ready_processes' \in ReadyQueues
      /\ \A r \in Queues : ready_processes'[r] =
           IF r = q THEN Tail(ReadyOnNext[q]) ELSE ReadyOnNext[r]
      /\ ReadyOf(ReadyOnNext) = {p} \cup ReadyOf(ready_processes')
  BY <1>1, <1>2, DispatchQueues
<1>4. \A r \in Queues : ReadyOnNext[r] # << >> => q >= r
  BY <1>1, HighestIs
<1>5. /\ p \in Ranked /\ p.wakeup = NoWakeup /\ p.pid \in Nat
  BY <1>3 DEF ReadyPcbs, Ranked, Parked, PriorityPcb, Pid
<1>6. SetRunning(p) \in RunningPcbs /\ SetRunning(p).pid = p.pid
  BY <1>5, PcbOperations
<1> HIDE DEF p, q
<1>7. p = Head(ReadyOnNext[q])
  BY DEF p
<1> QED
  BY <1>1, <1>3, <1>4, <1>5, <1>6, <1>7

LEMMA DispatchCoherent ==
  ASSUME Coherent, DecideDispatch
  PROVE  Coherent'
<1>1. PICK p \in ReadyPcbs :
        /\ running_process' = {SetRunning(p)}
        /\ SetRunning(p) \in RunningPcbs /\ SetRunning(p).pid = p.pid
        /\ p.pid \in Nat
        /\ ready_processes' \in ReadyQueues
        /\ decision' = RunFor(p.pid, Timeslice)
  BY DispatchStep
<1>2. /\ Timeslice \in 0..Timeslice /\ Timeslice \in Nat
      /\ remaining_time' = Timeslice /\ sleep_time' = 0
      /\ waiting_processes' \in Seq(WaitingPcbs)
  BY RoundRobinPrioritiesAssumption, NextStep DEF DecideDispatch
<1>3. decision' \in Decision /\ decision'.kind = "Run"
  BY <1>1, <1>2 DEF RunFor, Decision
<1>4. DecisionMatchesState'
  BY <1>1, <1>2, <1>3 DEF DecisionMatchesState
<1>5. /\ running_process' \in SUBSET RunningPcbs
      /\ \A r, s \in running_process' : r = s
  BY <1>1
<1>6. /\ stopped_process' \in SUBSET Ranked
      /\ \A r, s \in stopped_process' : r = s
      /\ highest_pid' \in 0..MaxPid
  BY DEF Coherent, DecideDispatch
<1>7. decision'.kind # "Start" /\ remaining_time' \in 0..Timeslice /\ sleep_time' \in Nat
  BY <1>2, <1>3
<1> QED
  BY <1>1, <1>2, <1>3, <1>4, <1>5, <1>6, <1>7 DEF Coherent

LEMMA SleepDecisionCoherent ==
  ASSUME Coherent, DecideSleep
  PROVE  Coherent'
<1>1. PICK time \in FindSleepTime(WaitingOnNext) : PlanSleep(time)
  BY DEF DecideSleep
<1>2. time \in Nat
  BY <1>1, NextStep, SleepTimeIsNat
<1>3. sleep_time' = time /\ decision' = NonZero(time, SleepFor(time))
  BY <1>1 DEF PlanSleep
<1>4. decision' \in Decision /\ decision'.kind \in {"Sleep", "Abort"}
  BY <1>2, <1>3 DEF NonZero, SleepFor, Outcome, Decision, Final
<1>5. /\ decision'.kind = "Sleep" => decision' = SleepFor(time)
      /\ time # 0 => decision'.kind = "Sleep"
  BY <1>3 DEF NonZero, SleepFor, Outcome
<1>6. DecisionMatchesState'
  BY <1>3, <1>4, <1>5 DEF DecisionMatchesState
<1> QED
  BY <1>2, <1>3, <1>4, <1>6, NextStep DEF Coherent, DecideSleep

LEMMA NextDecisionCoherent ==
  ASSUME Coherent, NextDecision
  PROVE  Coherent'
<1>1. CASE DecideDone
  BY <1>1, HaltStep DEF DecideDone, Final
<1>2. CASE DecidePanic
  BY <1>2, HaltStep DEF DecidePanic, Final
<1>3. CASE DecideContinue
  BY <1>3, ContinueCoherent
<1>4. CASE DecideDispatch
  BY <1>4, DispatchCoherent
<1>5. CASE DecideSleep
  BY <1>5, SleepDecisionCoherent
<1>6. CASE DecideDeadlock
  BY <1>6, HaltStep DEF DecideDeadlock, Final
<1> QED
  BY <1>1, <1>2, <1>3, <1>4, <1>5, <1>6 DEF NextDecision

\* The PCBs are always in the places their state and priority say.
THEOREM Coherence == Spec => []Coherent
<1>1. Init => Coherent
  BY InitCoherent
<1>2. Coherent /\ [Next]_vars => Coherent'
  <2>1. ASSUME Coherent, UNCHANGED vars PROVE Coherent'
    BY <2>1 DEF Coherent, Nothing, DecisionMatchesState, vars
  <2> QED
    BY <2>1, StopCoherent, NextDecisionCoherent DEF Next, Halted
<1> QED
  BY <1>1, <1>2, PTL DEF Spec

(***************************************************************************)
(* Type correctness of the scheduler's state through every sequence of     *)
(* calls; in particular no process ever has a priority without a queue.    *)
(***************************************************************************)
THEOREM TypeCorrect == Spec => []TypeOK
<1>1. Coherent => TypeOK
  <2> SUFFICES ASSUME Coherent PROVE TypeOK
    OBVIOUS
  <2>1. /\ RunningPcbs \subseteq PriorityPcb /\ ReadyPcbs \subseteq PriorityPcb
        /\ WaitingPcbs \subseteq PriorityPcb /\ Ranked \subseteq PriorityPcb
    BY DEF RunningPcbs, ReadyPcbs, WaitingPcbs, Ranked
  <2>2. /\ Seq(ReadyPcbs) \subseteq Seq(PriorityPcb)
        /\ Seq(WaitingPcbs) \subseteq Seq(PriorityPcb)
    BY <2>1, SeqMonotonic
  <2>3. ready_processes \in [Queues -> Seq(PriorityPcb)]
    BY <2>2 DEF Coherent, ReadyQueues
  <2> QED
    BY <2>1, <2>2, <2>3 DEF Coherent, TypeOK
<1> QED
  BY <1>1, Coherence, PTL

(***************************************************************************)
(* A process is always in the queue of its priority, and its priority is   *)
(* never above the one it was forked with, whatever calls it has made, in  *)
(* time or not, and whatever it has waited for.                            *)
(***************************************************************************)
THEOREM QueuesMatch == Spec => []QueueMatchesPriority
<1>1. Coherent => QueueMatchesPriority
  <2> SUFFICES ASSUME Coherent PROVE QueueMatchesPriority
    OBVIOUS
  <2>1. ASSUME NEW q \in Queues, NEW i \in DOMAIN ready_processes[q]
        PROVE  ready_processes[q][i].priority = q
    <3>1. ready_processes[q] \in Seq(OfPriority(q))
      BY QueueTypes DEF Coherent
    <3> QED
      BY <3>1 DEF OfPriority
  <2>2. ASSUME NEW p \in Live PROVE p.priority \in 0..p.fork_priority
    <3>1. p \in Ranked
      BY QueueTypes, ElementsType
         DEF Live, Coherent, RunningPcbs, ReadyPcbs, WaitingPcbs
    <3> QED
      BY <3>1 DEF Ranked, PriorityPcb, Queues
  <2> QED
    BY <2>1, <2>2 DEF QueueMatchesPriority
<1> QED
  BY <1>1, Coherence, PTL

-----------------------------------------------------------------------------
(* Each process once: R are the PIDs that run, Q the queues, w the waiting *)
(* list and h the highest PID.                                             *)

QueuedPids(Q) == PidsOf(ReadyOf(Q))

Once(R, Q, w, h) ==
  /\ \A q \in Queues : PidsDiffer(Q[q])
  /\ \A q, r \in Queues : q # r => Pids(Q[q]) \cap Pids(Q[r]) = {}
  /\ PidsDiffer(w)
  /\ R \cap QueuedPids(Q) = {}
  /\ (R \cup QueuedPids(Q)) \cap Pids(w) = {}
  /\ R \cup QueuedPids(Q) \cup Pids(w) \subseteq 1..h

\* The processes list() reports, by their PIDs.
LEMMA LivePidsAre ==
  /\ PidsOf(Live) = RunningPids \cup QueuedPids(ready_processes) \cup WaitingPids
  /\ PidsOf(Live') = RunningPids' \cup QueuedPids(ready_processes') \cup WaitingPids'
BY ElementsPids DEF PidsOf, Live, RunningPids, QueuedPids, WaitingPids

LEMMA OnceNow ==
  ASSUME EachProcessOnce
  PROVE  Once(RunningPids, ready_processes, waiting_processes, highest_pid)
BY LivePidsAre DEF EachProcessOnce, Once, ReadyPids, WaitingPids, QueuedPids

LEMMA OnceNext ==
  ASSUME NEW R, RunningPids' = R,
         Once(R, ready_processes', waiting_processes', highest_pid')
  PROVE  EachProcessOnce'
<1>1. PidsOf(Live') = R \cup QueuedPids(ready_processes') \cup Pids(waiting_processes')
  BY LivePidsAre DEF WaitingPids
<1> QED
  BY <1>1 DEF EachProcessOnce, Once, ReadyPids, WaitingPids, QueuedPids, PidsOf

\* The PIDs in the queues are those in each of them.
LEMMA QueuedPidsAre ==
  ASSUME NEW Q
  PROVE  QueuedPids(Q) = UNION {Pids(Q[q]) : q \in Queues}
<1>1. \A q \in Queues : Pids(Q[q]) = {p.pid : p \in Elements(Q[q])}
  BY ElementsPids
<1> QED
  BY <1>1 DEF QueuedPids, PidsOf, ReadyOf

\* A process that is in none of the places is pushed on its queue.
LEMMA OncePush ==
  ASSUME NEW R, NEW Q \in ReadyQueues, NEW w, NEW h, Once(R, Q, w, h),
         NEW p \in ReadyPcbs, p.pid \notin R \cup QueuedPids(Q) \cup Pids(w), p.pid \in 1..h
  PROVE  Once(R, Push(Q, p), w, h)
<1> DEFINE P == Push(Q, p)
<1>1. /\ p.priority \in Queues
      /\ \A q \in Queues : P[q] = IF q = p.priority THEN Append(Q[q], p) ELSE Q[q]
      /\ QueuedPids(P) = QueuedPids(Q) \cup {p.pid}
  BY PushReady DEF QueuedPids, PidsOf
<1> HIDE DEF P
<1>2. ASSUME NEW q \in Queues
      PROVE  /\ PidsDiffer(P[q])
             /\ Pids(P[q]) = IF q = p.priority THEN Pids(Q[q]) \cup {p.pid} ELSE Pids(Q[q])
  <2>1. CASE q = p.priority
    <3>1. Q[q] \in Seq(ReadyPcbs) /\ PidsDiffer(Q[q]) /\ p.pid \notin Pids(Q[q])
      BY QueueTypes, QueuedPidsAre DEF Once
    <3> QED
      BY <1>1, <2>1, <3>1, AppendPids
  <2>2. CASE q # p.priority
    BY <1>1, <2>2 DEF Once
  <2> QED
    BY <2>1, <2>2
<1>3. \A q \in Queues : p.pid \notin Pids(Q[q])
  BY QueuedPidsAre
<1>4. \A q, r \in Queues : q # r => Pids(P[q]) \cap Pids(P[r]) = {}
  BY <1>2, <1>3 DEF Once
<1> QED
  BY <1>1, <1>2, <1>4 DEF Once, P

\* Processes are woken, each to its queue.
LEMMA OnceWakeup ==
  ASSUME NEW R, NEW Q \in ReadyQueues, NEW w \in Seq(WaitingPcbs), NEW h, Once(R, Q, w, h)
  PROVE  Once(R, PushWoken(Q, w), StillWaiting(w), h)
<1> DEFINE woken == Woken(w)
           Added(q) == Filter(woken, {p \in Elements(w) : p.priority = q})
           P == PushWoken(Q, w)
<1>1. /\ woken \in Seq(ReadyPcbs) /\ StillWaiting(w) \in Seq(WaitingPcbs)
      /\ Pids(woken) \cup Pids(StillWaiting(w)) = Pids(w)
      /\ PidsDiffer(woken) /\ PidsDiffer(StillWaiting(w))
      /\ Pids(woken) \cap Pids(StillWaiting(w)) = {}
  BY WakeupWaiting, WakeupPids DEF Once
<1>2. \A q \in Queues : P[q] = Q[q] \o Added(q)
  BY DEF PushWoken
<1>3. ASSUME NEW q \in Queues
      PROVE  /\ Added(q) \in Seq(ReadyPcbs) /\ PidsDiffer(Added(q))
             /\ Pids(Added(q)) \subseteq Pids(woken)
             /\ \A n \in Pids(Added(q)) :
                  \E i \in DOMAIN woken : woken[i].pid = n /\ woken[i].priority = q
  <2>1. Added(q) \in Seq(ReadyPcbs)
    BY <1>1, FilterPicks
  <2>2. /\ Pids(Added(q)) = {woken[i].pid :
             i \in {j \in DOMAIN woken : woken[j] \in {p \in Elements(w) : p.priority = q}}}
        /\ PidsDiffer(Added(q))
    BY <1>1, FilterPids
  <2> QED
    BY <2>1, <2>2 DEF Pids
<1>4. QueuedPids(P) = QueuedPids(Q) \cup Pids(woken)
  <2>1. ReadyOf(P) = ReadyOf(Q) \cup Elements(woken)
    BY PushWokenReady
  <2> QED
    BY <2>1, ElementsPids DEF QueuedPids, PidsOf
<1> HIDE DEF woken, Added, P
<1>5. ASSUME NEW q \in Queues, NEW r \in Queues, q # r
      PROVE  Pids(Added(q)) \cap Pids(Added(r)) = {}
  <2> SUFFICES ASSUME NEW n \in Pids(Added(q)) \cap Pids(Added(r)) PROVE FALSE
    OBVIOUS
  <2>1. PICK i \in DOMAIN woken : woken[i].pid = n /\ woken[i].priority = q
    BY <1>3
  <2>2. PICK j \in DOMAIN woken : woken[j].pid = n /\ woken[j].priority = r
    BY <1>3
  <2>3. i = j
    BY <1>1, <2>1, <2>2 DEF PidsDiffer
  <2> QED
    BY <1>5, <2>1, <2>2, <2>3
<1>6. \A q \in Queues : Pids(Q[q]) \subseteq QueuedPids(Q)
  BY QueuedPidsAre
<1>7. ASSUME NEW q \in Queues
      PROVE  PidsDiffer(P[q]) /\ Pids(P[q]) = Pids(Q[q]) \cup Pids(Added(q))
  <2>1. Q[q] \in Seq(ReadyPcbs) /\ PidsDiffer(Q[q])
    BY QueueTypes DEF Once
  <2>2. Pids(Q[q]) \cap Pids(Added(q)) = {}
    BY <1>1, <1>3, <1>6 DEF Once
  <2>3. P[q] = Q[q] \o Added(q) /\ Added(q) \in Seq(ReadyPcbs) /\ PidsDiffer(Added(q))
    BY <1>2, <1>3
  <2>4. /\ Pids(Q[q] \o Added(q)) = Pids(Q[q]) \cup Pids(Added(q))
        /\ PidsDiffer(Q[q] \o Added(q))
    BY <2>1, <2>2, <2>3, ConcatPids
  <2> QED
    BY <2>3, <2>4
<1>8. \A q, r \in Queues : q # r => Pids(P[q]) \cap Pids(P[r]) = {}
  BY <1>1, <1>3, <1>5, <1>6, <1>7 DEF Once
<1> QED
  BY <1>1, <1>4, <1>7, <1>8 DEF Once, P

\* The running process joins the waiting list.
LEMMA OnceBlocked ==
  ASSUME NEW p \in WaitingPcbs, NEW Q, NEW w \in Seq(WaitingPcbs), NEW h,
         Once({p.pid}, Q, w, h)
  PROVE  Once({}, Q, Append(w, p), h)
<1>1. PidsDiffer(w) /\ p.pid \notin Pids(w)
  BY DEF Once
<1>2. Pids(Append(w, p)) = Pids(w) \cup {p.pid} /\ PidsDiffer(Append(w, p))
  BY <1>1, AppendPids
<1> QED
  BY <1>2 DEF Once

-----------------------------------------------------------------------------
(* Every call keeps each process in one place. *)

\* What a stop of the running process p starts from.
LEMMA RunningOnce ==
  ASSUME Coherent, EachProcessOnce, decision.kind = "Run", NEW p \in running_process,
         NEW time \in Nat
  PROVE  /\ RunningPids = {p.pid}
         /\ WaitingAfter(time) \in Seq(WaitingPcbs)
         /\ Once({p.pid}, ready_processes, WaitingAfter(time), highest_pid)
<1>1. RunningPids = {p.pid}
  BY RunningStep DEF RunningPids, PidsOf
<1>2. waiting_processes \in Seq(WaitingPcbs)
  BY DEF Coherent
<1> QED
  BY <1>1, <1>2, OnceNow, ElapsedWaiting DEF WaitingAfter, Once

\* How Expired, Fork and Signal end, for the process p with its new priority.
LEMMA CallOnce ==
  ASSUME NEW p \in Ranked, p.wakeup = NoWakeup, NEW queues \in ReadyQueues, NEW remaining,
         Once({p.pid}, queues, waiting_processes', highest_pid'),
         Yield(p, queues) \/ Continue(p, queues, remaining)
  PROVE  EachProcessOnce'
<1>1. CASE Yield(p, queues)
  <2>1. SetReady(p) \in ReadyPcbs /\ SetReady(p).pid = p.pid
    BY PcbOperations
  <2>2. /\ Once({}, queues, waiting_processes', highest_pid')
        /\ p.pid \notin QueuedPids(queues) \cup Pids(waiting_processes')
        /\ p.pid \in 1..highest_pid'
    BY DEF Once
  <2>3. Once({}, Push(queues, SetReady(p)), waiting_processes', highest_pid')
    BY <2>1, <2>2, OncePush
  <2>4. RunningPids' = {}
    BY <1>1 DEF Yield, RunningPids, PidsOf
  <2> QED
    BY <1>1, <2>3, <2>4, OnceNext DEF Yield
<1>2. CASE Continue(p, queues, remaining)
  <2>1. RunningPids' = {p.pid}
    BY <1>2, PcbOperations DEF Continue, RunningPids, PidsOf
  <2> QED
    BY <1>2, <2>1, OnceNext DEF Continue
<1> QED
  BY <1>1, <1>2

LEMMA StartOnce ==
  ASSUME Coherent, Start
  PROVE  EachProcessOnce'
<1> DEFINE first == NewPriorityPcb(1, 0)
<1>1. Nothing
  BY DEF Coherent, Start
<1>2. /\ running_process' = {} /\ waiting_processes' = << >> /\ highest_pid' = 1
      /\ ready_processes' = Push(ready_processes, first)
  BY <1>1 DEF Start, Nothing
<1>3. first \in ReadyPcbs /\ first.pid = 1 /\ ready_processes \in ReadyQueues
  <2>1. 1 \in Pid /\ 0 \in Queues
    BY DEF Pid, Queues
  <2> QED
    BY <2>1, NewPcbReady DEF Coherent, NewPriorityPcb
<1>4. \A q \in Queues : ready_processes[q] = << >>
  BY <1>1 DEF Nothing
<1>5. /\ QueuedPids(ready_processes) = {} /\ Pids(<< >>) = {}
  BY <1>4, QueuedPidsAre DEF Pids
<1>6. Once({}, ready_processes, << >>, 1)
  BY <1>4, <1>5 DEF Once, Pids, PidsDiffer
<1> HIDE DEF first
<1>7. Once({}, Push(ready_processes, first), << >>, 1)
  BY <1>3, <1>5, <1>6, OncePush
<1>8. RunningPids' = {}
  BY <1>2 DEF RunningPids, PidsOf
<1> QED
  BY <1>2, <1>7, <1>8, OnceNext

LEMMA ExpiredOnce ==
  ASSUME Coherent, EachProcessOnce, Expired
  PROVE  EachProcessOnce'
<1> DEFINE waiting == WaitingAfter(remaining_time)
<1>1. PICK p \in running_process :
         /\ Yield(DecrementPriority(p), PushWoken(ready_processes, waiting))
         /\ waiting_processes' = StillWaiting(waiting)
  BY DEF Expired
<1>2. /\ remaining_time \in Nat /\ highest_pid' = highest_pid
      /\ p \in Ranked /\ p.wakeup = NoWakeup /\ ready_processes \in ReadyQueues
  BY <1>1, RunningStep, RoundRobinPrioritiesAssumption DEF Expired, Coherent
<1>3. waiting \in Seq(WaitingPcbs) /\ Once({p.pid}, ready_processes, waiting, highest_pid)
  BY <1>1, <1>2, RunningOnce DEF Expired
<1> DEFINE queues == PushWoken(ready_processes, waiting)
<1> HIDE DEF waiting
<1>4. /\ Once({p.pid}, queues, StillWaiting(waiting), highest_pid)
      /\ queues \in ReadyQueues
  BY <1>2, <1>3, OnceWakeup, PushWokenReady
<1>5. /\ DecrementPriority(p) \in Ranked /\ DecrementPriority(p).pid = p.pid
      /\ DecrementPriority(p).wakeup = NoWakeup
  BY <1>2, PriorityOperations
<1> HIDE DEF queues
<1> QED
  BY <1>1, <1>2, <1>4, <1>5, CallOnce DEF queues

LEMMA ForkOnce ==
  ASSUME Coherent, EachProcessOnce, NEW priority, NEW remaining \in Remaining,
         Fork(priority, remaining)
  PROVE  EachProcessOnce'
<1> DEFINE waiting == WaitingAfter(remaining_time - remaining)
           child == NewPriorityPcb(highest_pid + 1, priority)
           forked == Push(ready_processes, child)
           queues == PushWoken(forked, waiting)
<1>1. PICK p \in running_process :
         /\ \/ Continue(IncrementPriority(p), queues, remaining)
            \/ Yield(IncrementPriority(p), queues)
         /\ waiting_processes' = StillWaiting(waiting)
  BY DEF Fork
<1>2. /\ decision.kind = "Run" /\ priority \in Queues
      /\ highest_pid' = highest_pid + 1 /\ highest_pid \in Nat
      /\ p \in Ranked /\ p.wakeup = NoWakeup /\ ready_processes \in ReadyQueues
      /\ remaining_time - remaining \in Nat
  <2>1. decision.kind = "Run" /\ priority \in Queues /\ highest_pid' = highest_pid + 1
    BY DEF Fork
  <2>2. highest_pid \in Nat /\ ready_processes \in ReadyQueues
    BY RoundRobinPrioritiesAssumption DEF Coherent
  <2> QED
    BY <1>1, <2>1, <2>2, RunningStep, RemainingStep
<1>3. waiting \in Seq(WaitingPcbs) /\ Once({p.pid}, ready_processes, waiting, highest_pid)
  BY <1>1, <1>2, RunningOnce
<1>4. child \in ReadyPcbs /\ child.pid = highest_pid + 1
  BY <1>2, NewPcbReady DEF Pid, NewPriorityPcb
<1> HIDE DEF waiting, child
<1>5. /\ Once({p.pid}, ready_processes, waiting, highest_pid + 1)
      /\ child.pid \notin {p.pid} \cup QueuedPids(ready_processes) \cup Pids(waiting)
      /\ child.pid \in 1..(highest_pid + 1)
  <2>1. /\ 1..highest_pid \subseteq 1..(highest_pid + 1)
        /\ highest_pid + 1 \notin 1..highest_pid
        /\ highest_pid + 1 \in 1..(highest_pid + 1)
    BY <1>2
  <2> QED
    BY <1>3, <1>4, <2>1 DEF Once
<1>6. forked \in ReadyQueues /\ Once({p.pid}, forked, waiting, highest_pid + 1)
  BY <1>2, <1>4, <1>5, OncePush, PushReady
<1> HIDE DEF forked
<1>7. queues \in ReadyQueues /\ Once({p.pid}, queues, StillWaiting(waiting), highest_pid + 1)
  BY <1>3, <1>6, OnceWakeup, PushWokenReady
<1>8. /\ IncrementPriority(p) \in Ranked /\ IncrementPriority(p).pid = p.pid
      /\ IncrementPriority(p).wakeup = NoWakeup
  BY <1>2, PriorityOperations
<1> HIDE DEF queues
<1> QED
  BY <1>1, <1>2, <1>7, <1>8, CallOnce

LEMMA SignalOnce ==
  ASSUME Coherent, EachProcessOnce, NEW event, NEW remaining \in Remaining,
         Signal(event, remaining)
  PROVE  EachProcessOnce'
<1> DEFINE before == WaitingAfter(remaining_time - remaining)
           waiting == Notified(before, event)
           queues == PushWoken(ready_processes, waiting)
<1>1. PICK p \in running_process :
         /\ \/ Continue(p, queues, remaining)
            \/ Yield(IncrementPriority(p), queues)
         /\ waiting_processes' = StillWaiting(waiting)
  BY DEF Signal
<1>2. /\ decision.kind = "Run" /\ highest_pid' = highest_pid
      /\ p \in Ranked /\ p.wakeup = NoWakeup /\ ready_processes \in ReadyQueues
      /\ remaining_time - remaining \in Nat
  BY <1>1, RunningStep, RemainingStep DEF Signal, Coherent
<1>3. before \in Seq(WaitingPcbs) /\ Once({p.pid}, ready_processes, before, highest_pid)
  BY <1>1, <1>2, RunningOnce
<1> HIDE DEF before
<1>4. waiting \in Seq(WaitingPcbs) /\ Once({p.pid}, ready_processes, waiting, highest_pid)
  BY <1>3, NotifiedWaiting DEF Once
<1> HIDE DEF waiting
<1>5. queues \in ReadyQueues /\ Once({p.pid}, queues, StillWaiting(waiting), highest_pid)
  BY <1>2, <1>4, OnceWakeup, PushWokenReady
<1>6. /\ IncrementPriority(p) \in Ranked /\ IncrementPriority(p).pid = p.pid
      /\ IncrementPriority(p).wakeup = NoWakeup
  BY <1>2, PriorityOperations
<1> HIDE DEF queues
<1>7. CASE Continue(p, queues, remaining)
  BY <1>1, <1>2, <1>5, <1>7, CallOnce
<1>8. CASE Yield(IncrementPriority(p), queues)
  BY <1>1, <1>2, <1>5, <1>6, <1>8, CallOnce
<1> QED
  BY <1>1, <1>7, <1>8

LEMMA BlockOnce ==
  ASSUME Coherent, EachProcessOnce, decision.kind = "Run", NEW remaining \in Remaining,
         NEW p \in running_process, NEW asleep \in WaitingPcbs, asleep.pid = p.pid,
         Block(asleep, remaining)
  PROVE  EachProcessOnce'
<1> DEFINE waiting == WaitingAfter(remaining_time - remaining)
           last == IncrementPriority(asleep)
<1>1. remaining_time - remaining \in Nat
  BY RunningStep, RemainingStep
<1>2. waiting \in Seq(WaitingPcbs) /\ Once({p.pid}, ready_processes, waiting, highest_pid)
  BY <1>1, RunningOnce
<1>3. last \in WaitingPcbs /\ last.pid = p.pid
  BY PriorityOperations DEF WaitingPcbs
<1>4. /\ waiting_processes' = Append(waiting, last) /\ running_process' = {}
      /\ ready_processes' = ready_processes /\ highest_pid' = highest_pid
  BY DEF Block
<1> HIDE DEF waiting, last
<1>5. Once({}, ready_processes, Append(waiting, last), highest_pid)
  BY <1>2, <1>3, OnceBlocked
<1>6. RunningPids' = {}
  BY <1>4 DEF RunningPids, PidsOf
<1> QED
  BY <1>4, <1>5, <1>6, OnceNext

LEMMA ExitOnce ==
  ASSUME Coherent, EachProcessOnce, NEW remaining \in Remaining, Exit(remaining)
  PROVE  EachProcessOnce'
<1> DEFINE waiting == WaitingAfter(remaining_time - remaining)
<1>1. PICK p \in running_process : TRUE
  BY DEF Exit, Coherent, DecisionMatchesState
<1>2. remaining_time - remaining \in Nat /\ ready_processes \in ReadyQueues
  BY <1>1, RunningStep, RemainingStep DEF Exit, Coherent
<1>3. waiting \in Seq(WaitingPcbs) /\ Once({p.pid}, ready_processes, waiting, highest_pid)
  BY <1>1, <1>2, RunningOnce DEF Exit
<1>4. /\ ready_processes' = PushWoken(ready_processes, waiting)
      /\ waiting_processes' = StillWaiting(waiting)
      /\ running_process' = {} /\ highest_pid' = highest_pid
  BY DEF Exit
<1> HIDE DEF waiting
<1>5. Once({}, ready_processes, waiting, highest_pid)
  BY <1>3 DEF Once
<1>6. Once({}, PushWoken(ready_processes, waiting), StillWaiting(waiting), highest_pid)
  BY <1>2, <1>3, <1>5, OnceWakeup
<1>7. RunningPids' = {}
  BY <1>4 DEF RunningPids, PidsOf
<1> QED
  BY <1>4, <1>6, <1>7, OnceNext

LEMMA StopOnce ==
  ASSUME Coherent, EachProcessOnce, Stop
  PROVE  EachProcessOnce'
<1>1. CASE Start
  BY <1>1, StartOnce
<1>2. CASE Expired
  BY <1>2, ExpiredOnce
<1>3. ASSUME NEW priority, ForkWithoutQueue(priority) PROVE EachProcessOnce'
  BY <1>3, OnceNow, OnceNext DEF ForkWithoutQueue, RunningPids
<1>4. ASSUME NEW remaining \in Remaining, NEW priority, Fork(priority, remaining)
      PROVE  EachProcessOnce'
  BY <1>4, ForkOnce
<1>5. ASSUME NEW remaining \in Remaining, Exit(remaining) PROVE EachProcessOnce'
  BY <1>5, ExitOnce
<1>6. ASSUME NEW remaining \in Remaining, NEW event, Signal(event, remaining)
      PROVE  EachProcessOnce'
  BY <1>6, SignalOnce
<1>7. ASSUME NEW remaining \in Remaining,
             \/ \E time \in SleepTimes : Sleep(time, remaining)
             \/ \E event \in Events : Wait(event, remaining)
      PROVE  EachProcessOnce'
  BY <1>7, Blocks, BlockOnce
<1> QED
  BY <1>1, <1>2, <1>3, <1>4, <1>5, <1>6, <1>7 DEF Stop, SystemCall

\* Nothing moves but for the sleep that was announced.
LEMMA NextOnce ==
  ASSUME Coherent, EachProcessOnce
  PROVE  Once(RunningPids, ReadyOnNext, WaitingOnNext, highest_pid)
<1> DEFINE waiting == WaitingAfter(sleep_time)
<1>1. /\ waiting \in Seq(WaitingPcbs) /\ ready_processes \in ReadyQueues
      /\ Once(RunningPids, ready_processes, waiting, highest_pid)
  BY OnceNow, ElapsedWaiting DEF Coherent, WaitingAfter, Once
<1> HIDE DEF waiting
<1>2. Once(RunningPids, PushWoken(ready_processes, waiting), StillWaiting(waiting), highest_pid)
  BY <1>1, OnceWakeup
<1> QED
  BY <1>2, OnceNow DEF ReadyOnNext, WaitingOnNext, waiting

\* The decisions that leave the running process and the lists as they are.
LEMMA DecideOnce ==
  ASSUME Coherent, EachProcessOnce,
         ready_processes' = ReadyOnNext,
         waiting_processes' = WaitingOnNext,
         UNCHANGED <<running_process, highest_pid>>
  PROVE  EachProcessOnce'
BY NextOnce, OnceNext DEF RunningPids

LEMMA DispatchOnce ==
  ASSUME Coherent, EachProcessOnce, DecideDispatch
  PROVE  EachProcessOnce'
<1> DEFINE Q == ReadyOnNext
           P == ready_processes'
<1>1. PICK p \in ReadyPcbs, q \in Queues :
        /\ p = Head(Q[q]) /\ Q[q] # << >> /\ Q[q] \in Seq(ReadyPcbs)
        /\ running_process' = {SetRunning(p)} /\ SetRunning(p).pid = p.pid
        /\ \A r \in Queues : P[r] = IF r = q THEN Tail(Q[q]) ELSE Q[r]
        /\ ReadyOf(Q) = {p} \cup ReadyOf(P)
  BY DispatchStep
<1>2. /\ running_process = {} /\ waiting_processes' = WaitingOnNext
      /\ highest_pid' = highest_pid
  BY DEF DecideDispatch
<1>3. Once({}, Q, WaitingOnNext, highest_pid)
  BY <1>2, NextOnce DEF RunningPids, PidsOf
<1> HIDE DEF Q, P
<1>4. /\ Pids(Q[q]) = Pids(Tail(Q[q])) \cup {p.pid}
      /\ PidsDiffer(Tail(Q[q])) /\ p.pid \notin Pids(Tail(Q[q]))
  BY <1>1, <1>3, HeadTailPids DEF Once
<1>5. /\ QueuedPids(P) = UNION {Pids(P[r]) : r \in Queues}
      /\ QueuedPids(Q) = UNION {Pids(Q[r]) : r \in Queues}
  BY QueuedPidsAre
<1>6. \A r \in Queues : /\ Pids(P[r]) \subseteq Pids(Q[r]) /\ PidsDiffer(P[r])
                        /\ p.pid \notin Pids(P[r])
  BY <1>1, <1>3, <1>4 DEF Once
<1>7. p.pid \notin QueuedPids(P) /\ QueuedPids(P) \subseteq QueuedPids(Q)
      /\ p.pid \in QueuedPids(Q)
  BY <1>1, <1>4, <1>5, <1>6
<1>8. Once({p.pid}, P, WaitingOnNext, highest_pid)
  BY <1>3, <1>6, <1>7 DEF Once
<1>9. RunningPids' = {p.pid}
  BY <1>1 DEF RunningPids, PidsOf
<1> QED
  BY <1>2, <1>8, <1>9, OnceNext DEF P

LEMMA NextDecisionOnce ==
  ASSUME Coherent, EachProcessOnce, NextDecision
  PROVE  EachProcessOnce'
<1>1. CASE DecideDispatch
  BY <1>1, DispatchOnce
<1>2. CASE DecideDone \/ DecidePanic \/ DecideDeadlock
  BY <1>2, DecideOnce DEF DecideDone, DecidePanic, DecideDeadlock, Halt
<1>3. CASE DecideContinue
  BY <1>3, DecideOnce DEF DecideContinue
<1>4. CASE DecideSleep
  BY <1>4, DecideOnce DEF DecideSleep
<1> QED
  BY <1>1, <1>2, <1>3, <1>4 DEF NextDecision

(***************************************************************************)
(* No process is ever in two of the six queues, or twice in one, or in a   *)
(* queue and waiting or running, and no PID is used twice, for any number  *)
(* of processes, any priorities and any sequence of calls.                 *)
(***************************************************************************)
THEOREM ProcessOnce == Spec => []EachProcessOnce
<1>1. Init => EachProcessOnce
  <2> SUFFICES ASSUME Init PROVE EachProcessOnce
    OBVIOUS
  <2>1. /\ \A q \in Queues : ready_processes[q] = << >>
        /\ waiting_processes = << >> /\ running_process = {} /\ highest_pid = 0
    BY DEF Init
  <2>2. ReadyPids = {} /\ WaitingPids = {} /\ RunningPids = {} /\ PidsOf(Live) = {}
    BY <2>1 DEF ReadyPids, WaitingPids, RunningPids, PidsOf, ReadyOf, Live, Elements, Pids
  <2> QED
    BY <2>1, <2>2 DEF EachProcessOnce, PidsDiffer, Pids
<1>2. Coherent /\ EachProcessOnce /\ [Next]_vars => EachProcessOnce'
  <2>1. ASSUME EachProcessOnce, UNCHANGED vars PROVE EachProcessOnce'
    BY <2>1, OnceNow, OnceNext DEF vars, RunningPids
  <2> QED
    BY <2>1, StopOnce, NextDecisionOnce DEF Next, Halted
<1> QED
  BY <1>1, <1>2, Coherence, PTL DEF Spec

-----------------------------------------------------------------------------
(***************************************************************************)
(* next() always answers, and Fork finds its queue.  The program ends with *)
(* exit(-1) when a process would go on for no time, when the shortest sleep*)
(* is 0, or when the priority of a Fork has no queue; none happens if the  *)
(* minimum remaining timeslice is not 0, nobody asks to sleep for 0 and    *)
(* every priority is one of the six.                                       *)
(***************************************************************************)
PositiveTimes == MinimumRemainingTimeslice # 0 /\ 0 \notin SleepTimes

QueueForEach == Priorities \subseteq Queues

CountdownPcbs == {p \in WaitingPcbs : p.wakeup.kind = "Sleep" => p.wakeup.arg # 0}

TimeIsLeft ==
  /\ waiting_processes \in Seq(CountdownPcbs)
  /\ running_process # {} => remaining_time # 0
  /\ NeverAborts

\* A sleep that has not run out has some time left, whatever passes.
LEMMA CountdownLists ==
  ASSUME NEW list \in Seq(CountdownPcbs)
  PROVE  /\ \A time \in Nat : Elapsed(list, time) \in Seq(CountdownPcbs)
         /\ \A event : Notified(list, event) \in Seq(CountdownPcbs)
         /\ StillWaiting(list) \in Seq(CountdownPcbs)
<1>1. \A p \in Ranked : SetReady(p) \in CountdownPcbs
  BY PcbOperations, Kinds DEF CountdownPcbs, WaitingPcbs, ReadyPcbs, Parked
<1>2. ASSUME NEW p \in CountdownPcbs, NEW time \in Nat PROVE Elapse(p, time) \in CountdownPcbs
  <2>1. p \in Ranked /\ Elapse(p, time) \in WaitingPcbs
    BY ElapseWaiting DEF CountdownPcbs, WaitingPcbs
  <2>2. CASE p.wakeup.kind = "Sleep" /\ p.wakeup.arg > time
    <3>1. Elapse(p, time).wakeup = SleepWakeup(p.wakeup.arg - time)
      BY <2>1, <2>2 DEF Elapse, Ranked, PriorityPcb
    <3>2. p.wakeup.arg - time # 0
      BY <2>1, <2>2 DEF Ranked, PriorityPcb, WakeupCondition
    <3> QED
      BY <2>1, <3>1, <3>2 DEF CountdownPcbs, SleepWakeup
  <2> QED
    BY <2>1, <2>2, <1>1 DEF Elapse
<1>3. ASSUME NEW p \in CountdownPcbs, NEW event PROVE Notify(p, event) \in CountdownPcbs
  BY <1>1 DEF Notify, CountdownPcbs, WaitingPcbs
<1>4. ASSUME NEW time \in Nat PROVE Elapsed(list, time) \in Seq(CountdownPcbs)
  <2>1. \A i \in DOMAIN list : Elapsed(list, time)[i] \in CountdownPcbs
    BY <1>2 DEF Elapsed
  <2>2. Elapsed(list, time) = [i \in DOMAIN list |-> Elapsed(list, time)[i]]
    BY DEF Elapsed
  <2> QED
    BY <2>1, <2>2, MappedType
<1>5. ASSUME NEW event PROVE Notified(list, event) \in Seq(CountdownPcbs)
  <2>1. \A i \in DOMAIN list : Notified(list, event)[i] \in CountdownPcbs
    BY <1>3 DEF Notified
  <2>2. Notified(list, event) = [i \in DOMAIN list |-> Notified(list, event)[i]]
    BY DEF Notified
  <2> QED
    BY <2>1, <2>2, MappedType
<1>6. StillWaiting(list) \in Seq(CountdownPcbs)
  <2>1. {p \in CountdownPcbs : p.state # Ready} \subseteq CountdownPcbs
    OBVIOUS
  <2> QED
    BY <2>1, WakeupType, SeqMonotonic
<1> QED
  BY <1>4, <1>5, <1>6

\* The end of a stop: the process yields, or goes on for at least the minimum.
LEMMA StoppedTime ==
  ASSUME PositiveTimes, TimeIsLeft, NEW waiting \in Seq(CountdownPcbs),
         NEW p, NEW q, NEW queues, NEW remaining \in 0..Timeslice,
         \/ LongEnough(remaining) /\ Continue(p, queues, remaining)
         \/ Yield(q, queues),
         waiting_processes' = StillWaiting(waiting),
         decision' = Outcome("Stopped")
  PROVE  TimeIsLeft'
<1>1. waiting_processes' \in Seq(CountdownPcbs)
  BY CountdownLists
<1>2. running_process' # {} => remaining_time' # 0
  BY RoundRobinPrioritiesAssumption DEF LongEnough, Continue, Yield, PositiveTimes
<1> QED
  BY <1>1, <1>2 DEF TimeIsLeft, NeverAborts, Outcome

\* The priority of a blocked process is all that changes with its promotion.
LEMMA PromotedCountdown ==
  ASSUME NEW p \in Ranked, p \in CountdownPcbs
  PROVE  IncrementPriority(p) \in CountdownPcbs
BY PriorityOperations DEF CountdownPcbs

LEMMA StopTime ==
  ASSUME PositiveTimes, QueueForEach, Coherent, TimeIsLeft, Stop
  PROVE  TimeIsLeft'
<1>1. \A time \in Nat : WaitingAfter(time) \in Seq(CountdownPcbs)
  BY CountdownLists DEF TimeIsLeft, WaitingAfter
<1>2. ASSUME running_process' = {}, decision' = Outcome("Stopped"),
             waiting_processes' \in Seq(CountdownPcbs)
      PROVE  TimeIsLeft'
  BY <1>2 DEF TimeIsLeft, NeverAborts, Outcome
<1>3. CASE Start
  BY <1>3, <1>2 DEF Start, Coherent, Nothing, TimeIsLeft
<1>4. CASE Expired
  <2>1. WaitingAfter(remaining_time) \in Seq(CountdownPcbs)
    BY <1>1, RoundRobinPrioritiesAssumption DEF Coherent
  <2>2. StillWaiting(WaitingAfter(remaining_time)) \in Seq(CountdownPcbs)
    BY <2>1, CountdownLists
  <2> QED
    BY <1>2, <1>4, <2>2 DEF Expired, Yield
<1>5. ASSUME NEW remaining \in Remaining
      PROVE  /\ remaining \in 0..Timeslice
             /\ WaitingAfter(remaining_time - remaining) \in Seq(CountdownPcbs)
  BY <1>1, RemainingStep DEF Coherent
<1>6. ASSUME NEW remaining \in Remaining, NEW priority \in Priorities, Fork(priority, remaining)
      PROVE  TimeIsLeft'
  BY <1>5, <1>6, StoppedTime DEF Fork
<1>7. ASSUME NEW remaining \in Remaining, Exit(remaining) PROVE TimeIsLeft'
  BY <1>2, <1>5, <1>7, CountdownLists DEF Exit
<1>8. ASSUME NEW remaining \in Remaining, NEW event \in Events, Signal(event, remaining)
      PROVE  TimeIsLeft'
  <2>1. Notified(WaitingAfter(remaining_time - remaining), event) \in Seq(CountdownPcbs)
    BY <1>5, CountdownLists
  <2> QED
    BY <1>5, <1>8, <2>1, StoppedTime DEF Signal
<1>9. ASSUME NEW remaining \in Remaining, NEW asleep \in CountdownPcbs, Block(asleep, remaining)
      PROVE  TimeIsLeft'
  <2>1. IncrementPriority(asleep) \in CountdownPcbs
    BY PromotedCountdown DEF CountdownPcbs, WaitingPcbs
  <2> QED
    BY <1>2, <1>5, <1>9, <2>1 DEF Block
<1>10. ASSUME NEW remaining \in Remaining, NEW event \in Events, Wait(event, remaining)
       PROVE  TimeIsLeft'
  <2>1. PICK p \in running_process : Block(AwaitEvent(p, event), remaining)
    BY <1>10 DEF Wait
  <2>2. p \in Ranked
    BY <2>1 DEF Coherent, RunningPcbs
  <2>3. AwaitEvent(p, event) \in CountdownPcbs
    BY <2>2, PcbOperations DEF CountdownPcbs, AwaitEvent, SignalWakeup, Ranked, PriorityPcb
  <2> QED
    BY <1>9, <2>1, <2>3
<1>11. ASSUME NEW remaining \in Remaining, NEW time \in SleepTimes, Sleep(time, remaining)
       PROVE  TimeIsLeft'
  <2>1. PICK p \in running_process : Block(PutToSleep(p, time), remaining)
    BY <1>11 DEF Sleep
  <2>2. p \in Ranked
    BY <2>1 DEF Coherent, RunningPcbs
  <2>3. time \in Nat /\ time # 0
    BY RoundRobinPrioritiesAssumption DEF PositiveTimes
  <2>4. PutToSleep(p, time).wakeup.arg = time
    BY <2>2 DEF PutToSleep, SleepWakeup, Ranked, PriorityPcb
  <2>5. PutToSleep(p, time) \in CountdownPcbs
    BY <2>2, <2>3, <2>4, PcbOperations DEF CountdownPcbs
  <2> QED
    BY <1>9, <2>1, <2>5
<1>12. ASSUME NEW priority \in Priorities, ForkWithoutQueue(priority) PROVE FALSE
  BY <1>12 DEF ForkWithoutQueue, QueueForEach
<1> QED
  BY <1>3, <1>4, <1>6, <1>7, <1>8, <1>10, <1>11, <1>12 DEF Stop, SystemCall

LEMMA NextDecisionTime ==
  ASSUME PositiveTimes, Coherent, TimeIsLeft, NextDecision
  PROVE  TimeIsLeft'
<1>1. WaitingOnNext \in Seq(CountdownPcbs)
  <2>1. WaitingAfter(sleep_time) \in Seq(CountdownPcbs)
    BY CountdownLists DEF Coherent, TimeIsLeft, WaitingAfter
  <2> QED
    BY <2>1, CountdownLists DEF TimeIsLeft, WaitingOnNext
<1>2. waiting_processes' = WaitingOnNext
  BY DEF NextDecision, DecideDone, DecidePanic, DecideContinue, DecideDispatch,
         DecideSleep, DecideDeadlock, Halt
<1>3. running_process' # {} => remaining_time' # 0
  <2>1. CASE DecideDispatch
    BY <2>1, RoundRobinPrioritiesAssumption DEF DecideDispatch
  <2>2. CASE ~ DecideDispatch
    BY <2>2 DEF NextDecision, DecideDone, DecidePanic, DecideContinue,
                DecideSleep, DecideDeadlock, Halt, TimeIsLeft
  <2> QED
    BY <2>1, <2>2
<1>4. NeverAborts'
  <2>1. CASE DecideDone \/ DecidePanic \/ DecideDeadlock
    BY <2>1 DEF DecideDone, DecidePanic, DecideDeadlock, Halt, NeverAborts, Outcome
  <2>2. CASE DecideContinue
    BY <2>2 DEF DecideContinue, TimeIsLeft, NeverAborts, NonZero, RunFor
  <2>3. CASE DecideDispatch
    BY <2>3 DEF DecideDispatch, NeverAborts, RunFor
  <2>4. CASE DecideSleep
    <3>1. PICK time \in FindSleepTime(WaitingOnNext) : PlanSleep(time)
      BY <2>4 DEF DecideSleep
    <3>2. time # 0
      BY <1>1, <3>1 DEF FindSleepTime, SleepingTimes, CountdownPcbs
    <3> QED
      BY <3>1, <3>2 DEF PlanSleep, NeverAborts, NonZero, SleepFor
  <2> QED
    BY <2>1, <2>2, <2>3, <2>4 DEF NextDecision
<1> QED
  BY <1>1, <1>2, <1>3, <1>4 DEF TimeIsLeft

\* Whoever runs, and whoever sleeps, has some time to go, in every state.
LEMMA TimeStaysLeft ==
  ASSUME PositiveTimes, QueueForEach
  PROVE  Spec => []TimeIsLeft
<1>1. Init => TimeIsLeft
  BY DEF Init, TimeIsLeft, NeverAborts, Outcome
<1>2. Coherent /\ TimeIsLeft /\ [Next]_vars => TimeIsLeft'
  <2>1. ASSUME TimeIsLeft, UNCHANGED vars PROVE TimeIsLeft'
    BY <2>1 DEF vars, TimeIsLeft, NeverAborts
  <2> QED
    BY <2>1, StopTime, NextDecisionTime DEF Next, Halted
<1> QED
  BY <1>1, <1>2, Coherence, PTL DEF Spec

(***************************************************************************)
(* With these assumptions on the configuration and the programs, next()    *)
(* always returns a decision and no call ends the program with exit(-1).   *)
(***************************************************************************)
THEOREM NoAbort ==
  ASSUME PositiveTimes, QueueForEach
  PROVE  Spec => []NeverAborts
<1>1. TimeIsLeft => NeverAborts
  BY DEF TimeIsLeft
<1> QED
  BY <1>1, TimeStaysLeft, PTL

-----------------------------------------------------------------------------
(* Who runs next: the first of the highest queue, in the order of arrival. *)

Dispatched ==
  running_process = {} /\ running_process' # {} =>
    \A p \in running_process', r \in ReadyOf(ready_processes') : p.priority >= r.priority

\* Only a dispatch gives the processor to a process, that of the highest queue.
LEMMA NextDispatched ==
  ASSUME Coherent, Next
  PROVE  Dispatched
<1>1. CASE DecideDispatch
  <2>1. PICK p \in ReadyPcbs, q \in Queues :
          /\ running_process' = {SetRunning(p)} /\ p.priority = q
          /\ ReadyOf(ReadyOnNext) = {p} \cup ReadyOf(ready_processes')
          /\ \A r \in Queues : ReadyOnNext[r] # << >> => q >= r
    BY <1>1, DispatchStep
  <2>2. p \in Ranked
    BY DEF ReadyPcbs
  <2>3. SetRunning(p).priority = q
    BY <2>1, <2>2 DEF SetRunning, Ranked, PriorityPcb
  <2>4. ReadyOnNext \in ReadyQueues
    BY NextStep
  <2>5. ASSUME NEW r \in ReadyOf(ready_processes') PROVE q >= r.priority
    <3>1. PICK s \in Queues : r \in Elements(ReadyOnNext[s])
      BY <2>1 DEF ReadyOf
    <3>2. ReadyOnNext[s] \in Seq(OfPriority(s))
      BY <2>4, QueueTypes
    <3>3. r.priority = s /\ ReadyOnNext[s] # << >>
      BY <3>1, <3>2, ElementsType DEF OfPriority, Elements
    <3> QED
      BY <2>1, <3>3
  <2> QED
    BY <2>1, <2>3, <2>5 DEF Dispatched
<1>2. CASE NextDecision /\ ~ DecideDispatch
  BY <1>2 DEF NextDecision, DecideDone, DecidePanic, DecideContinue, DecideSleep,
              DecideDeadlock, Halt, Dispatched
<1>3. CASE Stop
  BY <1>3 DEF Stop, SystemCall, Start, Expired, Fork, ForkWithoutQueue, Signal, Sleep,
              Wait, Block, Exit, Dispatched
<1>4. CASE Halted
  BY <1>4 DEF Halted, vars, Dispatched
<1> QED
  BY <1>1, <1>2, <1>3, <1>4 DEF Next

(***************************************************************************)
(* Whatever the priorities and the calls, a process that is given a fresh  *)
(* timeslice has the highest priority of all that are ready, those the     *)
(* simulated sleep has just woken included.                                *)
(***************************************************************************)
THEOREM HighestFirst == Spec => HighestPriorityFirst
<1>1. Coherent /\ [Next]_vars => [Dispatched]_vars
  BY NextDispatched
<1>2. Spec => [][Dispatched]_vars
  BY <1>1, Coherence, PTL DEF Spec
<1> QED
  BY <1>2 DEF HighestPriorityFirst, Dispatched

\* Every queue only grows, at its end.
Grow(queues, longer) ==
  \A q \in Queues : \E more \in Seq(ReadyPcbs) : longer[q] = queues[q] \o more

LEMMA GrowNot ==
  ASSUME NEW queues \in ReadyQueues
  PROVE  Grow(queues, queues)
<1>1. << >> \in Seq(ReadyPcbs) /\ \A list \in Seq(ReadyPcbs) : list = list \o << >>
  OBVIOUS
<1> QED
  BY <1>1, QueueTypes DEF Grow

LEMMA GrowTwice ==
  ASSUME NEW queues \in ReadyQueues, NEW longer, NEW longest,
         Grow(queues, longer), Grow(longer, longest)
  PROVE  Grow(queues, longest)
<1> SUFFICES ASSUME NEW q \in Queues
             PROVE  \E more \in Seq(ReadyPcbs) : longest[q] = queues[q] \o more
  BY DEF Grow
<1>1. PICK more \in Seq(ReadyPcbs) : longer[q] = queues[q] \o more
  BY DEF Grow
<1>2. PICK most \in Seq(ReadyPcbs) : longest[q] = longer[q] \o most
  BY DEF Grow
<1>3. queues[q] \in Seq(ReadyPcbs)
  BY QueueTypes
<1>4. more \o most \in Seq(ReadyPcbs)
  OBVIOUS
<1>5. \A s, t, u \in Seq(ReadyPcbs) : (s \o t) \o u = s \o (t \o u)
  BY ConcatAssociative
<1>6. (queues[q] \o more) \o most = queues[q] \o (more \o most)
  BY <1>3, <1>5
<1> QED
  BY <1>1, <1>2, <1>4, <1>6

LEMMA GrowBegins ==
  ASSUME NEW queues \in ReadyQueues, NEW longer, Grow(queues, longer), NEW q \in Queues
  PROVE  BeginsWith(longer[q], queues[q])
<1>1. PICK more \in Seq(ReadyPcbs) : longer[q] = queues[q] \o more
  BY DEF Grow
<1>2. queues[q] \in Seq(ReadyPcbs)
  BY QueueTypes
<1> QED
  BY <1>1, <1>2, ConcatPrefix DEF BeginsWith

LEMMA GrowPush ==
  ASSUME NEW queues \in ReadyQueues, NEW p \in ReadyPcbs
  PROVE  Grow(queues, Push(queues, p))
<1> SUFFICES ASSUME NEW q \in Queues
             PROVE  \E more \in Seq(ReadyPcbs) : Push(queues, p)[q] = queues[q] \o more
  BY DEF Grow
<1>1. queues[q] \in Seq(ReadyPcbs)
  BY QueueTypes
<1>2. /\ Append(queues[q], p) = queues[q] \o <<p>> /\ queues[q] = queues[q] \o << >>
      /\ <<p>> \in Seq(ReadyPcbs) /\ << >> \in Seq(ReadyPcbs)
  BY <1>1
<1>3. Push(queues, p)[q] = IF q = p.priority THEN Append(queues[q], p) ELSE queues[q]
  BY PushReady
<1> QED
  BY <1>2, <1>3

LEMMA GrowWoken ==
  ASSUME NEW queues \in ReadyQueues, NEW waiting \in Seq(WaitingPcbs)
  PROVE  Grow(queues, PushWoken(queues, waiting))
<1>1. Woken(waiting) \in Seq(ReadyPcbs)
  BY WakeupWaiting
<1>2. \A q \in Queues :
        Filter(Woken(waiting), {p \in Elements(waiting) : p.priority = q}) \in Seq(ReadyPcbs)
  BY <1>1, FilterPicks
<1> QED
  BY <1>2 DEF Grow, PushWoken

\* A yield pushes the process that stops, whatever its priority has become.
LEMMA GrowYield ==
  ASSUME NEW p \in Ranked, NEW q \in Ranked, NEW queues \in ReadyQueues, NEW remaining,
         Continue(q, queues, remaining) \/ Yield(p, queues)
  PROVE  Grow(queues, ready_processes')
<1>1. SetReady(p) \in ReadyPcbs
  BY PcbOperations
<1> QED
  BY <1>1, GrowPush, GrowNot DEF Continue, Yield

LEMMA StopGrows ==
  ASSUME Coherent, Stop
  PROVE  Grow(ready_processes, ready_processes')
<1>1. ready_processes \in ReadyQueues
  BY DEF Coherent
<1>2. CASE Start
  <2>1. highest_pid + 1 \in Pid
    BY RoundRobinPrioritiesAssumption DEF Coherent, Pid
  <2>2. NewPriorityPcb(highest_pid + 1, 0) \in ReadyPcbs
    BY <2>1, NewPcbReady DEF Queues
  <2> QED
    BY <1>1, <1>2, <2>2, GrowPush DEF Start
<1>3. ASSUME NEW queues \in ReadyQueues, NEW waiting \in Seq(WaitingPcbs)
      PROVE  PushWoken(queues, waiting) \in ReadyQueues /\ Grow(queues, PushWoken(queues, waiting))
  BY PushWokenReady, GrowWoken
<1>4. ASSUME NEW queues \in ReadyQueues, Grow(ready_processes, queues),
             NEW waiting \in Seq(WaitingPcbs), NEW p \in Ranked, NEW q \in Ranked, NEW remaining,
             \/ Continue(q, PushWoken(queues, waiting), remaining)
             \/ Yield(p, PushWoken(queues, waiting))
      PROVE  Grow(ready_processes, ready_processes')
  <2> DEFINE longer == PushWoken(queues, waiting)
  <2>1. longer \in ReadyQueues /\ Grow(queues, longer)
    BY <1>3
  <2>2. Grow(longer, ready_processes')
    BY <1>4, <2>1, GrowYield
  <2> HIDE DEF longer
  <2>3. Grow(ready_processes, longer)
    BY <1>1, <1>4, <2>1, GrowTwice
  <2> QED
    BY <1>1, <2>2, <2>3, GrowTwice
<1>5. ASSUME NEW p \in running_process, decision.kind = "Run"
      PROVE  /\ p \in Ranked /\ IncrementPriority(p) \in Ranked /\ DecrementPriority(p) \in Ranked
             /\ remaining_time \in Nat
             /\ \A time \in Nat : WaitingAfter(time) \in Seq(WaitingPcbs)
  BY <1>5, RunningStep, PriorityOperations, RoundRobinPrioritiesAssumption
<1>6. \A remaining \in Remaining : remaining_time - remaining \in Nat
  BY RemainingStep DEF Coherent
<1>7. CASE Expired
  <2>1. PICK p \in running_process :
          Yield(DecrementPriority(p), PushWoken(ready_processes, WaitingAfter(remaining_time)))
    BY <1>7 DEF Expired
  <2>2. /\ DecrementPriority(p) \in Ranked /\ WaitingAfter(remaining_time) \in Seq(WaitingPcbs)
    BY <1>5, <1>7 DEF Expired
  <2> QED
    BY <1>1, <1>4, <2>1, <2>2, GrowNot
<1>8. ASSUME NEW priority \in Priorities, NEW remaining \in Remaining, Fork(priority, remaining)
      PROVE  Grow(ready_processes, ready_processes')
  <2> DEFINE forked == Push(ready_processes, NewPriorityPcb(highest_pid + 1, priority))
             waiting == WaitingAfter(remaining_time - remaining)
  <2>1. PICK p \in running_process :
          \/ Continue(IncrementPriority(p), PushWoken(forked, waiting), remaining)
          \/ Yield(IncrementPriority(p), PushWoken(forked, waiting))
    BY <1>8 DEF Fork
  <2>2. IncrementPriority(p) \in Ranked /\ waiting \in Seq(WaitingPcbs)
    BY <1>5, <1>6, <1>8, <2>1 DEF Fork
  <2>3. highest_pid + 1 \in Pid
    BY RoundRobinPrioritiesAssumption DEF Coherent, Pid
  <2>4. NewPriorityPcb(highest_pid + 1, priority) \in ReadyPcbs
    BY <1>8, <2>3, NewPcbReady DEF Fork
  <2>5. forked \in ReadyQueues /\ Grow(ready_processes, forked)
    BY <1>1, <2>4, PushReady, GrowPush
  <2> HIDE DEF forked, waiting
  <2> QED
    BY <1>4, <2>1, <2>2, <2>5
<1>9. ASSUME NEW event \in Events, NEW remaining \in Remaining, Signal(event, remaining)
      PROVE  Grow(ready_processes, ready_processes')
  <2> DEFINE waiting == Notified(WaitingAfter(remaining_time - remaining), event)
  <2>1. PICK p \in running_process :
          \/ Continue(p, PushWoken(ready_processes, waiting), remaining)
          \/ Yield(IncrementPriority(p), PushWoken(ready_processes, waiting))
    BY <1>9 DEF Signal
  <2>2. /\ p \in Ranked /\ IncrementPriority(p) \in Ranked
        /\ WaitingAfter(remaining_time - remaining) \in Seq(WaitingPcbs)
    BY <1>5, <1>6, <1>9, <2>1 DEF Signal
  <2>3. waiting \in Seq(WaitingPcbs)
    BY <2>2, NotifiedWaiting
  <2> HIDE DEF waiting
  <2> QED
    BY <1>1, <1>4, <2>1, <2>2, <2>3, GrowNot
<1>10. ASSUME NEW remaining \in Remaining, Exit(remaining)
       PROVE  Grow(ready_processes, ready_processes')
  <2>1. PICK p \in running_process : TRUE
    BY <1>10 DEF Exit, Coherent, DecisionMatchesState
  <2>2. WaitingAfter(remaining_time - remaining) \in Seq(WaitingPcbs)
    BY <1>5, <1>6, <1>10, <2>1 DEF Exit
  <2> QED
    BY <1>1, <1>3, <1>10, <2>2 DEF Exit
<1>11. ASSUME ready_processes' = ready_processes PROVE Grow(ready_processes, ready_processes')
  BY <1>1, <1>11, GrowNot
<1> QED
  BY <1>2, <1>7, <1>8, <1>9, <1>10, <1>11 DEF Stop, SystemCall, ForkWithoutQueue, Sleep, Wait, Block

LEMMA NextDecisionGrows ==
  ASSUME Coherent
  PROVE  Grow(ready_processes, ReadyOnNext)
<1>1. ready_processes \in ReadyQueues
  BY DEF Coherent
<1>2. WaitingAfter(sleep_time) \in Seq(WaitingPcbs)
  BY ElapsedWaiting DEF Coherent, WaitingAfter
<1> QED
  BY <1>1, <1>2, GrowNot, GrowWoken DEF ReadyOnNext

InOrder ==
  \A q \in Queues :
    \/ BeginsWith(ready_processes'[q], ready_processes[q])
    \/ /\ ready_processes[q] # << >>
       /\ RunningPids' = {Head(ready_processes[q]).pid}
       /\ BeginsWith(ready_processes'[q], Tail(ready_processes[q]))

\* A dispatch takes the head of one queue, which was there or has just been woken.
LEMMA DispatchInOrder ==
  ASSUME Coherent, DecideDispatch
  PROVE  InOrder
<1>1. PICK p \in ReadyPcbs, q \in Queues :
        /\ p = Head(ReadyOnNext[q])
        /\ ReadyOnNext[q] \in Seq(ReadyPcbs) /\ ReadyOnNext[q] # << >>
        /\ running_process' = {SetRunning(p)} /\ SetRunning(p).pid = p.pid
        /\ \A r \in Queues : ready_processes'[r] =
             IF r = q THEN Tail(ReadyOnNext[q]) ELSE ReadyOnNext[r]
  BY DispatchStep
<1>2. ready_processes \in ReadyQueues /\ Grow(ready_processes, ReadyOnNext)
  BY NextDecisionGrows DEF Coherent
<1>3. \A r \in Queues \ {q} : BeginsWith(ready_processes'[r], ready_processes[r])
  BY <1>1, <1>2, GrowBegins
<1>4. CASE ready_processes[q] = << >>
  <2>1. << >> \in Seq(ReadyPcbs) /\ \A list \in Seq(ReadyPcbs) : list = << >> \o list
    OBVIOUS
  <2>2. ready_processes'[q] \in Seq(ReadyPcbs)
    BY <1>1, HeadTailProperties
  <2>3. BeginsWith(ready_processes'[q], ready_processes[q])
    BY <1>4, <2>1, <2>2, ConcatPrefix DEF BeginsWith
  <2> QED
    BY <1>3, <2>3 DEF InOrder
<1>5. CASE ready_processes[q] # << >>
  <2>1. PICK more \in Seq(ReadyPcbs) : ReadyOnNext[q] = ready_processes[q] \o more
    BY <1>2 DEF Grow
  <2>2. ready_processes[q] \in Seq(ReadyPcbs)
    BY <1>2, QueueTypes
  <2>3. /\ p = Head(ready_processes[q])
        /\ ready_processes'[q] = Tail(ready_processes[q]) \o more
    BY <1>1, <1>5, <2>1, <2>2, ConcatHeadTail
  <2>4. Tail(ready_processes[q]) \in Seq(ReadyPcbs)
    BY <1>5, <2>2, HeadTailProperties
  <2>5. BeginsWith(ready_processes'[q], Tail(ready_processes[q]))
    BY <2>1, <2>3, <2>4, ConcatPrefix DEF BeginsWith
  <2>6. RunningPids' = {Head(ready_processes[q]).pid}
    BY <1>1, <2>3 DEF RunningPids, PidsOf
  <2> QED
    BY <1>3, <1>5, <2>5, <2>6 DEF InOrder
<1> QED
  BY <1>4, <1>5

(***************************************************************************)
(* Within a priority the processes are served in the order they became     *)
(* ready, for any number of processes: no call puts a process in front of  *)
(* another of its queue, and what leaves a queue is its head, and runs.    *)
(***************************************************************************)
THEOREM FirstComeFirstServed == Spec => ServedInOrder
<1>1. ASSUME Coherent, Grow(ready_processes, ready_processes') PROVE InOrder
  BY <1>1, GrowBegins DEF Coherent, InOrder
<1>2. ASSUME Coherent, Next PROVE InOrder
  <2>1. CASE Stop
    BY <1>1, <1>2, <2>1, StopGrows
  <2>2. CASE DecideDispatch
    BY <1>2, <2>2, DispatchInOrder
  <2>3. CASE NextDecision /\ ~ DecideDispatch
    <3>1. ready_processes' = ReadyOnNext
      BY <2>3 DEF NextDecision, DecideDone, DecidePanic, DecideContinue, DecideSleep,
                  DecideDeadlock, Halt
    <3> QED
      BY <1>1, <1>2, <3>1, NextDecisionGrows
  <2>4. CASE Halted
    BY <1>1, <1>2, <2>4, GrowNot DEF Halted, vars, Coherent
  <2> QED
    BY <1>2, <2>1, <2>2, <2>3, <2>4 DEF Next
<1>3. Coherent /\ [Next]_vars => [InOrder]_vars
  BY <1>2
<1>4. Spec => [][InOrder]_vars
  BY <1>3, Coherence, PTL DEF Spec
<1> QED
  BY <1>4 DEF ServedInOrder, InOrder

=============================================================================
