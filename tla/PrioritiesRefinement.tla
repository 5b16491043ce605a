------------------------ MODULE PrioritiesRefinement ------------------------
(***************************************************************************)
(* The priority queue scheduler implements the contract of Scheduler, for  *)
(* every timeslice, events, sleep times, priorities and number of          *)
(* processes.  The argument is that of round robin: only the set of all    *)
(* PCBs matters, not which queue each of them is in, nor its priority.     *)
(* That only an expired timeslice costs priority is also about the PCBs of *)
(* all places before and after a call; it is proved at the end.            *)
(***************************************************************************)
EXTENDS PrioritiesProofs

LivePids == PidsOf(Live)

-----------------------------------------------------------------------------
(* The mapping. *)

\* No two processes have the same PID, as each of them is in one place.
LEMMA LiveDistinct ==
  ASSUME Coherent, EachProcessOnce
  PROVE  Distinct(Live)
<1> DEFINE ready == ReadyOf(ready_processes)
           waiting == Elements(waiting_processes)
<1>1. \A p, q \in ready : p.pid = q.pid => p = q
  <2> SUFFICES ASSUME NEW p \in ready, NEW q \in ready, p.pid = q.pid PROVE p = q
    OBVIOUS
  <2>1. PICK a \in Queues : p \in Elements(ready_processes[a])
    BY DEF ReadyOf
  <2>2. PICK b \in Queues : q \in Elements(ready_processes[b])
    BY DEF ReadyOf
  <2>3. p.pid \in Pids(ready_processes[a]) /\ q.pid \in Pids(ready_processes[b])
    BY <2>1, <2>2, ElementsPids
  <2>4. a = b
    BY <2>3 DEF EachProcessOnce
  <2> QED
    BY <2>1, <2>2, <2>4 DEF EachProcessOnce, PidsDiffer, Elements
<1>2. \A p, q \in waiting : p.pid = q.pid => p = q
  BY DEF EachProcessOnce, PidsDiffer, Elements
<1>3. /\ \A p \in ready : p.pid \in ReadyPids
      /\ \A p \in waiting : p.pid \in WaitingPids
      /\ \A p \in running_process : p.pid \in RunningPids
  BY ElementsPids DEF ReadyPids, WaitingPids, RunningPids, PidsOf
<1>4. Live = running_process \cup ready \cup waiting
  BY DEF Live
<1> HIDE DEF ready, waiting
<1> QED
  BY <1>1, <1>2, <1>3, <1>4 DEF EachProcessOnce, Coherent, Distinct

\* The mapped variable has each process once, with the condition in its PCB.
LEMMA Conditions ==
  Coherent /\ EachProcessOnce =>
    /\ Distinct(Live)
    /\ LivePids = {p.pid : p \in Live}
    /\ WakeupConditions = Wakeups(Live)
BY LiveDistinct DEF LivePids, PidsOf, WakeupConditions, WakeupOf, Wakeups

\* The same after a step.
LEMMA NextConditions ==
  (Coherent /\ EachProcessOnce)' =>
    /\ Distinct(Live')
    /\ LivePids' = {p.pid : p \in Live'}
    /\ WakeupConditions' = Wakeups(Live')
<1>1. (Coherent /\ EachProcessOnce =>
        /\ Distinct(Live)
        /\ LivePids = {p.pid : p \in Live}
        /\ WakeupConditions = Wakeups(Live))'
  BY Conditions, PTL
<1> QED
  BY <1>1 DEF Distinct, Wakeups

\* What the contract says of each process is so, if it says it of each PCB.
LEMMA Maps ==
  ASSUME Coherent', EachProcessOnce', NEW D, NEW f, f = [pid \in D |-> f[pid]],
         D = {p.pid : p \in Live'},
         \A p \in Live' : f[p.pid] = p.wakeup
  PROVE  WakeupConditions' = f
BY NextConditions, WakeupsAre

\* The conditions of the processes that are there.
LEMMA ConditionsApply ==
  ASSUME Coherent, EachProcessOnce
  PROVE  /\ WakeupConditions = [pid \in LivePids |-> WakeupConditions[pid]]
         /\ \A p \in Live : p.pid \in LivePids /\ WakeupConditions[p.pid] = p.wakeup
         /\ \A pid \in LivePids : \E p \in Live : p.pid = pid
<1>1. WakeupConditions = [pid \in LivePids |-> WakeupConditions[pid]]
  BY DEF WakeupConditions, LivePids
<1> QED
  BY <1>1, Conditions, WakeupsApply

\* The contract writes conditions and decisions as the scheduler does.
LEMMA ContractTerms ==
  /\ Contract!NoWakeup = NoWakeup
  /\ \A time : /\ Contract!SleepWakeup(time) = SleepWakeup(time)
               /\ Contract!SleepFor(time) = SleepFor(time)
  /\ \A event : Contract!SignalWakeup(event) = SignalWakeup(event)
  /\ \A kind : Contract!Outcome(kind) = Outcome(kind)
  /\ \A pid, time : Contract!RunFor(pid, time) = RunFor(pid, time)
BY DEF Contract!NoWakeup, Contract!SleepWakeup, Contract!SleepFor, Contract!SignalWakeup,
       Contract!Outcome, Contract!RunFor,
       NoWakeup, SleepWakeup, SleepFor, SignalWakeup, Outcome, RunFor

\* The awake processes, running or ready, are told apart from those that wait.
LEMMA AwakeHaveNoWakeup ==
  ASSUME Coherent
  PROVE  /\ \A p \in running_process \cup ReadyOf(ready_processes) :
              p \in Ranked /\ p.wakeup = NoWakeup
         /\ Elements(waiting_processes) \subseteq WaitingPcbs
BY QueueTypes, ElementsType DEF Coherent, RunningPcbs, ReadyPcbs, Parked

-----------------------------------------------------------------------------
(* Time. *)

\* The pass over the waiting list does to a process what the contract says.
LEMMA ElapseCountdown ==
  ASSUME NEW p \in WaitingPcbs, NEW time \in Nat
  PROVE  /\ Elapse(p, time).pid = p.pid
         /\ Elapse(p, time).wakeup = Contract!Countdown(p.wakeup, time)
<1>1. p \in Ranked
  BY DEF WaitingPcbs
<1>2. CASE p.wakeup.kind # "Sleep"
  BY <1>2 DEF Elapse, Contract!Countdown
<1>3. CASE p.wakeup.kind = "Sleep" /\ p.wakeup.arg > time
  BY <1>1, <1>3, ContractTerms DEF Elapse, Contract!Countdown, Ranked, PriorityPcb, WakeupCondition
<1>4. CASE p.wakeup.kind = "Sleep" /\ ~(p.wakeup.arg > time)
  BY <1>1, <1>4, ContractTerms DEF Elapse, Contract!Countdown, Ranked, PriorityPcb, WakeupCondition, SetReady
<1> QED
  BY <1>2, <1>3, <1>4

LEMMA AfterApply ==
  ASSUME Coherent, EachProcessOnce, NEW time \in Nat
  PROVE  /\ Contract!Existing = LivePids
         /\ Contract!After(time) = [pid \in LivePids |-> Contract!After(time)[pid]]
         /\ \A p \in running_process \cup ReadyOf(ready_processes) :
              Contract!After(time)[p.pid] = NoWakeup
         /\ \A p \in Elements(waiting_processes) :
              /\ Elapse(p, time).pid = p.pid
              /\ Contract!After(time)[p.pid] = Elapse(p, time).wakeup
<1>1. Contract!Existing = LivePids
  BY DEF Contract!Existing, WakeupConditions, LivePids
<1>2. \A p \in Live :
        Contract!After(time)[p.pid] = Contract!Countdown(p.wakeup, time)
  BY <1>1, ConditionsApply DEF Contract!After
<1>3. Contract!After(time) = [pid \in LivePids |-> Contract!After(time)[pid]]
  BY <1>1 DEF Contract!After
<1>4. ASSUME NEW p \in running_process \cup ReadyOf(ready_processes)
      PROVE  Contract!After(time)[p.pid] = NoWakeup
  BY <1>2, AwakeHaveNoWakeup, Kinds DEF Live, Contract!Countdown
<1>5. ASSUME NEW p \in Elements(waiting_processes)
      PROVE  /\ Elapse(p, time).pid = p.pid
             /\ Contract!After(time)[p.pid] = Elapse(p, time).wakeup
  BY <1>2, AwakeHaveNoWakeup, ElapseCountdown DEF Live
<1> QED
  BY <1>1, <1>3, <1>4, <1>5

\* The PCBs after wakeup_processes: the same, in other places, and nobody overlooked.
LEMMA WakeupKeepsAll ==
  ASSUME NEW queues \in ReadyQueues, NEW waiting \in Seq(WaitingPcbs)
  PROVE  /\ ReadyOf(PushWoken(queues, waiting)) \cup Elements(StillWaiting(waiting))
              = ReadyOf(queues) \cup Elements(waiting)
         /\ Pids(Woken(StillWaiting(waiting))) = {}
<1>1. StillWaiting(waiting) \in Seq(WaitingPcbs)
  BY WakeupWaiting
<1>2. ReadyOf(PushWoken(queues, waiting)) = ReadyOf(queues) \cup Elements(Woken(waiting))
  BY PushWokenReady
<1>3. /\ Elements(Woken(waiting)) = {p \in Elements(waiting) : p.state = Ready}
      /\ Elements(StillWaiting(waiting)) = {p \in Elements(waiting) : p.state # Ready}
      /\ Elements(Woken(StillWaiting(waiting)))
           = {p \in Elements(StillWaiting(waiting)) : p.state = Ready}
  BY <1>1, WakeupElements
<1>4. Pids(Woken(StillWaiting(waiting))) = {}
  BY <1>3, ElementsPids
<1> QED
  BY <1>2, <1>3, <1>4

-----------------------------------------------------------------------------
(* stop(reason). *)

\* What every stop of the running process starts from.
LEMMA StopFrom ==
  ASSUME Coherent, decision.kind = "Run", NEW p \in running_process
  PROVE  /\ decision = RunFor(p.pid, remaining_time)
         /\ decision.pid = p.pid /\ decision.time = remaining_time
         /\ remaining_time \in Nat
         /\ Contract!Remaining = Remaining
<1>1. decision = RunFor(p.pid, remaining_time)
  BY RunningStep DEF Coherent, DecisionMatchesState
<1>2. decision.pid = p.pid /\ decision.time = remaining_time
  BY <1>1 DEF RunFor
<1>3. remaining_time \in Nat
  BY RoundRobinPrioritiesAssumption DEF Coherent
<1> QED
  BY <1>1, <1>2, <1>3 DEF Contract!Remaining, Remaining

LEMMA StartMaps ==
  ASSUME Coherent, Coherent', EachProcessOnce', Start
  PROVE  Contract!Start
<1> DEFINE init == NewPriorityPcb(1, 0)
<1>1. /\ highest_pid = 0 /\ highest_pid' = 1 /\ Nothing
      /\ ready_processes' = Push(ready_processes, init)
      /\ running_process' = running_process /\ waiting_processes' = waiting_processes
  BY DEF Coherent, Start, Nothing
<1>2. init \in ReadyPcbs /\ init.pid = 1 /\ init.wakeup = NoWakeup
  <2>1. 1 \in Pid /\ 0 \in Queues
    BY DEF Pid, Queues
  <2> QED
    BY <2>1, NewPcbReady DEF NewPriorityPcb
<1> HIDE DEF init
<1>3. Live' = {init}
  <2>1. ReadyOf(ready_processes) = {}
    BY <1>1 DEF Nothing, ReadyOf, Elements
  <2>2. ReadyOf(ready_processes') = {init}
    BY <1>1, <1>2, <2>1, PushReady DEF Coherent
  <2> QED
    BY <1>1, <2>2 DEF Live, Nothing, Elements
<1>4. WakeupConditions' = [pid \in {1} |-> NoWakeup]
  <2>1. \A p \in Live' : [pid \in {1} |-> NoWakeup][p.pid] = p.wakeup
    BY <1>2, <1>3
  <2> QED
    BY <1>2, <1>3, <2>1, Maps
<1>5. ReadyInWaiting' = ReadyInWaiting
  BY <1>1 DEF ReadyInWaiting
<1> QED
  BY <1>1, <1>4, <1>5, ContractTerms DEF Contract!Start, Start

\* Whether it goes on or waits for its turn, the process that called is there.
LEMMA CallerStays ==
  ASSUME NEW p \in Ranked, p.wakeup = NoWakeup, NEW queues \in ReadyQueues,
         NEW remaining,
         Yield(p, queues) \/ Continue(p, queues, remaining)
  PROVE  \E q : /\ q.pid = p.pid /\ q.wakeup = NoWakeup /\ q.priority = p.priority
                /\ running_process' \cup ReadyOf(ready_processes') = {q} \cup ReadyOf(queues)
<1> SetReady(p).priority = p.priority /\ SetRunning(p).priority = p.priority
  BY DEF SetReady, SetRunning, Ranked, PriorityPcb
<1>1. CASE Yield(p, queues)
  <2>1. SetReady(p) \in ReadyPcbs /\ SetReady(p).pid = p.pid
    BY PcbOperations
  <2>2. ReadyOf(ready_processes') = ReadyOf(queues) \cup {SetReady(p)}
    BY <1>1, <2>1, PushReady DEF Yield
  <2> QED
    BY <1>1, <2>1, <2>2 DEF Yield, ReadyPcbs, Parked
<1>2. CASE Continue(p, queues, remaining)
  <2>1. SetRunning(p) \in RunningPcbs /\ SetRunning(p).pid = p.pid
    BY PcbOperations
  <2> QED
    BY <1>2, <2>1 DEF RunningPcbs, Continue
<1> QED
  BY <1>1, <1>2

\* Everyone after a call that wakes up: the caller, the queues and who waited.
LEMMA LiveAfterCall ==
  ASSUME NEW p \in Ranked, p.wakeup = NoWakeup, NEW queues \in ReadyQueues,
         NEW waiting \in Seq(WaitingPcbs), NEW remaining,
         \/ Yield(p, PushWoken(queues, waiting))
         \/ Continue(p, PushWoken(queues, waiting), remaining),
         waiting_processes' = StillWaiting(waiting)
  PROVE  /\ \E q : /\ q.pid = p.pid /\ q.wakeup = NoWakeup /\ q.priority = p.priority
                   /\ Live' = {q} \cup ReadyOf(queues) \cup Elements(waiting)
         /\ ReadyInWaiting' = {}
<1> DEFINE longer == PushWoken(queues, waiting)
<1>1. longer \in ReadyQueues
  BY PushWokenReady
<1>2. /\ ReadyOf(longer) \cup Elements(StillWaiting(waiting))
           = ReadyOf(queues) \cup Elements(waiting)
      /\ Pids(Woken(StillWaiting(waiting))) = {}
  BY WakeupKeepsAll
<1>3. Yield(p, longer) \/ Continue(p, longer, remaining)
  OBVIOUS
<1> HIDE DEF longer
<1>4. PICK q : /\ q.pid = p.pid /\ q.wakeup = NoWakeup /\ q.priority = p.priority
               /\ running_process' \cup ReadyOf(ready_processes') = {q} \cup ReadyOf(longer)
  BY <1>1, <1>3, CallerStays
<1>5. Live' = {q} \cup ReadyOf(queues) \cup Elements(waiting)
  BY <1>2, <1>4 DEF Live
<1> QED
  BY <1>2, <1>4, <1>5 DEF ReadyInWaiting

\* Who there is when the running process stops, after some time.
LEMMA PidsAfter ==
  ASSUME Coherent, EachProcessOnce, NEW p \in running_process, NEW time \in Nat
  PROVE  /\ Elements(WaitingAfter(time)) = {Elapse(r, time) : r \in Elements(waiting_processes)}
         /\ LivePids = {p.pid} \cup {r.pid : r \in ReadyOf(ready_processes)}
                               \cup {r.pid : r \in Elements(WaitingAfter(time))}
<1>1. Elements(WaitingAfter(time)) = {Elapse(r, time) : r \in Elements(waiting_processes)}
  BY ElapsedElements DEF WaitingAfter
<1>2. LivePids = {r.pid : r \in Live}
  BY Conditions
<1>3. Live = {p} \cup ReadyOf(ready_processes) \cup Elements(waiting_processes)
  BY DEF Live, Coherent
<1>4. {r.pid : r \in Elements(WaitingAfter(time))}
        = {r.pid : r \in Elements(waiting_processes)}
  <2>1. \A r \in Elements(waiting_processes) : Elapse(r, time).pid = r.pid
    BY AfterApply
  <2> QED
    BY <1>1, <2>1
<1> QED
  BY <1>1, <1>2, <1>3, <1>4

\* The conditions when some time has passed, place by place.
LEMMA AfterWaiting ==
  ASSUME Coherent, EachProcessOnce, NEW time \in Nat
  PROVE  \A r \in Elements(WaitingAfter(time)) : Contract!After(time)[r.pid] = r.wakeup
<1>1. Elements(WaitingAfter(time)) = {Elapse(r, time) : r \in Elements(waiting_processes)}
  BY ElapsedElements DEF WaitingAfter
<1> QED
  BY <1>1, AfterApply

LEMMA ExpiredMaps ==
  ASSUME Coherent, EachProcessOnce, Coherent', EachProcessOnce', Expired
  PROVE  Contract!Expired
<1> DEFINE time == remaining_time
           waiting == WaitingAfter(time)
<1>1. PICK p \in running_process :
         /\ Yield(DecrementPriority(p), PushWoken(ready_processes, waiting))
         /\ waiting_processes' = StillWaiting(waiting)
  BY DEF Expired
<1>2. decision.kind = "Run" /\ decision' = Outcome("Stopped") /\ highest_pid' = highest_pid
  BY DEF Expired
<1>3. /\ decision.time = time /\ time \in Nat
      /\ p \in Ranked /\ p.wakeup = NoWakeup /\ running_process = {p}
      /\ waiting \in Seq(WaitingPcbs) /\ ready_processes \in ReadyQueues
  BY <1>2, RunningStep, StopFrom DEF Coherent
<1>4. /\ LivePids = {p.pid} \cup {r.pid : r \in ReadyOf(ready_processes)}
                            \cup {r.pid : r \in Elements(waiting)}
      /\ \A r \in Elements(waiting) : Contract!After(time)[r.pid] = r.wakeup
      /\ \A r \in {p} \cup ReadyOf(ready_processes) :
           Contract!After(time)[r.pid] = NoWakeup /\ r.wakeup = NoWakeup
  BY <1>3, PidsAfter, AfterWaiting, AfterApply, AwakeHaveNoWakeup
<1> DEFINE demoted == DecrementPriority(p)
<1>5. demoted \in Ranked /\ demoted.pid = p.pid /\ demoted.wakeup = NoWakeup
  BY <1>3, PriorityOperations
<1> HIDE DEF waiting, demoted
<1>6. PICK q : /\ q.pid = demoted.pid /\ q.wakeup = NoWakeup /\ q.priority = demoted.priority
               /\ Live' = {q} \cup ReadyOf(ready_processes) \cup Elements(waiting)
  BY <1>1, <1>3, <1>5, LiveAfterCall DEF demoted
<1>7. ReadyInWaiting' = {}
  BY <1>1, <1>3, <1>5, LiveAfterCall DEF demoted
<1>8. \A r \in Live' : Contract!After(time)[r.pid] = r.wakeup
  BY <1>4, <1>5, <1>6
<1>9. LivePids = {r.pid : r \in Live'}
  BY <1>4, <1>5, <1>6
<1>10. WakeupConditions' = Contract!After(time)
  BY <1>3, <1>8, <1>9, AfterApply, Maps
<1> QED
  BY <1>2, <1>3, <1>10, <1>7, ContractTerms DEF Contract!Expired, Contract!Stopped

LEMMA ForkMaps ==
  ASSUME Coherent, EachProcessOnce, Coherent', EachProcessOnce',
         NEW priority, NEW remaining \in Remaining, Fork(priority, remaining)
  PROVE  Contract!Fork(remaining)
<1> DEFINE time == remaining_time - remaining
           waiting == WaitingAfter(time)
           child == NewPriorityPcb(highest_pid + 1, priority)
           queues == Push(ready_processes, child)
           Forked == [pid \in LivePids \cup {highest_pid + 1} |->
                        IF pid \in LivePids THEN Contract!After(time)[pid] ELSE NoWakeup]
<1>1. PICK p \in running_process :
         /\ \/ Continue(IncrementPriority(p), PushWoken(queues, waiting), remaining)
            \/ Yield(IncrementPriority(p), PushWoken(queues, waiting))
         /\ waiting_processes' = StillWaiting(waiting)
  BY DEF Fork
<1>2. /\ decision.kind = "Run" /\ decision' = Outcome("Stopped") /\ priority \in Queues
      /\ highest_pid < MaxPid /\ highest_pid' = highest_pid + 1
  BY DEF Fork
<1>3. /\ decision.time = remaining_time /\ time \in Nat
      /\ p \in Ranked /\ p.wakeup = NoWakeup /\ running_process = {p}
      /\ waiting \in Seq(WaitingPcbs) /\ ready_processes \in ReadyQueues
  BY <1>2, RunningStep, RemainingStep, StopFrom DEF Coherent
<1>4. /\ LivePids = {p.pid} \cup {r.pid : r \in ReadyOf(ready_processes)}
                            \cup {r.pid : r \in Elements(waiting)}
      /\ \A r \in Elements(waiting) : Contract!After(time)[r.pid] = r.wakeup
      /\ \A r \in {p} \cup ReadyOf(ready_processes) :
           Contract!After(time)[r.pid] = NoWakeup /\ r.wakeup = NoWakeup
  BY <1>3, PidsAfter, AfterWaiting, AfterApply, AwakeHaveNoWakeup
<1>5. highest_pid + 1 \in Pid /\ highest_pid + 1 \notin LivePids
  BY RoundRobinPrioritiesAssumption DEF Coherent, Pid, EachProcessOnce, LivePids
<1>6. child \in ReadyPcbs /\ child.pid = highest_pid + 1 /\ child.wakeup = NoWakeup
  BY <1>2, <1>5, NewPcbReady DEF NewPriorityPcb
<1>7. queues \in ReadyQueues /\ ReadyOf(queues) = ReadyOf(ready_processes) \cup {child}
  BY <1>3, <1>6, PushReady
<1> DEFINE promoted == IncrementPriority(p)
<1>8. /\ promoted \in Ranked /\ promoted.pid = p.pid /\ promoted.wakeup = NoWakeup
      /\ \/ Continue(promoted, PushWoken(queues, waiting), remaining)
         \/ Yield(promoted, PushWoken(queues, waiting))
      /\ waiting_processes' = StillWaiting(waiting)
  BY <1>1, <1>3, PriorityOperations
<1> HIDE DEF waiting, queues, child, promoted
<1>9. PICK q : /\ q.pid = promoted.pid /\ q.wakeup = NoWakeup /\ q.priority = promoted.priority
               /\ Live' = {q} \cup ReadyOf(queues) \cup Elements(waiting)
  BY <1>3, <1>7, <1>8, LiveAfterCall
<1>10. ReadyInWaiting' = {}
  BY <1>3, <1>7, <1>8, LiveAfterCall
<1> HIDE DEF time
<1>11. \A r \in Live' : Forked[r.pid] = r.wakeup
  BY <1>4, <1>5, <1>6, <1>7, <1>8, <1>9
<1>12. LivePids \cup {highest_pid + 1} = {r.pid : r \in Live'}
  BY <1>4, <1>5, <1>6, <1>7, <1>8, <1>9
<1>13. WakeupConditions' = Forked
  BY <1>11, <1>12, Maps
<1>14. Contract!Existing = LivePids
  BY <1>3, AfterApply
<1> QED
  BY <1>2, <1>3, <1>10, <1>13, <1>14, ContractTerms
     DEF Contract!Fork, Contract!Stopped, time

\* A signal ends the wait for its event and no other, before or after some time.
LEMMA NotifyCondition ==
  ASSUME NEW p \in WaitingPcbs, NEW time \in Nat, NEW event
  PROVE  LET q == Elapse(p, time)
         IN  /\ Notify(q, event).pid = p.pid
             /\ Notify(q, event).wakeup =
                  IF p.wakeup = SignalWakeup(event) THEN NoWakeup ELSE q.wakeup
<1> DEFINE q == Elapse(p, time)
<1>1. q \in Ranked /\ q.pid = p.pid
  BY ElapseWaiting, ElapseCountdown DEF WaitingPcbs
<1>2. q.wakeup = SignalWakeup(event) <=> p.wakeup = SignalWakeup(event)
  <2>1. CASE p.wakeup.kind # "Sleep"
    BY <2>1 DEF Elapse
  <2>2. CASE p.wakeup.kind = "Sleep"
    <3>1. q.wakeup.kind \in {"Sleep", "None"}
      BY <2>2, ElapseCountdown, ContractTerms, Kinds
         DEF Contract!Countdown, SleepWakeup
    <3> QED
      BY <2>2, <3>1, Kinds
  <2> QED
    BY <2>1, <2>2
<1> HIDE DEF q
<1>3. Notify(q, event).pid = p.pid
  BY <1>1, PcbOperations DEF Notify
<1>4. Notify(q, event).wakeup =
        IF p.wakeup = SignalWakeup(event) THEN NoWakeup ELSE q.wakeup
  BY <1>1, <1>2 DEF Notify, SetReady, Ranked, PriorityPcb
<1> QED
  BY <1>3, <1>4 DEF q

LEMMA SignalMaps ==
  ASSUME Coherent, EachProcessOnce, Coherent', EachProcessOnce',
         NEW event, NEW remaining \in Remaining, Signal(event, remaining)
  PROVE  Contract!Signal(event, remaining)
<1> DEFINE time == remaining_time - remaining
           before == WaitingAfter(time)
           waiting == Notified(before, event)
           Signalled == [pid \in LivePids |->
                           IF WakeupConditions[pid] = SignalWakeup(event) THEN NoWakeup
                           ELSE Contract!After(time)[pid]]
<1>1. PICK p \in running_process :
         /\ \/ Continue(p, PushWoken(ready_processes, waiting), remaining)
            \/ Yield(IncrementPriority(p), PushWoken(ready_processes, waiting))
         /\ waiting_processes' = StillWaiting(waiting)
  BY DEF Signal
<1>2. /\ decision.kind = "Run" /\ decision' = Outcome("Stopped")
      /\ highest_pid' = highest_pid
  BY DEF Signal
<1>3. /\ decision.time = remaining_time /\ time \in Nat
      /\ p \in Ranked /\ p.wakeup = NoWakeup /\ running_process = {p}
      /\ before \in Seq(WaitingPcbs) /\ ready_processes \in ReadyQueues
  BY <1>2, RunningStep, RemainingStep, StopFrom DEF Coherent
<1>4. waiting \in Seq(WaitingPcbs)
  BY <1>3, NotifiedWaiting
<1>5. LivePids = {p.pid} \cup {r.pid : r \in ReadyOf(ready_processes)}
                         \cup {r.pid : r \in Elements(before)}
  BY <1>3, PidsAfter
<1>6. \A r \in {p} \cup ReadyOf(ready_processes) : Signalled[r.pid] = NoWakeup
  <2>1. ASSUME NEW r \in {p} \cup ReadyOf(ready_processes)
        PROVE  Signalled[r.pid] = NoWakeup
    <3>1. Contract!After(time)[r.pid] = NoWakeup
      BY <1>3, AfterApply
    <3>2. r.pid \in LivePids
      BY <1>5
    <3> QED
      BY <3>1, <3>2
  <2> QED
    BY <2>1
<1>7. /\ Elements(waiting) = {Notify(r, event) : r \in Elements(before)}
      /\ Elements(before) = {Elapse(r, time) : r \in Elements(waiting_processes)}
  BY NotifiedElements, ElapsedElements DEF WaitingAfter
<1>8. ASSUME NEW r \in Elements(waiting_processes)
      PROVE  LET n == Notify(Elapse(r, time), event)
             IN  n.pid = r.pid /\ Elapse(r, time).pid = r.pid /\ Signalled[n.pid] = n.wakeup
  <2> DEFINE n == Notify(Elapse(r, time), event)
  <2>1. r \in WaitingPcbs
    BY AwakeHaveNoWakeup
  <2>2. /\ n.pid = r.pid
        /\ n.wakeup = IF r.wakeup = SignalWakeup(event) THEN NoWakeup ELSE Elapse(r, time).wakeup
    BY <1>3, <2>1, NotifyCondition
  <2>3. /\ Contract!After(time)[r.pid] = Elapse(r, time).wakeup
        /\ Elapse(r, time).pid = r.pid
    BY <1>3, AfterApply
  <2>4. r.pid \in LivePids /\ WakeupConditions[r.pid] = r.wakeup
    BY ConditionsApply DEF Live
  <2> QED
    BY <2>2, <2>3, <2>4
<1> HIDE DEF Signalled, time
<1>9. /\ \A r \in Elements(waiting) : Signalled[r.pid] = r.wakeup
      /\ {r.pid : r \in Elements(waiting)} = {r.pid : r \in Elements(before)}
  BY <1>7, <1>8
<1> HIDE DEF waiting, before
<1>10. PICK c \in {p, IncrementPriority(p)} :
         \/ Continue(c, PushWoken(ready_processes, waiting), remaining)
         \/ Yield(c, PushWoken(ready_processes, waiting))
  BY <1>1
<1>11. c \in Ranked /\ c.pid = p.pid /\ c.wakeup = NoWakeup
  BY <1>3, PriorityOperations
<1>12. PICK q : /\ q.pid = p.pid /\ q.wakeup = NoWakeup
                /\ Live' = {q} \cup ReadyOf(ready_processes) \cup Elements(waiting)
  BY <1>1, <1>3, <1>4, <1>10, <1>11, LiveAfterCall
<1>13. ReadyInWaiting' = {}
  BY <1>1, <1>3, <1>4, <1>10, <1>11, LiveAfterCall
<1>14. \A r \in Live' : Signalled[r.pid] = r.wakeup
  BY <1>3, <1>6, <1>9, <1>12, AwakeHaveNoWakeup
<1>15. LivePids = {r.pid : r \in Live'}
  BY <1>5, <1>9, <1>12
<1>16. WakeupConditions' = Signalled
  BY <1>14, <1>15, Maps DEF Signalled
<1>17. Contract!Existing = LivePids
  BY <1>3, AfterApply
<1> QED
  BY <1>2, <1>3, <1>13, <1>16, <1>17, ContractTerms
     DEF Contract!Signal, Contract!Stopped, time, Signalled

\* In the waiting list, a process that is Ready is one that waits for nothing.
LEMMA WokenIfNoWakeup ==
  ASSUME NEW list \in Seq(WaitingPcbs)
  PROVE  Pids(Woken(list)) = {p.pid : p \in {q \in Elements(list) : q.wakeup = NoWakeup}}
<1>1. \A p \in WaitingPcbs : p.state = Ready <=> p.wakeup = NoWakeup
  BY Kinds DEF WaitingPcbs, Parked, Blocked, Asleep, Awaiting
<1>2. Elements(Woken(list)) = {p \in Elements(list) : p.state = Ready}
  BY WakeupElements
<1> QED
  BY <1>1, <1>2, ElementsPids, ElementsType

\* Sleep and Wait: those whose sleep has just run out stay where they are.
LEMMA BlockMaps ==
  ASSUME Coherent, EachProcessOnce, Coherent', EachProcessOnce',
         decision.kind = "Run", NEW remaining \in Remaining, NEW p \in running_process,
         NEW asleep \in WaitingPcbs, asleep.pid = p.pid, asleep.wakeup # NoWakeup,
         Block(asleep, remaining)
  PROVE  Contract!Block(asleep.wakeup, remaining)
<1> DEFINE time == remaining_time - remaining
           waiting == WaitingAfter(time)
           last == IncrementPriority(asleep)
           AfterBlock == [Contract!After(time) EXCEPT ![p.pid] = asleep.wakeup]
<1>1. /\ decision' = Outcome("Stopped") /\ highest_pid' = highest_pid
      /\ running_process' = {} /\ ready_processes' = ready_processes
      /\ waiting_processes' = Append(waiting, last)
  BY DEF Block
<1>2. /\ decision.time = remaining_time /\ decision.pid = p.pid /\ time \in Nat
      /\ running_process = {p}
      /\ waiting \in Seq(WaitingPcbs) /\ ready_processes \in ReadyQueues
  BY RunningStep, RemainingStep, StopFrom DEF Coherent
<1>3. /\ LivePids = {p.pid} \cup {r.pid : r \in ReadyOf(ready_processes)}
                            \cup {r.pid : r \in Elements(waiting)}
      /\ \A r \in Elements(waiting) : Contract!After(time)[r.pid] = r.wakeup
      /\ \A r \in ReadyOf(ready_processes) :
           Contract!After(time)[r.pid] = NoWakeup /\ r.wakeup = NoWakeup
  BY <1>2, PidsAfter, AfterWaiting, AfterApply, AwakeHaveNoWakeup
<1>4. p.pid \notin {r.pid : r \in ReadyOf(ready_processes)} \cup {r.pid : r \in Elements(waiting)}
  <2>1. {r.pid : r \in Elements(waiting)} = {r.pid : r \in Elements(waiting_processes)}
    BY <1>2, PidsAfter, AfterApply
  <2> QED
    BY <2>1, ElementsPids DEF EachProcessOnce, RunningPids, ReadyPids, WaitingPids, PidsOf
<1>5. /\ Contract!Existing = LivePids
      /\ Contract!After(time) = [pid \in LivePids |-> Contract!After(time)[pid]]
  BY <1>2, AfterApply
<1>6. last \in WaitingPcbs /\ last.pid = p.pid /\ last.wakeup = asleep.wakeup
  BY PriorityOperations DEF WaitingPcbs
<1> HIDE DEF last
<1>7. /\ Elements(waiting_processes') = Elements(waiting) \cup {last}
      /\ waiting_processes' \in Seq(WaitingPcbs)
  BY <1>1, <1>2, <1>6, ElementsAppend
<1>8. ReadyInWaiting' = ReadyInWaiting \cup Contract!DueWithin(time)
  <2>1. ReadyInWaiting' = {r.pid : r \in {q \in Elements(waiting) : q.wakeup = NoWakeup}}
    BY <1>7, <1>6, WokenIfNoWakeup DEF ReadyInWaiting
  <2>2. ReadyInWaiting = {r.pid : r \in {q \in Elements(waiting_processes) : q.wakeup = NoWakeup}}
    BY WokenIfNoWakeup DEF ReadyInWaiting, Coherent
  <2>3. Elements(waiting) = {Elapse(r, time) : r \in Elements(waiting_processes)}
    BY <1>2, PidsAfter
  <2>4. ASSUME NEW r \in Elements(waiting_processes)
        PROVE  /\ Elapse(r, time).pid = r.pid
               /\ Contract!After(time)[r.pid] = Elapse(r, time).wakeup
               /\ r.pid \in LivePids /\ WakeupConditions[r.pid] = r.wakeup
               /\ r.wakeup = NoWakeup => Elapse(r, time).wakeup = NoWakeup
    BY <1>2, AfterApply, ConditionsApply, Kinds DEF Live, Elapse
  <2>5. ASSUME NEW pid \in LivePids, WakeupConditions[pid] # NoWakeup
        PROVE  \E r \in Elements(waiting_processes) : r.pid = pid
    BY <2>5, ConditionsApply, AwakeHaveNoWakeup DEF Live
  <2>6. Contract!DueWithin(time) =
          {pid \in LivePids :
             WakeupConditions[pid] # NoWakeup /\ Contract!After(time)[pid] = NoWakeup}
    BY <1>5, ContractTerms DEF Contract!DueWithin
  <2> HIDE DEF waiting, time
  <2>7. ASSUME NEW pid \in ReadyInWaiting'
        PROVE  pid \in ReadyInWaiting \cup Contract!DueWithin(time)
    BY <2>1, <2>2, <2>3, <2>4, <2>6
  <2>8. ASSUME NEW pid \in ReadyInWaiting \cup Contract!DueWithin(time)
        PROVE  pid \in ReadyInWaiting'
    BY <2>1, <2>2, <2>3, <2>4, <2>5, <2>6
  <2> QED
    BY <2>7, <2>8
<1>9. Live' = ReadyOf(ready_processes) \cup Elements(waiting) \cup {last}
  BY <1>1, <1>7 DEF Live
<1> HIDE DEF waiting, time
<1>10. \A r \in Live' : AfterBlock[r.pid] = r.wakeup
  BY <1>3, <1>4, <1>5, <1>6, <1>9
<1>11. LivePids = {r.pid : r \in Live'}
  BY <1>3, <1>6, <1>9
<1>12. AfterBlock = [pid \in LivePids |-> AfterBlock[pid]]
  BY <1>5
<1> HIDE DEF AfterBlock
<1>13. WakeupConditions' = AfterBlock
  BY <1>10, <1>11, <1>12, Maps
<1> QED
  BY <1>1, <1>2, <1>8, <1>13, ContractTerms
     DEF Contract!Block, Contract!Stopped, time, AfterBlock

LEMMA SleepMaps ==
  ASSUME Coherent, EachProcessOnce, Coherent', EachProcessOnce',
         NEW remaining \in Remaining, NEW time \in SleepTimes, Sleep(time, remaining)
  PROVE  Contract!Sleep(time, remaining)
<1>1. PICK p \in running_process : Block(PutToSleep(p, time), remaining)
  BY DEF Sleep
<1>2. decision.kind = "Run" /\ p \in Ranked /\ time \in Nat
  BY <1>1, RunningStep, RoundRobinPrioritiesAssumption DEF Sleep
<1>3. PutToSleep(p, time) \in WaitingPcbs /\ PutToSleep(p, time).pid = p.pid
  BY <1>2, PcbOperations
<1>4. PutToSleep(p, time).wakeup = SleepWakeup(time) /\ SleepWakeup(time) # NoWakeup
  BY <1>2 DEF PutToSleep, Ranked, PriorityPcb, SleepWakeup, NoWakeup
<1> QED
  BY <1>1, <1>2, <1>3, <1>4, BlockMaps, ContractTerms DEF Contract!Sleep

LEMMA WaitMaps ==
  ASSUME Coherent, EachProcessOnce, Coherent', EachProcessOnce',
         NEW remaining \in Remaining, NEW event \in Events, Wait(event, remaining)
  PROVE  Contract!Wait(event, remaining)
<1>1. PICK p \in running_process : Block(AwaitEvent(p, event), remaining)
  BY DEF Wait
<1>2. decision.kind = "Run" /\ p \in Ranked
  BY <1>1, RunningStep DEF Wait
<1>3. AwaitEvent(p, event) \in WaitingPcbs /\ AwaitEvent(p, event).pid = p.pid
  BY <1>2, PcbOperations
<1>4. AwaitEvent(p, event).wakeup = SignalWakeup(event) /\ SignalWakeup(event) # NoWakeup
  BY <1>2 DEF AwaitEvent, Ranked, PriorityPcb, SignalWakeup, NoWakeup
<1> QED
  BY <1>1, <1>2, <1>3, <1>4, BlockMaps, ContractTerms DEF Contract!Wait

LEMMA ExitMaps ==
  ASSUME Coherent, EachProcessOnce, Coherent', EachProcessOnce',
         NEW remaining \in Remaining, Exit(remaining)
  PROVE  Contract!Exit(remaining)
<1> DEFINE time == remaining_time - remaining
           waiting == WaitingAfter(time)
<1>1. PICK p \in running_process : TRUE
  BY DEF Exit, Coherent, DecisionMatchesState
<1>2. /\ decision.kind = "Run" /\ decision' = Outcome("Stopped")
      /\ highest_pid' = highest_pid /\ running_process' = {}
      /\ ready_processes' = PushWoken(ready_processes, waiting)
      /\ waiting_processes' = StillWaiting(waiting)
  BY DEF Exit
<1>3. /\ decision.time = remaining_time /\ decision.pid = p.pid /\ time \in Nat
      /\ waiting \in Seq(WaitingPcbs) /\ ready_processes \in ReadyQueues
  BY <1>1, <1>2, RunningStep, RemainingStep, StopFrom DEF Coherent
<1>4. /\ LivePids = {p.pid} \cup {r.pid : r \in ReadyOf(ready_processes)}
                            \cup {r.pid : r \in Elements(waiting)}
      /\ \A r \in Elements(waiting) : Contract!After(time)[r.pid] = r.wakeup
      /\ \A r \in ReadyOf(ready_processes) :
           Contract!After(time)[r.pid] = NoWakeup /\ r.wakeup = NoWakeup
  BY <1>1, <1>3, PidsAfter, AfterWaiting, AfterApply, AwakeHaveNoWakeup
<1>5. p.pid \notin {r.pid : r \in ReadyOf(ready_processes)} \cup {r.pid : r \in Elements(waiting)}
  <2>1. {r.pid : r \in Elements(waiting)} = {r.pid : r \in Elements(waiting_processes)}
    BY <1>1, <1>3, PidsAfter, AfterApply
  <2> QED
    BY <1>1, <2>1, ElementsPids DEF EachProcessOnce, RunningPids, ReadyPids, WaitingPids, PidsOf
<1>6. Contract!Existing = LivePids
  BY <1>3, AfterApply
<1>7. Live' = ReadyOf(ready_processes) \cup Elements(waiting) /\ ReadyInWaiting' = {}
  BY <1>2, <1>3, WakeupKeepsAll DEF Live, ReadyInWaiting
<1> HIDE DEF waiting, time
<1>8. LivePids \ {p.pid} = {r.pid : r \in Live'}
  BY <1>4, <1>5, <1>7
<1>9. \A r \in Live' : Contract!After(time)[r.pid] = r.wakeup
  BY <1>4, <1>7
<1>10. WakeupConditions' = [pid \in LivePids \ {p.pid} |-> Contract!After(time)[pid]]
  <2> DEFINE Left == [pid \in LivePids \ {p.pid} |-> Contract!After(time)[pid]]
  <2>1. \A r \in Live' : Left[r.pid] = r.wakeup
    BY <1>8, <1>9
  <2> QED
    BY <1>8, <2>1, Maps
<1> QED
  BY <1>2, <1>3, <1>6, <1>7, <1>10, ContractTerms DEF Contract!Exit, Contract!Stopped, time

-----------------------------------------------------------------------------
(* next(). *)

\* Who there is when next() decides, the sleep it asked for having passed.
Present == running_process \cup ReadyOf(ReadyOnNext) \cup Elements(WaitingOnNext)

\* The time the contract lets pass is the sleep_time the scheduler kept.
LEMMA SleptIs ==
  ASSUME Coherent, NextIsDue
  PROVE  Contract!Slept = sleep_time /\ sleep_time \in Nat
BY DEF Coherent, NextIsDue, DecisionMatchesState, Contract!Slept, SleepFor

\* The contract's view of the processes when next() decides.
LEMMA PassedIs ==
  ASSUME Coherent, EachProcessOnce, NextIsDue
  PROVE  /\ Contract!Existing = LivePids
         /\ Contract!Passed = [pid \in LivePids |-> Contract!Passed[pid]]
         /\ LivePids = {r.pid : r \in Present}
         /\ \A r \in Present : Contract!Passed[r.pid] = r.wakeup
         /\ Contract!StillOverlooked = Pids(Woken(WaitingOnNext))
<1>1. Contract!Existing = LivePids
  BY DEF Contract!Existing, WakeupConditions, LivePids
<1>2. CASE sleep_time = 0
  <2>1. /\ Contract!Passed = WakeupConditions
        /\ Contract!StillOverlooked = ReadyInWaiting
    BY <1>2, SleptIs DEF Contract!Passed, Contract!StillOverlooked
  <2>2. Present = Live /\ WaitingOnNext = waiting_processes
    BY <1>2 DEF Present, Live, ReadyOnNext, WaitingOnNext
  <2> QED
    BY <1>1, <2>1, <2>2, Conditions, ConditionsApply DEF ReadyInWaiting
<1>3. CASE sleep_time # 0
  <2> DEFINE waiting == WaitingAfter(sleep_time)
  <2>1. sleep_time \in Nat /\ Contract!Slept = sleep_time
    BY SleptIs
  <2>2. /\ Contract!Passed = Contract!After(sleep_time)
        /\ Contract!StillOverlooked = {}
    BY <1>3, <2>1 DEF Contract!Passed, Contract!StillOverlooked
  <2>3. waiting \in Seq(WaitingPcbs) /\ ready_processes \in ReadyQueues
    BY <2>1, ElapsedWaiting DEF Coherent, WaitingAfter
  <2>4. /\ Elements(waiting) = {Elapse(r, sleep_time) : r \in Elements(waiting_processes)}
        /\ \A r \in Elements(waiting_processes) : Elapse(r, sleep_time).pid = r.pid
    BY <2>1, AfterApply, ElapsedElements DEF WaitingAfter
  <2>5. \A r \in Elements(waiting) : Contract!After(sleep_time)[r.pid] = r.wakeup
    BY <2>1, AfterWaiting
  <2> HIDE DEF waiting
  <2>6. {r.pid : r \in Elements(waiting)} = {r.pid : r \in Elements(waiting_processes)}
    BY <2>4
  <2>7. /\ ReadyOnNext = PushWoken(ready_processes, waiting)
        /\ WaitingOnNext = StillWaiting(waiting)
    BY <1>3 DEF ReadyOnNext, WaitingOnNext, waiting
  <2>8. /\ Present = running_process \cup ReadyOf(ready_processes) \cup Elements(waiting)
        /\ Pids(Woken(WaitingOnNext)) = {}
    BY <2>3, <2>7, WakeupKeepsAll DEF Present
  <2>9. LivePids = {r.pid : r \in Present}
    BY <2>6, <2>8, Conditions DEF Live
  <2>10. \A r \in Present : Contract!After(sleep_time)[r.pid] = r.wakeup
    BY <2>1, <2>5, <2>8, AfterApply, AwakeHaveNoWakeup
  <2> QED
    BY <1>1, <2>1, <2>2, <2>8, <2>9, <2>10, AfterApply
<1> QED
  BY <1>2, <1>3

\* Awake, for the contract, is who runs and who is in the ready processes.
LEMMA AwakeIs ==
  ASSUME Coherent, EachProcessOnce, NextIsDue
  PROVE  /\ Contract!Awake = RunningPids \cup QueuedPids(ReadyOnNext)
         /\ Contract!Sleepers =
              {r.pid : r \in {q \in Elements(WaitingOnNext) : q.wakeup.kind = "Sleep"}}
<1>1. /\ ReadyOnNext \in ReadyQueues
      /\ WaitingOnNext \in Seq(WaitingPcbs)
  BY NextStep
<1>2. \A r \in running_process \cup ReadyOf(ReadyOnNext) : r.wakeup = NoWakeup
  BY <1>1, QueueTypes DEF Coherent, RunningPcbs, ReadyPcbs, Parked
<1>3. /\ QueuedPids(ReadyOnNext) = {r.pid : r \in ReadyOf(ReadyOnNext)}
      /\ Pids(WaitingOnNext) = {r.pid : r \in Elements(WaitingOnNext)}
      /\ RunningPids = {r.pid : r \in running_process}
  BY ElementsPids DEF RunningPids, QueuedPids, PidsOf
<1>4. (RunningPids \cup QueuedPids(ReadyOnNext)) \cap Pids(WaitingOnNext) = {}
  BY NextOnce DEF Once
<1>5. Contract!StillOverlooked =
        {r.pid : r \in {q \in Elements(WaitingOnNext) : q.wakeup = NoWakeup}}
  BY <1>1, PassedIs, WokenIfNoWakeup
<1>6. Contract!Awake = {pid \in LivePids : Contract!Passed[pid] = NoWakeup}
                         \ Contract!StillOverlooked
  BY PassedIs, ContractTerms DEF Contract!Awake
<1>7. ASSUME NEW pid \in Contract!Awake PROVE pid \in RunningPids \cup QueuedPids(ReadyOnNext)
  <2>1. PICK r \in Present : r.pid = pid /\ r.wakeup = NoWakeup
    BY <1>6, PassedIs
  <2> QED
    BY <1>3, <1>5, <1>6, <2>1 DEF Present
<1>8. ASSUME NEW pid \in RunningPids \cup QueuedPids(ReadyOnNext) PROVE pid \in Contract!Awake
  <2>1. PICK r \in running_process \cup ReadyOf(ReadyOnNext) : r.pid = pid
    BY <1>3
  <2>2. r \in Present /\ r.wakeup = NoWakeup
    BY <1>2 DEF Present
  <2>3. pid \notin Contract!StillOverlooked
    BY <1>3, <1>4, <1>5
  <2> QED
    BY <1>6, <2>1, <2>2, <2>3, PassedIs
<1>9. Contract!Sleepers = {pid \in LivePids : Contract!Passed[pid].kind = "Sleep"}
  BY PassedIs DEF Contract!Sleepers
<1>10. \A r \in Present : r.wakeup.kind = "Sleep" => r \in Elements(WaitingOnNext)
  BY <1>2, Kinds DEF Present
<1>11. Contract!Sleepers =
         {r.pid : r \in {q \in Elements(WaitingOnNext) : q.wakeup.kind = "Sleep"}}
  BY <1>9, <1>10, PassedIs DEF Present
<1> QED
  BY <1>7, <1>8, <1>11

\* A decision that moves nobody but the sleepers whose time is up.
LEMMA DecidedMaps ==
  ASSUME Coherent, EachProcessOnce, Coherent', EachProcessOnce', NextIsDue,
         ready_processes' = ReadyOnNext,
         waiting_processes' = WaitingOnNext,
         UNCHANGED <<running_process, highest_pid>>
  PROVE  Contract!Decided(decision')
<1>1. Live' = Present /\ ReadyInWaiting' = Pids(Woken(WaitingOnNext))
  BY DEF Live, Present, ReadyInWaiting
<1>2. WakeupConditions' = Contract!Passed
  BY <1>1, PassedIs, Maps
<1> QED
  BY <1>1, <1>2, PassedIs DEF Contract!Decided, NextIsDue

\* There is nobody in the queues if and only if all are empty.
LEMMA NobodyReadyIs ==
  ASSUME Coherent
  PROVE  NobodyReady <=> ReadyOf(ReadyOnNext) = {}
<1>1. \A q \in Queues : ReadyOnNext[q] \in Seq(ReadyPcbs)
  BY NextStep, QueueTypes
<1>2. \A q \in Queues : ReadyOnNext[q] = << >> <=> Elements(ReadyOnNext[q]) = {}
  <2>1. \A q \in Queues : ReadyOnNext[q] # << >> => Elements(ReadyOnNext[q]) # {}
    BY <1>1, ElementsHeadTail
  <2> QED
    BY <2>1 DEF Elements
<1> QED
  BY <1>2 DEF NobodyReady, NonEmptyQueues, ReadyOf

LEMMA DoneMaps ==
  ASSUME Coherent, EachProcessOnce, Coherent', EachProcessOnce', DecideDone
  PROVE  Contract!DecideDone
<1>1. NextIsDue /\ IsDone /\ decision' = Outcome("Done")
  BY DEF DecideDone, Halt
<1>2. Contract!Decided(decision')
  BY DecidedMaps DEF DecideDone, Halt
<1>3. Present = {}
  BY <1>1, NobodyReadyIs DEF IsDone, Present, Elements
<1>4. Contract!Existing = {}
  BY <1>1, <1>3, PassedIs
<1> QED
  BY <1>1, <1>2, <1>4, ContractTerms DEF Contract!DecideDone

\* PID 1 exists for the scheduler if and only if it does for the contract.
LEMMA Pid1Is ==
  ASSUME Coherent, EachProcessOnce, NextIsDue
  PROVE  Pid1Exists <=> 1 \in Contract!Existing
BY PassedIs, ElementsPids DEF Pid1Exists, RunningPids, PidsOf, Present

LEMMA PanicMaps ==
  ASSUME Coherent, EachProcessOnce, Coherent', EachProcessOnce', DecidePanic
  PROVE  Contract!DecidePanic
<1>1. NextIsDue /\ ~ IsDone /\ ~ Pid1Exists /\ decision' = Outcome("Panic")
  BY DEF DecidePanic, Halt
<1>2. Contract!Decided(decision')
  BY DecidedMaps DEF DecidePanic, Halt
<1>3. Present # {}
  <2>1. WaitingOnNext \in Seq(WaitingPcbs)
    BY NextStep
  <2>2. WaitingOnNext # << >> => Elements(WaitingOnNext) # {}
    BY <2>1, ElementsHeadTail
  <2> QED
    BY <1>1, <2>2, NobodyReadyIs DEF IsDone, Present
<1>4. Contract!Existing # {} /\ 1 \notin Contract!Existing
  BY <1>1, <1>3, PassedIs, Pid1Is
<1> QED
  BY <1>1, <1>2, <1>4, ContractTerms DEF Contract!DecidePanic

LEMMA ContinueMaps ==
  ASSUME Coherent, EachProcessOnce, Coherent', EachProcessOnce', NeverAborts',
         DecideContinue
  PROVE  Contract!DecideRun
<1>1. PICK p \in running_process :
        decision' = NonZero(remaining_time, RunFor(p.pid, remaining_time))
  BY DEF DecideContinue
<1>2. NextIsDue /\ Contract!Decided(decision')
  BY DecidedMaps DEF DecideContinue
<1>3. remaining_time # 0
  BY <1>1 DEF NonZero, NeverAborts, Outcome
<1>4. remaining_time \in 1..Timeslice
  BY <1>3, RoundRobinPrioritiesAssumption DEF Coherent
<1>5. decision' = Contract!RunFor(p.pid, remaining_time)
  BY <1>1, <1>3, ContractTerms DEF NonZero
<1>6. p.pid \in Contract!Awake
  BY <1>1, <1>2, AwakeIs DEF RunningPids, PidsOf
<1>7. 1 \in Contract!Existing
  BY <1>2, Pid1Is DEF DecideContinue
<1> QED
  BY <1>2, <1>4, <1>5, <1>6, <1>7 DEF Contract!DecideRun

LEMMA DispatchMaps ==
  ASSUME Coherent, EachProcessOnce, Coherent', EachProcessOnce', DecideDispatch
  PROVE  Contract!DecideRun
<1>1. /\ NextIsDue /\ Pid1Exists /\ running_process = {}
      /\ waiting_processes' = WaitingOnNext /\ highest_pid' = highest_pid
  BY DEF DecideDispatch
<1>2. PICK p \in ReadyPcbs :
        /\ running_process' = {SetRunning(p)} /\ SetRunning(p) \in RunningPcbs
        /\ SetRunning(p).pid = p.pid /\ p.wakeup = NoWakeup
        /\ ReadyOf(ReadyOnNext) = {p} \cup ReadyOf(ready_processes')
        /\ decision' = RunFor(p.pid, Timeslice)
  BY DispatchStep
<1>3. SetRunning(p).wakeup = p.wakeup
  BY <1>2 DEF RunningPcbs
<1>4. /\ Live' = {SetRunning(p)} \cup ReadyOf(ready_processes') \cup Elements(WaitingOnNext)
      /\ Present = {p} \cup ReadyOf(ready_processes') \cup Elements(WaitingOnNext)
      /\ ReadyInWaiting' = Pids(Woken(WaitingOnNext))
  BY <1>1, <1>2 DEF Live, Present, ReadyInWaiting
<1>5. /\ \A r \in Live' : Contract!Passed[r.pid] = r.wakeup
      /\ LivePids = {r.pid : r \in Live'}
  BY <1>1, <1>2, <1>3, <1>4, PassedIs
<1>6. WakeupConditions' = Contract!Passed
  BY <1>1, <1>5, PassedIs, Maps
<1>7. Contract!Decided(decision')
  BY <1>1, <1>4, <1>6, PassedIs DEF Contract!Decided, NextIsDue
<1>8. p.pid \in Contract!Awake
  BY <1>1, <1>2, AwakeIs DEF QueuedPids, PidsOf
<1>9. 1 \in Contract!Existing
  BY <1>1, Pid1Is
<1>10. Timeslice \in 1..Timeslice
  BY RoundRobinPrioritiesAssumption
<1> QED
  BY <1>2, <1>7, <1>8, <1>9, <1>10, ContractTerms DEF Contract!DecideRun

\* With nobody to run, the contract has nobody awake; what is left may sleep.
LEMMA NobodyAwake ==
  ASSUME Coherent, EachProcessOnce, NobodyToRun
  PROVE  /\ NextIsDue
         /\ 1 \in Contract!Existing
         /\ Contract!Awake = {}
<1>1. NextIsDue /\ Pid1Exists /\ running_process = {} /\ ReadyOf(ReadyOnNext) = {}
  BY NobodyReadyIs DEF NobodyToRun
<1>2. RunningPids = {} /\ QueuedPids(ReadyOnNext) = {}
  BY <1>1 DEF RunningPids, QueuedPids, PidsOf
<1> QED
  BY <1>1, <1>2, AwakeIs, Pid1Is

\* The times of the sleepers, in the list and in the contract.
LEMMA SleepersTimes ==
  ASSUME Coherent, EachProcessOnce, NextIsDue
  PROVE  /\ SleepingTimes(WaitingOnNext) \subseteq Nat
         /\ SleepingTimes(WaitingOnNext) =
              {Contract!Passed[pid].arg : pid \in Contract!Sleepers}
<1> DEFINE Asleeps == {q \in Elements(WaitingOnNext) : q.wakeup.kind = "Sleep"}
<1>1. WaitingOnNext \in Seq(WaitingPcbs)
  BY NextStep
<1>2. SleepingTimes(WaitingOnNext) = {q.wakeup.arg : q \in Asleeps}
  BY DEF SleepingTimes, Elements
<1>3. \A q \in Asleeps : q \in Ranked
  BY <1>1, ElementsType DEF WaitingPcbs
<1>4. SleepingTimes(WaitingOnNext) \subseteq Nat
  BY <1>2, <1>3 DEF Ranked, PriorityPcb, WakeupCondition
<1>5. Contract!Sleepers = {q.pid : q \in Asleeps}
  BY AwakeIs
<1>6. \A q \in Asleeps : Contract!Passed[q.pid] = q.wakeup
  BY PassedIs DEF Present
<1> HIDE DEF Asleeps
<1>7. {Contract!Passed[pid].arg : pid \in Contract!Sleepers} = {q.wakeup.arg : q \in Asleeps}
  BY <1>5, <1>6
<1> QED
  BY <1>2, <1>4, <1>7

LEMMA SleepDecisionMaps ==
  ASSUME Coherent, EachProcessOnce, Coherent', EachProcessOnce', NeverAborts',
         DecideSleep
  PROVE  Contract!DecideSleep
<1>1. PICK time \in FindSleepTime(WaitingOnNext) : PlanSleep(time)
  BY DEF DecideSleep
<1>2. /\ NextIsDue /\ 1 \in Contract!Existing /\ Contract!Awake = {}
  BY NobodyAwake DEF DecideSleep
<1>3. Contract!Decided(decision')
  BY <1>2, DecidedMaps DEF DecideSleep
<1>4. time # 0 /\ decision' = SleepFor(time)
  BY <1>1 DEF PlanSleep, NonZero, NeverAborts, Outcome
<1>5. /\ time \in SleepingTimes(WaitingOnNext)
      /\ \A other \in SleepingTimes(WaitingOnNext) : time <= other
  BY <1>1 DEF FindSleepTime
<1>6. PICK pid \in Contract!Sleepers : Contract!Passed[pid].arg = time
  BY <1>2, <1>5, SleepersTimes
<1>7. \A other \in Contract!Sleepers : Contract!Passed[pid].arg <= Contract!Passed[other].arg
  BY <1>2, <1>5, <1>6, SleepersTimes
<1> QED
  BY <1>2, <1>3, <1>4, <1>6, <1>7, ContractTerms DEF Contract!DecideSleep

LEMMA DeadlockMaps ==
  ASSUME Coherent, EachProcessOnce, Coherent', EachProcessOnce', DecideDeadlock
  PROVE  Contract!DecideDeadlock
<1>1. /\ NextIsDue /\ 1 \in Contract!Existing /\ Contract!Awake = {}
  BY NobodyAwake DEF DecideDeadlock
<1>2. Contract!Decided(decision') /\ decision' = Outcome("Deadlock")
  BY <1>1, DecidedMaps DEF DecideDeadlock, Halt
<1>3. SleepingTimes(WaitingOnNext) = {}
  <2>1. FindSleepTime(WaitingOnNext) = {}
    BY DEF DecideDeadlock
  <2>2. SleepingTimes(WaitingOnNext) \subseteq Nat
    BY <1>1, SleepersTimes
  <2> QED
    BY <2>1, <2>2, LeastElement DEF FindSleepTime
<1>4. Contract!Sleepers = {}
  BY <1>1, <1>3, SleepersTimes
<1> QED
  BY <1>1, <1>2, <1>4, ContractTerms DEF Contract!DecideDeadlock

-----------------------------------------------------------------------------
(* The refinement. *)

LEMMA InitMaps == Init => Contract!Init
<1> SUFFICES ASSUME Init PROVE Contract!Init
  OBVIOUS
<1>1. Coherent
  BY InitCoherent
<1>2. Live = {}
  BY DEF Init, Live, ReadyOf, Elements
<1>3. WakeupConditions = [pid \in {} |-> NoWakeup]
  BY <1>2 DEF WakeupConditions, PidsOf
<1>4. ReadyInWaiting = {}
  BY <1>1, <1>2, WokenIfNoWakeup DEF ReadyInWaiting, Live, Coherent
<1> QED
  BY <1>3, <1>4, ContractTerms DEF Init, Contract!Init

\* A Fork with a priority that has no queue ends the program.
LEMMA StopMaps ==
  ASSUME Coherent, EachProcessOnce, Coherent', EachProcessOnce', NeverAborts', Stop
  PROVE  Contract!Stop
<1>1. CASE Start
  BY <1>1, StartMaps DEF Contract!Stop
<1>2. CASE Expired
  BY <1>2, ExpiredMaps DEF Contract!Stop
<1>3. ASSUME NEW priority, ForkWithoutQueue(priority) PROVE FALSE
  BY <1>3 DEF ForkWithoutQueue, NeverAborts, Outcome
<1>4. ASSUME decision.kind = "Run", NEW remaining \in Remaining
      PROVE  remaining \in Contract!Remaining
  BY <1>4, StopFrom DEF Coherent, DecisionMatchesState
<1>5. ASSUME NEW remaining \in Remaining, NEW priority, Fork(priority, remaining)
      PROVE  Contract!Stop
  BY <1>4, <1>5, ForkMaps DEF Contract!Stop, Fork
<1>6. ASSUME NEW remaining \in Remaining, Exit(remaining)
      PROVE  Contract!Stop
  BY <1>4, <1>6, ExitMaps DEF Contract!Stop, Exit
<1>7. ASSUME NEW remaining \in Remaining, NEW event \in Events, Signal(event, remaining)
      PROVE  Contract!Stop
  BY <1>4, <1>7, SignalMaps DEF Contract!Stop, Signal
<1>8. ASSUME NEW remaining \in Remaining, NEW event \in Events, Wait(event, remaining)
      PROVE  Contract!Stop
  BY <1>4, <1>8, WaitMaps DEF Contract!Stop, Wait
<1>9. ASSUME NEW remaining \in Remaining, NEW time \in SleepTimes, Sleep(time, remaining)
      PROVE  Contract!Stop
  BY <1>4, <1>9, SleepMaps DEF Contract!Stop, Sleep
<1> QED
  BY <1>1, <1>2, <1>3, <1>5, <1>6, <1>7, <1>8, <1>9 DEF Stop, SystemCall

LEMMA NextDecisionMaps ==
  ASSUME Coherent, EachProcessOnce, Coherent', EachProcessOnce', NeverAborts',
         NextDecision
  PROVE  Contract!NextDecision
BY DoneMaps, PanicMaps, ContinueMaps, DispatchMaps, SleepDecisionMaps, DeadlockMaps
   DEF NextDecision, Contract!NextDecision

\* A step that changes nothing changes nothing that the contract sees.
LEMMA StutterMaps ==
  ASSUME UNCHANGED vars
  PROVE  UNCHANGED Contract!vars
BY DEF vars, Contract!vars, WakeupConditions, WakeupOf, Live, PidsOf,
       ReadyInWaiting

(***************************************************************************)
(* Up to an exit(-1), for every timeslice and any events, sleep times and  *)
(* priorities, every call is a step of the contract: nobody is lost or     *)
(* made up, a signal wakes all that wait for its event, a sleep ends       *)
(* neither early nor late (but for those Sleep and Wait overlook), and     *)
(* each decision is the one the processes warrant.                         *)
(***************************************************************************)
THEOREM ImplementsUntilAbort == Spec /\ []NeverAborts => ImplementsScheduler
<1>1. Init => Contract!Init
  BY InitMaps
<1>2. /\ Coherent /\ EachProcessOnce /\ NeverAborts
      /\ (Coherent /\ EachProcessOnce /\ NeverAborts)'
      /\ [Next]_vars
      => [Contract!Next]_Contract!vars
  <2> SUFFICES ASSUME Coherent, EachProcessOnce, Coherent', EachProcessOnce',
                      NeverAborts', [Next]_vars
               PROVE  Contract!Next \/ UNCHANGED Contract!vars
    OBVIOUS
  <2>1. CASE Stop
    BY <2>1, StopMaps DEF Contract!Next
  <2>2. CASE NextDecision
    BY <2>2, NextDecisionMaps DEF Contract!Next
  <2>3. CASE Halted \/ UNCHANGED vars
    BY <2>3, StutterMaps DEF Halted
  <2> QED
    BY <2>1, <2>2, <2>3 DEF Next
<1> QED
  BY <1>1, <1>2, Coherence, ProcessOnce, PTL DEF Spec, ImplementsScheduler, Contract!Spec

(***************************************************************************)
(* And there is no exit(-1) if the minimum remaining timeslice is not 0,   *)
(* nobody sleeps for 0 and every priority has a queue: then the priority   *)
(* queues implement Scheduler.                                             *)
(***************************************************************************)
THEOREM Refinement ==
  ASSUME PositiveTimes, QueueForEach
  PROVE  Spec => ImplementsScheduler
BY ImplementsUntilAbort, NoAbort, PTL

-----------------------------------------------------------------------------
(* Who loses priority. *)

\* Everyone of F that is in E too has in F at least the priority it has in E.
NobodyLoses(E, F) == \A p \in E, q \in F : p.pid = q.pid => p.priority <= q.priority

\* What the calls do to a PCB keeps its priority, or raises it.
LEMMA PrioritiesKept ==
  ASSUME NEW p \in Ranked
  PROVE  /\ p.priority \in Nat
         /\ SetReady(p).priority = p.priority /\ SetRunning(p).priority = p.priority
         /\ \A time : /\ Elapse(p, time).priority = p.priority
                      /\ PutToSleep(p, time).priority = p.priority
         /\ \A event : /\ Notify(p, event).priority = p.priority
                       /\ AwaitEvent(p, event).priority = p.priority
         /\ IncrementPriority(p).priority >= p.priority
<1>1. /\ p.priority \in Queues /\ Queues \subseteq Nat
      /\ p = [pid |-> p.pid, state |-> p.state, wakeup |-> p.wakeup,
              fork_priority |-> p.fork_priority, priority |-> p.priority]
  BY DEF Ranked, PriorityPcb, Queues
<1>2. SetReady(p).priority = p.priority /\ SetRunning(p).priority = p.priority
  BY <1>1 DEF SetReady, SetRunning
<1>3. ASSUME NEW time
      PROVE  /\ Elapse(p, time).priority = p.priority
             /\ PutToSleep(p, time).priority = p.priority
  BY <1>1, <1>2 DEF Elapse, PutToSleep
<1>4. ASSUME NEW event
      PROVE  /\ Notify(p, event).priority = p.priority
             /\ AwaitEvent(p, event).priority = p.priority
  BY <1>1, <1>2 DEF Notify, AwaitEvent
<1>5. IncrementPriority(p).priority >= p.priority
  BY <1>1 DEF IncrementPriority
<1> QED
  BY <1>1, <1>2, <1>3, <1>4, <1>5

\* Everyone is a process of the priorities it may have.
LEMMA LiveRanked ==
  ASSUME Coherent
  PROVE  Live \subseteq Ranked
BY AwakeHaveNoWakeup DEF Live, WaitingPcbs

\* One PCB of each process decides.
LEMMA Raised ==
  ASSUME NEW E, NEW F, Distinct(E),
         \A q \in F : \/ \A p \in E : p.pid # q.pid
                      \/ \E p \in E : p.pid = q.pid /\ p.priority <= q.priority
  PROVE  NobodyLoses(E, F)
BY DEF Distinct, NobodyLoses

\* Time and a signal leave everyone in the waiting list with its priority.
LEMMA WaitingKeep ==
  ASSUME Coherent, NEW time \in Nat
  PROVE  /\ \A q \in Elements(WaitingAfter(time)) :
              \E p \in Live : p.pid = q.pid /\ p.priority = q.priority
         /\ \A event : \A q \in Elements(Notified(WaitingAfter(time), event)) :
              \E p \in Live : p.pid = q.pid /\ p.priority = q.priority
<1> DEFINE before == WaitingAfter(time)
<1>1. Elements(before) = {Elapse(p, time) : p \in Elements(waiting_processes)}
  BY ElapsedElements DEF WaitingAfter
<1>2. \A event : Elements(Notified(before, event)) = {Notify(q, event) : q \in Elements(before)}
  BY NotifiedElements
<1>3. ASSUME NEW p \in Elements(waiting_processes)
      PROVE  /\ p \in Live
             /\ Elapse(p, time) \in WaitingPcbs
             /\ Elapse(p, time).pid = p.pid /\ Elapse(p, time).priority = p.priority
  BY AwakeHaveNoWakeup, LiveRanked, PrioritiesKept, ElapseWaiting DEF Live
<1>4. ASSUME NEW q \in WaitingPcbs, NEW event
      PROVE  Notify(q, event).pid = q.pid /\ Notify(q, event).priority = q.priority
  BY NotifyWaiting, PrioritiesKept DEF WaitingPcbs
<1> HIDE DEF before
<1>5. \A q \in Elements(before) :
        /\ q \in WaitingPcbs
        /\ \E p \in Live : p.pid = q.pid /\ p.priority = q.priority
  BY <1>1, <1>3
<1>6. \A event : \A q \in Elements(Notified(before, event)) :
        \E p \in Live : p.pid = q.pid /\ p.priority = q.priority
  BY <1>2, <1>4, <1>5
<1> QED
  BY <1>5, <1>6 DEF before

\* A call from which the caller, in the lists or not, comes out with at least its priority.
LEMMA CallKeeps ==
  ASSUME Coherent, EachProcessOnce, NEW p \in running_process,
         NEW c \in Ranked, c.pid = p.pid, c.wakeup = NoWakeup, p.priority <= c.priority,
         NEW queues \in ReadyQueues, NEW waiting \in Seq(WaitingPcbs), NEW remaining,
         \/ Yield(c, PushWoken(queues, waiting))
         \/ Continue(c, PushWoken(queues, waiting), remaining),
         waiting_processes' = StillWaiting(waiting),
         \A q \in ReadyOf(queues) : q \in Live \/ \A r \in Live : r.pid # q.pid,
         \A q \in Elements(waiting) : \E r \in Live : r.pid = q.pid /\ r.priority = q.priority
  PROVE  NobodyLoses(Live, Live')
<1>1. PICK d : /\ d.pid = c.pid /\ d.wakeup = NoWakeup /\ d.priority = c.priority
               /\ Live' = {d} \cup ReadyOf(queues) \cup Elements(waiting)
  BY LiveAfterCall
<1>2. p \in Live
  BY DEF Live
<1>3. \A r \in Live : r.priority <= r.priority
  BY LiveRanked, PrioritiesKept
<1>4. ASSUME NEW q \in Live'
      PROVE  \/ \A r \in Live : r.pid # q.pid
             \/ \E r \in Live : r.pid = q.pid /\ r.priority <= q.priority
  <2>1. CASE q = d
    BY <1>1, <1>2, <2>1
  <2>2. CASE q \in ReadyOf(queues)
    BY <1>3, <2>2
  <2>3. CASE q \in Elements(waiting)
    <3>1. PICK r \in Live : r.pid = q.pid /\ r.priority = q.priority
      BY <2>3
    <3> QED
      BY <1>3, <3>1
  <2> QED
    BY <1>1, <2>1, <2>2, <2>3
<1>5. \A q \in Live' : \/ \A r \in Live : r.pid # q.pid
                       \/ \E r \in Live : r.pid = q.pid /\ r.priority <= q.priority
  BY <1>4
<1> QED
  BY <1>5, LiveDistinct, Raised

LEMMA ForkKeeps ==
  ASSUME Coherent, EachProcessOnce, NEW priority, NEW remaining \in Remaining,
         Fork(priority, remaining)
  PROVE  NobodyLoses(Live, Live')
<1> DEFINE waiting == WaitingAfter(remaining_time - remaining)
           child == NewPriorityPcb(highest_pid + 1, priority)
           queues == Push(ready_processes, child)
<1>1. PICK p \in running_process :
         /\ \/ Continue(IncrementPriority(p), PushWoken(queues, waiting), remaining)
            \/ Yield(IncrementPriority(p), PushWoken(queues, waiting))
         /\ waiting_processes' = StillWaiting(waiting)
  BY DEF Fork
<1>2. decision.kind = "Run" /\ priority \in Queues
  BY DEF Fork
<1>3. /\ remaining_time - remaining \in Nat
      /\ p \in Ranked /\ p.wakeup = NoWakeup
      /\ waiting \in Seq(WaitingPcbs) /\ ready_processes \in ReadyQueues
  BY <1>2, RunningStep, RemainingStep DEF Coherent
<1>4. highest_pid + 1 \in Pid /\ \A r \in Live : r.pid # highest_pid + 1
  <2>1. highest_pid \in Nat
    BY RoundRobinPrioritiesAssumption DEF Coherent
  <2>2. \A r \in Live : r.pid \in 1..highest_pid
    BY DEF EachProcessOnce, PidsOf
  <2> QED
    BY <2>1, <2>2 DEF Pid
<1>5. child \in ReadyPcbs /\ child.pid = highest_pid + 1
  BY <1>2, <1>4, NewPcbReady DEF NewPriorityPcb
<1>6. queues \in ReadyQueues /\ ReadyOf(queues) = ReadyOf(ready_processes) \cup {child}
  BY <1>3, <1>5, PushReady
<1>7. \A q \in Elements(waiting) : \E r \in Live : r.pid = q.pid /\ r.priority = q.priority
  BY <1>3, WaitingKeep
<1> DEFINE promoted == IncrementPriority(p)
<1>8. /\ promoted \in Ranked /\ promoted.pid = p.pid /\ promoted.wakeup = NoWakeup
      /\ p.priority <= promoted.priority
  BY <1>3, PriorityOperations, PrioritiesKept
<1>9. /\ \/ Continue(promoted, PushWoken(queues, waiting), remaining)
         \/ Yield(promoted, PushWoken(queues, waiting))
      /\ waiting_processes' = StillWaiting(waiting)
  BY <1>1
<1> HIDE DEF waiting, queues, child, promoted
<1>10. \A q \in ReadyOf(queues) : q \in Live \/ \A r \in Live : r.pid # q.pid
  BY <1>4, <1>5, <1>6 DEF Live
<1> QED
  BY <1>3, <1>6, <1>7, <1>8, <1>9, <1>10, CallKeeps

LEMMA SignalKeeps ==
  ASSUME Coherent, EachProcessOnce, NEW event, NEW remaining \in Remaining,
         Signal(event, remaining)
  PROVE  NobodyLoses(Live, Live')
<1> DEFINE before == WaitingAfter(remaining_time - remaining)
           waiting == Notified(before, event)
<1>1. PICK p \in running_process :
         /\ \/ Continue(p, PushWoken(ready_processes, waiting), remaining)
            \/ Yield(IncrementPriority(p), PushWoken(ready_processes, waiting))
         /\ waiting_processes' = StillWaiting(waiting)
  BY DEF Signal
<1>2. decision.kind = "Run"
  BY DEF Signal
<1>3. /\ remaining_time - remaining \in Nat
      /\ p \in Ranked /\ p.wakeup = NoWakeup
      /\ before \in Seq(WaitingPcbs) /\ ready_processes \in ReadyQueues
  BY <1>2, RunningStep, RemainingStep DEF Coherent
<1>4. waiting \in Seq(WaitingPcbs)
  BY <1>3, NotifiedWaiting
<1>5. \A q \in Elements(waiting) : \E r \in Live : r.pid = q.pid /\ r.priority = q.priority
  BY <1>3, WaitingKeep
<1> HIDE DEF waiting
<1>6. PICK c \in {p, IncrementPriority(p)} :
         \/ Continue(c, PushWoken(ready_processes, waiting), remaining)
         \/ Yield(c, PushWoken(ready_processes, waiting))
  BY <1>1
<1>7. /\ c \in Ranked /\ c.pid = p.pid /\ c.wakeup = NoWakeup
      /\ p.priority <= c.priority
  BY <1>3, PriorityOperations, PrioritiesKept
<1>8. \A q \in ReadyOf(ready_processes) : q \in Live
  BY DEF Live
<1> QED
  BY <1>1, <1>3, <1>4, <1>5, <1>6, <1>7, <1>8, CallKeeps

LEMMA BlockKeeps ==
  ASSUME Coherent, EachProcessOnce, decision.kind = "Run",
         NEW remaining \in Remaining, NEW p \in running_process,
         NEW asleep \in WaitingPcbs, asleep.pid = p.pid, asleep.priority = p.priority,
         Block(asleep, remaining)
  PROVE  NobodyLoses(Live, Live')
<1> DEFINE waiting == WaitingAfter(remaining_time - remaining)
           last == IncrementPriority(asleep)
<1>1. /\ running_process' = {} /\ ready_processes' = ready_processes
      /\ waiting_processes' = Append(waiting, last)
  BY DEF Block
<1>2. remaining_time - remaining \in Nat /\ waiting \in Seq(WaitingPcbs)
  BY RunningStep, RemainingStep DEF Coherent
<1>3. /\ last \in WaitingPcbs /\ last.pid = p.pid /\ p.priority <= last.priority
  BY PriorityOperations, PrioritiesKept DEF WaitingPcbs
<1>4. \A q \in Elements(waiting) : \E r \in Live : r.pid = q.pid /\ r.priority = q.priority
  BY <1>2, WaitingKeep
<1> HIDE DEF waiting, last
<1>5. Live' = ReadyOf(ready_processes) \cup Elements(waiting) \cup {last}
  BY <1>1, <1>2, <1>3, ElementsAppend DEF Live
<1>6. \A r \in Live : r.priority <= r.priority
  BY LiveRanked, PrioritiesKept
<1>7. ASSUME NEW q \in Live'
      PROVE  \E r \in Live : r.pid = q.pid /\ r.priority <= q.priority
  <2>1. CASE q = last
    BY <1>3, <2>1 DEF Live
  <2>2. CASE q \in ReadyOf(ready_processes)
    BY <1>6, <2>2 DEF Live
  <2>3. CASE q \in Elements(waiting)
    <3>1. PICK r \in Live : r.pid = q.pid /\ r.priority = q.priority
      BY <1>4, <2>3
    <3> QED
      BY <1>6, <3>1
  <2> QED
    BY <1>5, <2>1, <2>2, <2>3
<1> QED
  BY <1>7, LiveDistinct, Raised

LEMMA ExitKeeps ==
  ASSUME Coherent, EachProcessOnce, NEW remaining \in Remaining, Exit(remaining)
  PROVE  NobodyLoses(Live, Live')
<1> DEFINE waiting == WaitingAfter(remaining_time - remaining)
<1>1. /\ decision.kind = "Run" /\ running_process' = {}
      /\ ready_processes' = PushWoken(ready_processes, waiting)
      /\ waiting_processes' = StillWaiting(waiting)
  BY DEF Exit
<1>2. PICK p \in running_process : TRUE
  BY <1>1 DEF Coherent, DecisionMatchesState
<1>3. /\ remaining_time - remaining \in Nat
      /\ waiting \in Seq(WaitingPcbs) /\ ready_processes \in ReadyQueues
  BY <1>1, <1>2, RunningStep, RemainingStep DEF Coherent
<1>4. \A q \in Elements(waiting) : \E r \in Live : r.pid = q.pid /\ r.priority = q.priority
  BY <1>3, WaitingKeep
<1> HIDE DEF waiting
<1>5. Live' = ReadyOf(ready_processes) \cup Elements(waiting)
  BY <1>1, <1>3, WakeupKeepsAll DEF Live
<1>6. \A r \in Live : r.priority <= r.priority
  BY LiveRanked, PrioritiesKept
<1>7. \A q \in Live' : \E r \in Live : r.pid = q.pid /\ r.priority <= q.priority
  <2>1. \A q \in ReadyOf(ready_processes) : q \in Live
    BY DEF Live
  <2> QED
    BY <1>4, <1>5, <1>6, <2>1
<1> QED
  BY <1>7, LiveDistinct, Raised

\* The queues and the waiting list when next() decides have everyone's priority.
LEMMA PresentKeeps ==
  ASSUME Coherent, NextIsDue
  PROVE  \A q \in Present : \E r \in Live : r.pid = q.pid /\ r.priority = q.priority
<1>1. CASE sleep_time = 0
  BY <1>1 DEF Present, Live, ReadyOnNext, WaitingOnNext
<1>2. CASE sleep_time # 0
  <2> DEFINE waiting == WaitingAfter(sleep_time)
  <2>1. /\ sleep_time \in Nat /\ ready_processes \in ReadyQueues
        /\ waiting \in Seq(WaitingPcbs)
    BY ElapsedWaiting DEF Coherent, WaitingAfter
  <2>2. \A q \in Elements(waiting) : \E r \in Live : r.pid = q.pid /\ r.priority = q.priority
    BY <2>1, WaitingKeep
  <2>3. /\ ReadyOnNext = PushWoken(ready_processes, waiting)
        /\ WaitingOnNext = StillWaiting(waiting)
    BY <1>2 DEF ReadyOnNext, WaitingOnNext
  <2> HIDE DEF waiting
  <2>4. Present = running_process \cup ReadyOf(ready_processes) \cup Elements(waiting)
    BY <2>1, <2>3, WakeupKeepsAll DEF Present
  <2>5. running_process \cup ReadyOf(ready_processes) \subseteq Live
    BY DEF Live
  <2> QED
    BY <2>2, <2>4, <2>5
<1> QED
  BY <1>1, <1>2

LEMMA DecisionKeeps ==
  ASSUME Coherent, EachProcessOnce, NextDecision
  PROVE  NobodyLoses(Live, Live')
<1>1. NextIsDue
  BY DEF NextDecision, DecideDone, DecidePanic, DecideContinue, DecideDispatch,
         DecideSleep, DecideDeadlock, NobodyToRun
<1>2. \A q \in Live' : \E r \in Present : r.pid = q.pid /\ r.priority = q.priority
  <2>1. CASE DecideDispatch
    <3>1. PICK p \in ReadyPcbs :
            /\ running_process' = {SetRunning(p)} /\ SetRunning(p).pid = p.pid
            /\ ReadyOf(ReadyOnNext) = {p} \cup ReadyOf(ready_processes')
      BY <2>1, DispatchStep
    <3>2. SetRunning(p).priority = p.priority
      BY PrioritiesKept DEF ReadyPcbs
    <3>3. waiting_processes' = WaitingOnNext
      BY <2>1 DEF DecideDispatch
    <3>4. Live' = {SetRunning(p)} \cup ReadyOf(ready_processes') \cup Elements(WaitingOnNext)
      BY <3>1, <3>3 DEF Live
    <3> QED
      BY <3>1, <3>2, <3>4 DEF Present
  <2>2. CASE ~ DecideDispatch
    <3>1. /\ ready_processes' = ReadyOnNext /\ waiting_processes' = WaitingOnNext
          /\ running_process' = running_process
      BY <2>2 DEF NextDecision, DecideDone, DecidePanic, DecideContinue,
                  DecideSleep, DecideDeadlock, Halt
    <3> QED
      BY <3>1 DEF Live, Present
  <2> QED
    BY <2>1, <2>2
<1>3. \A r \in Live : r.priority <= r.priority
  BY LiveRanked, PrioritiesKept
<1>4. ASSUME NEW q \in Live'
      PROVE  \E r \in Live : r.pid = q.pid /\ r.priority <= q.priority
  <2>1. PICK d \in Present : d.pid = q.pid /\ d.priority = q.priority
    BY <1>2
  <2>2. PICK r \in Live : r.pid = d.pid /\ r.priority = d.priority
    BY <1>1, PresentKeeps
  <2> QED
    BY <1>3, <2>1, <2>2
<1> QED
  BY <1>4, LiveDistinct, Raised

\* The process that has used up its time may lose priority, and no other.
LEMMA ExpiredDemotesOne ==
  ASSUME Coherent, EachProcessOnce, Expired
  PROVE  Demoted \subseteq running_process
<1> DEFINE waiting == WaitingAfter(remaining_time)
<1>1. PICK p \in running_process :
         /\ Yield(DecrementPriority(p), PushWoken(ready_processes, waiting))
         /\ waiting_processes' = StillWaiting(waiting)
  BY DEF Expired
<1>2. decision.kind = "Run"
  BY DEF Expired
<1>3. /\ remaining_time \in Nat
      /\ p \in Ranked /\ p.wakeup = NoWakeup
      /\ waiting \in Seq(WaitingPcbs) /\ ready_processes \in ReadyQueues
  BY <1>2, RunningStep, StopFrom DEF Coherent
<1> DEFINE demoted == DecrementPriority(p)
<1>4. demoted \in Ranked /\ demoted.pid = p.pid /\ demoted.wakeup = NoWakeup
  BY <1>3, PriorityOperations
<1>5. \A q \in Elements(waiting) : \E r \in Live : r.pid = q.pid /\ r.priority = q.priority
  BY <1>3, WaitingKeep
<1> HIDE DEF waiting, demoted
<1>6. PICK d : /\ d.pid = demoted.pid /\ d.wakeup = NoWakeup /\ d.priority = demoted.priority
               /\ Live' = {d} \cup ReadyOf(ready_processes) \cup Elements(waiting)
  BY <1>1, <1>3, <1>4, LiveAfterCall DEF demoted
<1>7. p \in Live /\ ReadyOf(ready_processes) \subseteq Live
  BY DEF Live
<1>8. ASSUME NEW r \in Live, NEW q \in Live', q.pid = r.pid, r.pid # p.pid
      PROVE  q.priority = r.priority
  <2>1. PICK s \in Live : s.pid = q.pid /\ s.priority = q.priority
    BY <1>4, <1>5, <1>6, <1>7, <1>8
  <2>2. s = r
    BY <1>8, <2>1, LiveDistinct DEF Distinct
  <2> QED
    BY <2>1, <2>2
<1>9. ASSUME NEW r \in Demoted PROVE r \in running_process
  <2>1. PICK q \in Live' : r \in Live /\ q.pid = r.pid /\ q.priority < r.priority
    BY DEF Demoted
  <2>2. r.priority \in Nat
    BY <2>1, LiveRanked, PrioritiesKept
  <2>3. r.pid = p.pid
    BY <1>8, <2>1, <2>2
  <2>4. r = p
    BY <1>7, <2>1, <2>3, LiveDistinct DEF Distinct
  <2> QED
    BY <2>4
<1> QED
  BY <1>9

\* No other call, and no answer of next(), costs anybody priority.
LEMMA OthersKeep ==
  ASSUME Coherent, EachProcessOnce, Next, ~ Expired
  PROVE  NobodyLoses(Live, Live')
<1> DEFINE Keeps == NobodyLoses(Live, Live')
<1>1. ASSUME Live' = Live PROVE Keeps
  <2>1. \A r \in Live : r.priority <= r.priority
    BY LiveRanked, PrioritiesKept
  <2> QED
    BY <1>1, <2>1, LiveDistinct, Raised
<1>2. CASE Start
  BY <1>2 DEF Start, Coherent, Nothing, Live, ReadyOf, Elements, NobodyLoses
<1>3. ASSUME NEW priority, ForkWithoutQueue(priority) PROVE Keeps
  BY <1>1, <1>3 DEF ForkWithoutQueue, Live
<1>4. ASSUME NEW remaining \in Remaining, NEW time \in SleepTimes, Sleep(time, remaining)
      PROVE  Keeps
  <2>1. PICK p \in running_process : Block(PutToSleep(p, time), remaining)
    BY <1>4 DEF Sleep
  <2>2. decision.kind = "Run" /\ p \in Ranked /\ time \in Nat
    BY <1>4, <2>1, RunningStep, RoundRobinPrioritiesAssumption DEF Sleep
  <2>3. PutToSleep(p, time) \in WaitingPcbs /\ PutToSleep(p, time).pid = p.pid
    BY <2>2, PcbOperations
  <2>4. PutToSleep(p, time).priority = p.priority
    BY <2>2, PrioritiesKept
  <2> QED
    BY <2>1, <2>2, <2>3, <2>4, BlockKeeps
<1>5. ASSUME NEW remaining \in Remaining, NEW event \in Events, Wait(event, remaining)
      PROVE  Keeps
  <2>1. PICK p \in running_process : Block(AwaitEvent(p, event), remaining)
    BY <1>5 DEF Wait
  <2>2. decision.kind = "Run" /\ p \in Ranked
    BY <1>5, <2>1, RunningStep DEF Wait
  <2>3. AwaitEvent(p, event) \in WaitingPcbs /\ AwaitEvent(p, event).pid = p.pid
    BY <2>2, PcbOperations
  <2>4. AwaitEvent(p, event).priority = p.priority
    BY <2>2, PrioritiesKept
  <2> QED
    BY <2>1, <2>2, <2>3, <2>4, BlockKeeps
<1>6. CASE Stop
  BY <1>2, <1>3, <1>4, <1>5, <1>6, ForkKeeps, SignalKeeps, ExitKeeps DEF Stop, SystemCall
<1>7. CASE NextDecision
  BY <1>7, DecisionKeeps
<1>8. CASE Halted
  BY <1>1, <1>8 DEF Halted, vars, Live
<1> QED
  BY <1>6, <1>7, <1>8 DEF Next

(***************************************************************************)
(* increment_priority and decrement_priority: a process loses priority only*)
(* when its timeslice has expired, and then no other does.  A system call  *)
(* made in time costs nothing, neither when it is made nor when the process*)
(* that waited is woken up, many calls later.                              *)
(***************************************************************************)
THEOREM OnlyExpiry == Spec => OnlyExpiryDemotes
<1>1. Coherent /\ EachProcessOnce /\ Coherent' /\ [Next]_vars
        => [ /\ Demoted # {} => Expired
             /\ Expired => Demoted \subseteq running_process ]_vars
  <2> SUFFICES ASSUME Coherent, EachProcessOnce, Coherent', Next
               PROVE  /\ Demoted # {} => Expired
                      /\ Expired => Demoted \subseteq running_process
    OBVIOUS
  <2>1. ASSUME ~ Expired PROVE Demoted = {}
    <3>1. NobodyLoses(Live, Live')
      BY <2>1, OthersKeep
    <3>2. \A p \in Live : p.priority \in Nat
      BY LiveRanked, PrioritiesKept
    <3>3. \A q \in Live' : q.priority \in Nat
      <4>1. (Coherent => Live \subseteq Ranked)'
        BY LiveRanked, PTL
      <4> QED
        BY <4>1, PrioritiesKept DEF Ranked
    <3>4. ASSUME NEW p \in Live, NEW q \in Live', q.pid = p.pid
          PROVE  ~ (q.priority < p.priority)
      <4>1. p.priority <= q.priority
        BY <3>1, <3>4 DEF NobodyLoses
      <4> QED
        BY <3>2, <3>3, <4>1
    <3> QED
      BY <3>4 DEF Demoted
  <2> QED
    BY <2>1, ExpiredDemotesOne
<1> QED
  BY <1>1, Coherence, ProcessOnce, PTL DEF Spec, OnlyExpiryDemotes

=============================================================================
