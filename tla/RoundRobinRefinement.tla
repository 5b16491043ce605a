------------------------ MODULE RoundRobinRefinement ------------------------
(***************************************************************************)
(* The round robin scheduler implements the contract of Scheduler, for     *)
(* every timeslice, events, sleep times and number of processes: each      *)
(* stop() and each next() is a step of the contract on the wakeup          *)
(* conditions of the processes that exist.                                 *)
(*                                                                         *)
(* Only the set of all PCBs matters for that, not where each of them is.   *)
(* By Conditions the mapped `wakeup' gives every process the condition in  *)
(* its PCB; a proof about a call finds the set of PCBs after it, and that  *)
(* the contract gives each of them the condition it has there.             *)
(*                                                                         *)
(* The contract also says which processes there are after each call.  With *)
(* that, the end of this module proves the timings of RoundRobinTimings    *)
(* exact and complete.                                                     *)
(***************************************************************************)
EXTENDS RoundRobinProofs, RoundRobinTimings, FiniteSetTheorems

-----------------------------------------------------------------------------
(* The mapping. *)

\* The mapped variable has each process once, with the condition in its PCB.
LEMMA Conditions ==
  Coherent /\ EachProcessOnce =>
    /\ Distinct(Everyone)
    /\ LivePids = {p.pid : p \in Everyone}
    /\ WakeupConditions = Wakeups(Everyone)
<1> SUFFICES ASSUME Coherent, EachProcessOnce
             PROVE  /\ Distinct(Everyone)
                    /\ LivePids = {p.pid : p \in Everyone}
                    /\ WakeupConditions = Wakeups(Everyone)
  OBVIOUS
<1>1. /\ ReadyPids = {p.pid : p \in Elements(ready_processes)}
      /\ WaitingPids = {p.pid : p \in Elements(waiting_processes)}
  BY ElementsPids DEF ReadyPids, WaitingPids
<1>2. LivePids = {p.pid : p \in Everyone}
  BY <1>1 DEF LivePids, RunningPids, Everyone
<1>3. \A p, q \in Elements(ready_processes) : p.pid = q.pid => p = q
  BY DEF EachProcessOnce, PidsDiffer, Elements
<1>4. \A p, q \in Elements(waiting_processes) : p.pid = q.pid => p = q
  BY DEF EachProcessOnce, PidsDiffer, Elements
<1>5. Distinct(Everyone)
  BY <1>1, <1>3, <1>4 DEF Coherent, EachProcessOnce, RunningPids, Everyone, Distinct
<1>6. WakeupConditions = Wakeups(Everyone)
  BY <1>2 DEF WakeupConditions, WakeupOf, Wakeups
<1> QED
  BY <1>2, <1>5, <1>6

\* The same after a step.
LEMMA NextConditions ==
  (Coherent /\ EachProcessOnce)' =>
    /\ Distinct(Everyone')
    /\ LivePids' = {p.pid : p \in Everyone'}
    /\ WakeupConditions' = Wakeups(Everyone')
<1>1. (Coherent /\ EachProcessOnce =>
        /\ Distinct(Everyone)
        /\ LivePids = {p.pid : p \in Everyone}
        /\ WakeupConditions = Wakeups(Everyone))'
  BY Conditions, PTL
<1> QED
  BY <1>1 DEF Distinct, Wakeups

\* What the contract says of each process is so, if it says it of each PCB.
LEMMA Maps ==
  ASSUME Coherent', EachProcessOnce', NEW D, NEW f, f = [pid \in D |-> f[pid]],
         D = {p.pid : p \in Everyone'},
         \A p \in Everyone' : f[p.pid] = p.wakeup
  PROVE  WakeupConditions' = f
BY NextConditions, WakeupsAre

\* The conditions of the processes that are there.
LEMMA ConditionsApply ==
  ASSUME Coherent, EachProcessOnce
  PROVE  /\ WakeupConditions = [pid \in LivePids |-> WakeupConditions[pid]]
         /\ \A p \in Everyone : p.pid \in LivePids /\ WakeupConditions[p.pid] = p.wakeup
         /\ \A pid \in LivePids : \E p \in Everyone : p.pid = pid
<1>1. WakeupConditions = [pid \in LivePids |-> WakeupConditions[pid]]
  BY DEF WakeupConditions
<1> QED
  BY <1>1, Conditions, WakeupsApply

\* The contract writes conditions and decisions as the scheduler does.
LEMMA ContractTerms ==
  /\ Contract!NoWakeup = NoWakeup
  /\ \A time : /\ Contract!SleepWakeup(time) = SleepWakeup(time)
               /\ Contract!SleepFor(time) = SleepFor(time)
  /\ \A event : Contract!SignalWakeup(event) = SignalWakeup(event)
  /\ \A kind : Contract!Outcome(kind) = Outcome(kind)
  /\ \A pid, time : Contract!RunFor(pid, time) = RunFor(pid, time)
BY DEF Contract!NoWakeup, Contract!SleepWakeup, Contract!SleepFor, Contract!SignalWakeup,
       Contract!Outcome, Contract!RunFor,
       NoWakeup, SleepWakeup, SleepFor, SignalWakeup, Outcome, RunFor

\* The awake processes, running or ready, are told apart from those that wait.
LEMMA AwakeHaveNoWakeup ==
  ASSUME Coherent
  PROVE  /\ \A p \in running_process \cup Elements(ready_processes) :
              p \in PcbType /\ p.wakeup = NoWakeup
         /\ Elements(waiting_processes) \subseteq WaitingPcbs
BY ElementsType DEF Coherent, RunningPcbs, ReadyPcbs, Parked

-----------------------------------------------------------------------------
(* Time. *)

\* The pass over the waiting list does to a process what the contract says.
LEMMA ElapseCountdown ==
  ASSUME NEW p \in WaitingPcbs, NEW time \in Nat
  PROVE  /\ Elapse(p, time).pid = p.pid
         /\ Elapse(p, time).wakeup = Contract!Countdown(p.wakeup, time)
<1>1. p \in PcbType
  BY DEF WaitingPcbs
<1>2. CASE p.wakeup.kind # "Sleep"
  BY <1>2 DEF Elapse, Contract!Countdown
<1>3. CASE p.wakeup.kind = "Sleep" /\ p.wakeup.arg > time
  BY <1>1, <1>3, ContractTerms DEF Elapse, Contract!Countdown, PcbType, WakeupCondition
<1>4. CASE p.wakeup.kind = "Sleep" /\ ~(p.wakeup.arg > time)
  BY <1>1, <1>4, ContractTerms DEF Elapse, Contract!Countdown, PcbType, WakeupCondition, SetReady
<1> QED
  BY <1>2, <1>3, <1>4

LEMMA AfterApply ==
  ASSUME Coherent, EachProcessOnce, NEW time \in Nat
  PROVE  /\ Contract!Existing = LivePids
         /\ Contract!After(time) = [pid \in LivePids |-> Contract!After(time)[pid]]
         /\ \A p \in running_process \cup Elements(ready_processes) :
              Contract!After(time)[p.pid] = NoWakeup
         /\ \A p \in Elements(waiting_processes) :
              /\ Elapse(p, time).pid = p.pid
              /\ Contract!After(time)[p.pid] = Elapse(p, time).wakeup
<1>1. Contract!Existing = LivePids
  BY DEF Contract!Existing, WakeupConditions
<1>2. \A p \in Everyone :
        Contract!After(time)[p.pid] = Contract!Countdown(p.wakeup, time)
  BY <1>1, ConditionsApply DEF Contract!After
<1>3. Contract!After(time) = [pid \in LivePids |-> Contract!After(time)[pid]]
  BY <1>1 DEF Contract!After
<1>4. ASSUME NEW p \in running_process \cup Elements(ready_processes)
      PROVE  Contract!After(time)[p.pid] = NoWakeup
  BY <1>2, AwakeHaveNoWakeup, Kinds DEF Everyone, Contract!Countdown
<1>5. ASSUME NEW p \in Elements(waiting_processes)
      PROVE  /\ Elapse(p, time).pid = p.pid
             /\ Contract!After(time)[p.pid] = Elapse(p, time).wakeup
  BY <1>2, AwakeHaveNoWakeup, ElapseCountdown DEF Everyone
<1> QED
  BY <1>1, <1>3, <1>4, <1>5

\* The PCBs after wakeup_processes: the same, in other places, and nobody overlooked.
LEMMA WakeupKeepsAll ==
  ASSUME NEW queue \in Seq(ReadyPcbs), NEW waiting \in Seq(WaitingPcbs)
  PROVE  /\ Elements(queue \o Woken(waiting)) \cup Elements(StillWaiting(waiting))
              = Elements(queue) \cup Elements(waiting)
         /\ Pids(Woken(StillWaiting(waiting))) = {}
<1>1. Woken(waiting) \in Seq(ReadyPcbs) /\ StillWaiting(waiting) \in Seq(WaitingPcbs)
  BY WakeupWaiting
<1>2. Elements(queue \o Woken(waiting)) = Elements(queue) \cup Elements(Woken(waiting))
  BY <1>1, ElementsConcat
<1>3. /\ Elements(Woken(waiting)) = {p \in Elements(waiting) : p.state = Ready}
      /\ Elements(StillWaiting(waiting)) = {p \in Elements(waiting) : p.state # Ready}
      /\ Elements(Woken(StillWaiting(waiting)))
           = {p \in Elements(StillWaiting(waiting)) : p.state = Ready}
  BY <1>1, WakeupElements
<1>4. Pids(Woken(StillWaiting(waiting))) = {}
  BY <1>3, ElementsPids
<1> QED
  BY <1>2, <1>3, <1>4

-----------------------------------------------------------------------------
(* stop(reason). *)

\* What every stop of the running process starts from.
LEMMA StopFrom ==
  ASSUME Coherent, decision.kind = "Run", NEW p \in running_process
  PROVE  /\ decision = RunFor(p.pid, remaining_time)
         /\ decision.pid = p.pid /\ decision.time = remaining_time
         /\ remaining_time \in Nat
         /\ Contract!Remaining = Remaining
<1>1. decision = RunFor(p.pid, remaining_time)
  BY RunningStep DEF Coherent, DecisionMatchesState
<1>2. decision.pid = p.pid /\ decision.time = remaining_time
  BY <1>1 DEF RunFor
<1>3. remaining_time \in Nat
  BY RoundRobinAssumption DEF Coherent
<1> QED
  BY <1>1, <1>2, <1>3 DEF Contract!Remaining, Remaining

LEMMA StartMaps ==
  ASSUME Coherent, Coherent', EachProcessOnce', Start
  PROVE  Contract!Start
<1>1. Nothing /\ Everyone' = {NewPcb(1)} /\ highest_pid' = 1 /\ highest_pid = 0
  BY DEF Coherent, Start, Nothing, Everyone, Elements
<1>2. NewPcb(1).pid = 1 /\ NewPcb(1).wakeup = NoWakeup
  BY DEF NewPcb
<1>3. WakeupConditions' = [pid \in {1} |-> NoWakeup]
  <2>1. \A p \in Everyone' : [pid \in {1} |-> NoWakeup][p.pid] = p.wakeup
    BY <1>1, <1>2
  <2> QED
    BY <1>1, <1>2, <2>1, Maps
<1>4. ReadyInWaiting' = ReadyInWaiting
  BY DEF Start, ReadyInWaiting
<1> QED
  BY <1>1, <1>3, <1>4, ContractTerms DEF Contract!Start, Start

\* Whether it goes on or waits for its turn, the process that called is there.
LEMMA CallerStays ==
  ASSUME NEW p \in PcbType, p.wakeup = NoWakeup, NEW queue \in Seq(ReadyPcbs),
         NEW remaining,
         Yield(p, queue) \/ ContinueOrYield(p, queue, remaining)
  PROVE  \E q : /\ q.pid = p.pid /\ q.wakeup = NoWakeup
                /\ running_process' \cup Elements(ready_processes') = {q} \cup Elements(queue)
<1>1. CASE Yield(p, queue)
  <2>1. SetReady(p) \in ReadyPcbs /\ SetReady(p).pid = p.pid
    BY PcbOperations, SamePid
  <2>2. Elements(ready_processes') = Elements(queue) \cup {SetReady(p)}
    BY <1>1, <2>1, ElementsAppend DEF Yield, Enqueue
  <2> QED
    BY <1>1, <2>1, <2>2 DEF Yield, ReadyPcbs, Parked
<1>2. CASE running_process' = {SetRunning(p)} /\ ready_processes' = queue
  <2>1. SetRunning(p) \in RunningPcbs /\ SetRunning(p).pid = p.pid
    BY PcbOperations, SamePid
  <2> QED
    BY <1>2, <2>1 DEF RunningPcbs
<1> QED
  BY <1>1, <1>2 DEF ContinueOrYield

\* Everyone after a call that wakes up: the caller, the queue and who waited.
LEMMA EveryoneAfterCall ==
  ASSUME NEW p \in PcbType, p.wakeup = NoWakeup, NEW queue \in Seq(ReadyPcbs),
         NEW waiting \in Seq(WaitingPcbs), NEW remaining,
         \/ Yield(p, queue \o Woken(waiting))
         \/ ContinueOrYield(p, queue \o Woken(waiting), remaining),
         waiting_processes' = StillWaiting(waiting)
  PROVE  /\ \E q : /\ q.pid = p.pid /\ q.wakeup = NoWakeup
                   /\ Everyone' = {q} \cup Elements(queue) \cup Elements(waiting)
         /\ ReadyInWaiting' = {}
<1> DEFINE longer == queue \o Woken(waiting)
<1>1. longer \in Seq(ReadyPcbs)
  BY WakeupStep
<1>2. /\ Elements(longer) \cup Elements(StillWaiting(waiting))
           = Elements(queue) \cup Elements(waiting)
      /\ Pids(Woken(StillWaiting(waiting))) = {}
  BY WakeupKeepsAll
<1>3. Yield(p, longer) \/ ContinueOrYield(p, longer, remaining)
  OBVIOUS
<1> HIDE DEF longer
<1>4. PICK q : /\ q.pid = p.pid /\ q.wakeup = NoWakeup
               /\ running_process' \cup Elements(ready_processes') = {q} \cup Elements(longer)
  BY <1>1, <1>3, CallerStays
<1>5. Everyone' = {q} \cup Elements(queue) \cup Elements(waiting)
  BY <1>2, <1>4 DEF Everyone
<1> QED
  BY <1>2, <1>4, <1>5 DEF ReadyInWaiting

\* Who there is when the running process stops, after some time.
LEMMA PidsAfter ==
  ASSUME Coherent, EachProcessOnce, NEW p \in running_process, NEW time \in Nat
  PROVE  /\ Elements(WaitingAfter(time)) = {Elapse(r, time) : r \in Elements(waiting_processes)}
         /\ LivePids = {p.pid} \cup {r.pid : r \in Elements(ready_processes)}
                               \cup {r.pid : r \in Elements(WaitingAfter(time))}
<1>1. Elements(WaitingAfter(time)) = {Elapse(r, time) : r \in Elements(waiting_processes)}
  BY ElapsedElements DEF WaitingAfter
<1>2. LivePids = {r.pid : r \in Everyone}
  BY Conditions
<1>3. Everyone = {p} \cup Elements(ready_processes) \cup Elements(waiting_processes)
  BY DEF Everyone, Coherent
<1>4. {r.pid : r \in Elements(WaitingAfter(time))}
        = {r.pid : r \in Elements(waiting_processes)}
  <2>1. \A r \in Elements(waiting_processes) : Elapse(r, time).pid = r.pid
    BY AfterApply
  <2> QED
    BY <1>1, <2>1
<1> QED
  BY <1>1, <1>2, <1>3, <1>4

\* The conditions when some time has passed, place by place.
LEMMA AfterWaiting ==
  ASSUME Coherent, EachProcessOnce, NEW time \in Nat
  PROVE  \A r \in Elements(WaitingAfter(time)) : Contract!After(time)[r.pid] = r.wakeup
<1>1. Elements(WaitingAfter(time)) = {Elapse(r, time) : r \in Elements(waiting_processes)}
  BY ElapsedElements DEF WaitingAfter
<1> QED
  BY <1>1, AfterApply

LEMMA ExpiredMaps ==
  ASSUME Coherent, EachProcessOnce, Coherent', EachProcessOnce', Expired
  PROVE  Contract!Expired
<1> DEFINE time == remaining_time
           waiting == WaitingAfter(time)
<1>1. PICK p \in running_process :
         /\ Yield(p, ready_processes \o Woken(waiting))
         /\ waiting_processes' = StillWaiting(waiting)
  BY DEF Expired
<1>2. decision.kind = "Run" /\ decision' = Outcome("Stopped") /\ highest_pid' = highest_pid
  BY DEF Expired
<1>3. /\ decision.time = time /\ time \in Nat
      /\ p \in PcbType /\ p.wakeup = NoWakeup /\ running_process = {p}
      /\ waiting \in Seq(WaitingPcbs) /\ ready_processes \in Seq(ReadyPcbs)
  BY <1>2, RunningStep, StopFrom DEF Coherent
<1>4. /\ LivePids = {p.pid} \cup {r.pid : r \in Elements(ready_processes)}
                            \cup {r.pid : r \in Elements(waiting)}
      /\ \A r \in Elements(waiting) : Contract!After(time)[r.pid] = r.wakeup
      /\ \A r \in {p} \cup Elements(ready_processes) :
           Contract!After(time)[r.pid] = NoWakeup /\ r.wakeup = NoWakeup
  BY <1>3, PidsAfter, AfterWaiting, AfterApply, AwakeHaveNoWakeup
<1> HIDE DEF waiting
<1>5. PICK q : /\ q.pid = p.pid /\ q.wakeup = NoWakeup
               /\ Everyone' = {q} \cup Elements(ready_processes) \cup Elements(waiting)
  BY <1>1, <1>3, EveryoneAfterCall
<1>6. ReadyInWaiting' = {}
  BY <1>1, <1>3, EveryoneAfterCall
<1>7. \A r \in Everyone' : Contract!After(time)[r.pid] = r.wakeup
  BY <1>4, <1>5
<1>8. LivePids = {r.pid : r \in Everyone'}
  BY <1>4, <1>5
<1>9. WakeupConditions' = Contract!After(time)
  BY <1>3, <1>7, <1>8, AfterApply, Maps
<1> QED
  BY <1>2, <1>3, <1>6, <1>9, ContractTerms DEF Contract!Expired, Contract!Stopped

LEMMA ForkMaps ==
  ASSUME Coherent, EachProcessOnce, Coherent', EachProcessOnce',
         NEW remaining \in Remaining, Fork(remaining)
  PROVE  Contract!Fork(remaining)
<1> DEFINE time == remaining_time - remaining
           waiting == WaitingAfter(time)
           child == NewPcb(highest_pid + 1)
           queue == Append(ready_processes, child)
           Forked == [pid \in LivePids \cup {highest_pid + 1} |->
                        IF pid \in LivePids THEN Contract!After(time)[pid] ELSE NoWakeup]
<1>1. PICK p \in running_process :
         /\ ContinueOrYield(p, queue \o Woken(waiting), remaining)
         /\ waiting_processes' = StillWaiting(waiting)
  BY DEF Fork
<1>2. /\ decision.kind = "Run" /\ decision' = Outcome("Stopped")
      /\ highest_pid < MaxPid /\ highest_pid' = highest_pid + 1
  BY DEF Fork
<1>3. /\ decision.time = remaining_time /\ time \in Nat
      /\ p \in PcbType /\ p.wakeup = NoWakeup /\ running_process = {p}
      /\ waiting \in Seq(WaitingPcbs) /\ ready_processes \in Seq(ReadyPcbs)
  BY <1>2, RunningStep, RemainingStep, StopFrom DEF Coherent
<1>4. /\ LivePids = {p.pid} \cup {r.pid : r \in Elements(ready_processes)}
                            \cup {r.pid : r \in Elements(waiting)}
      /\ \A r \in Elements(waiting) : Contract!After(time)[r.pid] = r.wakeup
      /\ \A r \in {p} \cup Elements(ready_processes) :
           Contract!After(time)[r.pid] = NoWakeup /\ r.wakeup = NoWakeup
  BY <1>3, PidsAfter, AfterWaiting, AfterApply, AwakeHaveNoWakeup
<1>5. /\ child \in ReadyPcbs /\ child.pid = highest_pid + 1 /\ child.wakeup = NoWakeup
      /\ highest_pid + 1 \notin LivePids
  BY NewPcbReady, RoundRobinAssumption DEF Coherent, Pid, NewPcb, EachProcessOnce
<1>6. queue \in Seq(ReadyPcbs) /\ Elements(queue) = Elements(ready_processes) \cup {child}
  BY <1>3, <1>5, ElementsAppend
<1> HIDE DEF waiting, queue, child
<1>7. PICK q : /\ q.pid = p.pid /\ q.wakeup = NoWakeup
               /\ Everyone' = {q} \cup Elements(queue) \cup Elements(waiting)
  BY <1>1, <1>3, <1>6, EveryoneAfterCall
<1>8. ReadyInWaiting' = {}
  BY <1>1, <1>3, <1>6, EveryoneAfterCall
<1> HIDE DEF time
<1>9. \A r \in Everyone' : Forked[r.pid] = r.wakeup
  BY <1>4, <1>5, <1>6, <1>7
<1>10. LivePids \cup {highest_pid + 1} = {r.pid : r \in Everyone'}
  BY <1>4, <1>5, <1>6, <1>7
<1>11. WakeupConditions' = Forked
  BY <1>9, <1>10, Maps
<1>12. Contract!Existing = LivePids
  BY <1>3, AfterApply
<1> QED
  BY <1>2, <1>3, <1>8, <1>11, <1>12, ContractTerms
     DEF Contract!Fork, Contract!Stopped, time

\* A signal ends the wait for its event and no other, before or after some time.
LEMMA NotifyCondition ==
  ASSUME NEW p \in WaitingPcbs, NEW time \in Nat, NEW event
  PROVE  LET q == Elapse(p, time)
         IN  /\ Notify(q, event).pid = p.pid
             /\ Notify(q, event).wakeup =
                  IF p.wakeup = SignalWakeup(event) THEN NoWakeup ELSE q.wakeup
<1> DEFINE q == Elapse(p, time)
<1>1. q \in PcbType /\ q.pid = p.pid
  BY ElapseWaiting, ElapseCountdown DEF WaitingPcbs
<1>2. q.wakeup = SignalWakeup(event) <=> p.wakeup = SignalWakeup(event)
  <2>1. CASE p.wakeup.kind # "Sleep"
    BY <2>1 DEF Elapse
  <2>2. CASE p.wakeup.kind = "Sleep"
    <3>1. q.wakeup.kind \in {"Sleep", "None"}
      BY <2>2, ElapseCountdown, ContractTerms, Kinds
         DEF Contract!Countdown, SleepWakeup
    <3> QED
      BY <2>2, <3>1, Kinds
  <2> QED
    BY <2>1, <2>2
<1> HIDE DEF q
<1>3. Notify(q, event).pid = p.pid
  BY <1>1, SamePid DEF Notify
<1>4. Notify(q, event).wakeup =
        IF p.wakeup = SignalWakeup(event) THEN NoWakeup ELSE q.wakeup
  BY <1>1, <1>2 DEF Notify, SetReady, PcbType
<1> QED
  BY <1>3, <1>4 DEF q

LEMMA SignalMaps ==
  ASSUME Coherent, EachProcessOnce, Coherent', EachProcessOnce',
         NEW event, NEW remaining \in Remaining, Signal(event, remaining)
  PROVE  Contract!Signal(event, remaining)
<1> DEFINE time == remaining_time - remaining
           before == WaitingAfter(time)
           waiting == Notified(before, event)
           Signalled == [pid \in LivePids |->
                           IF WakeupConditions[pid] = SignalWakeup(event) THEN NoWakeup
                           ELSE Contract!After(time)[pid]]
<1>1. PICK p \in running_process :
         /\ ContinueOrYield(p, ready_processes \o Woken(waiting), remaining)
         /\ waiting_processes' = StillWaiting(waiting)
  BY DEF Signal
<1>2. /\ decision.kind = "Run" /\ decision' = Outcome("Stopped")
      /\ highest_pid' = highest_pid
  BY DEF Signal
<1>3. /\ decision.time = remaining_time /\ time \in Nat
      /\ p \in PcbType /\ p.wakeup = NoWakeup /\ running_process = {p}
      /\ before \in Seq(WaitingPcbs) /\ ready_processes \in Seq(ReadyPcbs)
  BY <1>2, RunningStep, RemainingStep, StopFrom DEF Coherent
<1>4. waiting \in Seq(WaitingPcbs)
  BY <1>3, NotifiedWaiting
<1>5. LivePids = {p.pid} \cup {r.pid : r \in Elements(ready_processes)}
                         \cup {r.pid : r \in Elements(before)}
  BY <1>3, PidsAfter
<1>6. \A r \in {p} \cup Elements(ready_processes) : Signalled[r.pid] = NoWakeup
  <2>1. ASSUME NEW r \in {p} \cup Elements(ready_processes)
        PROVE  Signalled[r.pid] = NoWakeup
    <3>1. Contract!After(time)[r.pid] = NoWakeup
      BY <1>3, AfterApply
    <3>2. r.pid \in LivePids
      BY <1>5
    <3> QED
      BY <3>1, <3>2
  <2> QED
    BY <2>1
<1>7. /\ Elements(waiting) = {Notify(r, event) : r \in Elements(before)}
      /\ Elements(before) = {Elapse(r, time) : r \in Elements(waiting_processes)}
  BY NotifiedElements, ElapsedElements DEF WaitingAfter
<1>8. ASSUME NEW r \in Elements(waiting_processes)
      PROVE  LET n == Notify(Elapse(r, time), event)
             IN  n.pid = r.pid /\ Elapse(r, time).pid = r.pid /\ Signalled[n.pid] = n.wakeup
  <2> DEFINE n == Notify(Elapse(r, time), event)
  <2>1. r \in WaitingPcbs
    BY AwakeHaveNoWakeup
  <2>2. /\ n.pid = r.pid
        /\ n.wakeup = IF r.wakeup = SignalWakeup(event) THEN NoWakeup ELSE Elapse(r, time).wakeup
    BY <1>3, <2>1, NotifyCondition
  <2>3. /\ Contract!After(time)[r.pid] = Elapse(r, time).wakeup
        /\ Elapse(r, time).pid = r.pid
    BY <1>3, AfterApply
  <2>4. r.pid \in LivePids /\ WakeupConditions[r.pid] = r.wakeup
    BY ConditionsApply DEF Everyone
  <2> QED
    BY <2>2, <2>3, <2>4
<1> HIDE DEF Signalled, time
<1>9. /\ \A r \in Elements(waiting) : Signalled[r.pid] = r.wakeup
      /\ {r.pid : r \in Elements(waiting)} = {r.pid : r \in Elements(before)}
  BY <1>7, <1>8
<1> HIDE DEF waiting, before
<1>10. PICK q : /\ q.pid = p.pid /\ q.wakeup = NoWakeup
                /\ Everyone' = {q} \cup Elements(ready_processes) \cup Elements(waiting)
  BY <1>1, <1>3, <1>4, EveryoneAfterCall
<1>11. ReadyInWaiting' = {}
  BY <1>1, <1>3, <1>4, EveryoneAfterCall
<1>12. \A r \in Everyone' : Signalled[r.pid] = r.wakeup
  BY <1>3, <1>6, <1>9, <1>10, AwakeHaveNoWakeup
<1>13. LivePids = {r.pid : r \in Everyone'}
  BY <1>5, <1>9, <1>10
<1>14. WakeupConditions' = Signalled
  BY <1>12, <1>13, Maps DEF Signalled
<1>15. Contract!Existing = LivePids
  BY <1>3, AfterApply
<1> QED
  BY <1>2, <1>3, <1>11, <1>14, <1>15, ContractTerms
     DEF Contract!Signal, Contract!Stopped, time, Signalled

\* In the waiting list, a process that is Ready is one that waits for nothing.
LEMMA WokenIfNoWakeup ==
  ASSUME NEW list \in Seq(WaitingPcbs)
  PROVE  Pids(Woken(list)) = {p.pid : p \in {q \in Elements(list) : q.wakeup = NoWakeup}}
<1>1. \A p \in WaitingPcbs : p.state = Ready <=> p.wakeup = NoWakeup
  BY Kinds DEF WaitingPcbs, Parked, Blocked, Asleep, Awaiting
<1>2. Elements(Woken(list)) = {p \in Elements(list) : p.state = Ready}
  BY WakeupElements
<1> QED
  BY <1>1, <1>2, ElementsPids, ElementsType

\* Sleep and Wait: those whose sleep has just run out stay where they are.
LEMMA BlockMaps ==
  ASSUME Coherent, EachProcessOnce, Coherent', EachProcessOnce',
         decision.kind = "Run", NEW remaining \in Remaining, NEW p \in running_process,
         NEW asleep \in WaitingPcbs, asleep.pid = p.pid, asleep.wakeup # NoWakeup,
         Block(asleep, remaining)
  PROVE  Contract!Block(asleep.wakeup, remaining)
<1> DEFINE time == remaining_time - remaining
           waiting == WaitingAfter(time)
           Blocks == [Contract!After(time) EXCEPT ![p.pid] = asleep.wakeup]
<1>1. /\ decision' = Outcome("Stopped") /\ highest_pid' = highest_pid
      /\ running_process' = {} /\ ready_processes' = ready_processes
      /\ waiting_processes' = Append(waiting, asleep)
  BY DEF Block
<1>2. /\ decision.time = remaining_time /\ decision.pid = p.pid /\ time \in Nat
      /\ running_process = {p}
      /\ waiting \in Seq(WaitingPcbs) /\ ready_processes \in Seq(ReadyPcbs)
  BY RunningStep, RemainingStep, StopFrom DEF Coherent
<1>3. /\ LivePids = {p.pid} \cup {r.pid : r \in Elements(ready_processes)}
                            \cup {r.pid : r \in Elements(waiting)}
      /\ \A r \in Elements(waiting) : Contract!After(time)[r.pid] = r.wakeup
      /\ \A r \in Elements(ready_processes) :
           Contract!After(time)[r.pid] = NoWakeup /\ r.wakeup = NoWakeup
  BY <1>2, PidsAfter, AfterWaiting, AfterApply, AwakeHaveNoWakeup
<1>4. p.pid \notin {r.pid : r \in Elements(ready_processes)} \cup {r.pid : r \in Elements(waiting)}
  <2>1. {r.pid : r \in Elements(waiting)} = {r.pid : r \in Elements(waiting_processes)}
    BY <1>2, PidsAfter, AfterApply
  <2> QED
    BY <2>1, ElementsPids DEF EachProcessOnce, RunningPids, ReadyPids, WaitingPids
<1>5. /\ Contract!Existing = LivePids
      /\ Contract!After(time) = [pid \in LivePids |-> Contract!After(time)[pid]]
  BY <1>2, AfterApply
<1>6. /\ Elements(waiting_processes') = Elements(waiting) \cup {asleep}
      /\ waiting_processes' \in Seq(WaitingPcbs)
  BY <1>1, <1>2, ElementsAppend
<1>7. ReadyInWaiting' = ReadyInWaiting \cup Contract!DueWithin(time)
  <2>1. ReadyInWaiting' = {r.pid : r \in {q \in Elements(waiting) : q.wakeup = NoWakeup}}
    BY <1>6, WokenIfNoWakeup DEF ReadyInWaiting
  <2>2. ReadyInWaiting = {r.pid : r \in {q \in Elements(waiting_processes) : q.wakeup = NoWakeup}}
    BY WokenIfNoWakeup DEF ReadyInWaiting, Coherent
  <2>3. Elements(waiting) = {Elapse(r, time) : r \in Elements(waiting_processes)}
    BY <1>2, PidsAfter
  <2>4. ASSUME NEW r \in Elements(waiting_processes)
        PROVE  /\ Elapse(r, time).pid = r.pid
               /\ Contract!After(time)[r.pid] = Elapse(r, time).wakeup
               /\ r.pid \in LivePids /\ WakeupConditions[r.pid] = r.wakeup
               /\ r.wakeup = NoWakeup => Elapse(r, time).wakeup = NoWakeup
    BY <1>2, AfterApply, ConditionsApply, Kinds DEF Everyone, Elapse
  <2>5. ASSUME NEW pid \in LivePids, WakeupConditions[pid] # NoWakeup
        PROVE  \E r \in Elements(waiting_processes) : r.pid = pid
    BY <2>5, ConditionsApply, AwakeHaveNoWakeup DEF Everyone
  <2>6. Contract!DueWithin(time) =
          {pid \in LivePids :
             WakeupConditions[pid] # NoWakeup /\ Contract!After(time)[pid] = NoWakeup}
    BY <1>5, ContractTerms DEF Contract!DueWithin
  <2> HIDE DEF waiting, time
  <2>7. ASSUME NEW pid \in ReadyInWaiting'
        PROVE  pid \in ReadyInWaiting \cup Contract!DueWithin(time)
    BY <2>1, <2>2, <2>3, <2>4, <2>6
  <2>8. ASSUME NEW pid \in ReadyInWaiting \cup Contract!DueWithin(time)
        PROVE  pid \in ReadyInWaiting'
    BY <2>1, <2>2, <2>3, <2>4, <2>5, <2>6
  <2> QED
    BY <2>7, <2>8
<1>8. Everyone' = Elements(ready_processes) \cup Elements(waiting) \cup {asleep}
  BY <1>1, <1>6 DEF Everyone
<1> HIDE DEF waiting, time
<1>9. \A r \in Everyone' : Blocks[r.pid] = r.wakeup
  BY <1>3, <1>4, <1>5, <1>8
<1>10. LivePids = {r.pid : r \in Everyone'}
  BY <1>3, <1>8
<1>11. Blocks = [pid \in LivePids |-> Blocks[pid]]
  BY <1>5
<1> HIDE DEF Blocks
<1>12. WakeupConditions' = Blocks
  BY <1>9, <1>10, <1>11, Maps
<1> QED
  BY <1>1, <1>2, <1>7, <1>12, ContractTerms
     DEF Contract!Block, Contract!Stopped, time, Blocks

LEMMA SleepMaps ==
  ASSUME Coherent, EachProcessOnce, Coherent', EachProcessOnce',
         NEW remaining \in Remaining, NEW time \in SleepTimes, Sleep(time, remaining)
  PROVE  Contract!Sleep(time, remaining)
<1>1. PICK p \in running_process : Block(PutToSleep(p, time), remaining)
  BY DEF Sleep
<1>2. decision.kind = "Run" /\ p \in PcbType /\ time \in Nat
  BY <1>1, RunningStep, RoundRobinAssumption DEF Sleep
<1>3. PutToSleep(p, time) \in WaitingPcbs /\ PutToSleep(p, time).pid = p.pid
  BY <1>2, PcbOperations, SamePid
<1>4. PutToSleep(p, time).wakeup = SleepWakeup(time) /\ SleepWakeup(time) # NoWakeup
  BY <1>2 DEF PutToSleep, PcbType, SleepWakeup, NoWakeup
<1> QED
  BY <1>1, <1>2, <1>3, <1>4, BlockMaps, ContractTerms DEF Contract!Sleep

LEMMA WaitMaps ==
  ASSUME Coherent, EachProcessOnce, Coherent', EachProcessOnce',
         NEW remaining \in Remaining, NEW event \in Events, Wait(event, remaining)
  PROVE  Contract!Wait(event, remaining)
<1>1. PICK p \in running_process : Block(AwaitEvent(p, event), remaining)
  BY DEF Wait
<1>2. decision.kind = "Run" /\ p \in PcbType
  BY <1>1, RunningStep DEF Wait
<1>3. AwaitEvent(p, event) \in WaitingPcbs /\ AwaitEvent(p, event).pid = p.pid
  BY <1>2, PcbOperations, SamePid
<1>4. AwaitEvent(p, event).wakeup = SignalWakeup(event) /\ SignalWakeup(event) # NoWakeup
  BY <1>2 DEF AwaitEvent, PcbType, SignalWakeup, NoWakeup
<1> QED
  BY <1>1, <1>2, <1>3, <1>4, BlockMaps, ContractTerms DEF Contract!Wait

LEMMA ExitMaps ==
  ASSUME Coherent, EachProcessOnce, Coherent', EachProcessOnce',
         NEW remaining \in Remaining, Exit(remaining)
  PROVE  Contract!Exit(remaining)
<1> DEFINE time == remaining_time - remaining
           waiting == WaitingAfter(time)
<1>1. PICK p \in running_process : TRUE
  BY DEF Exit, Coherent, DecisionMatchesState
<1>2. /\ decision.kind = "Run" /\ decision' = Outcome("Stopped")
      /\ highest_pid' = highest_pid /\ running_process' = {}
      /\ ready_processes' = ready_processes \o Woken(waiting)
      /\ waiting_processes' = StillWaiting(waiting)
  BY DEF Exit
<1>3. /\ decision.time = remaining_time /\ decision.pid = p.pid /\ time \in Nat
      /\ waiting \in Seq(WaitingPcbs) /\ ready_processes \in Seq(ReadyPcbs)
  BY <1>1, <1>2, RunningStep, RemainingStep, StopFrom DEF Coherent
<1>4. /\ LivePids = {p.pid} \cup {r.pid : r \in Elements(ready_processes)}
                            \cup {r.pid : r \in Elements(waiting)}
      /\ \A r \in Elements(waiting) : Contract!After(time)[r.pid] = r.wakeup
      /\ \A r \in Elements(ready_processes) :
           Contract!After(time)[r.pid] = NoWakeup /\ r.wakeup = NoWakeup
  BY <1>1, <1>3, PidsAfter, AfterWaiting, AfterApply, AwakeHaveNoWakeup
<1>5. p.pid \notin {r.pid : r \in Elements(ready_processes)} \cup {r.pid : r \in Elements(waiting)}
  <2>1. {r.pid : r \in Elements(waiting)} = {r.pid : r \in Elements(waiting_processes)}
    BY <1>1, <1>3, PidsAfter, AfterApply
  <2> QED
    BY <1>1, <2>1, ElementsPids DEF EachProcessOnce, RunningPids, ReadyPids, WaitingPids
<1>6. Contract!Existing = LivePids
  BY <1>3, AfterApply
<1>7. Everyone' = Elements(ready_processes) \cup Elements(waiting) /\ ReadyInWaiting' = {}
  BY <1>2, <1>3, WakeupKeepsAll DEF Everyone, ReadyInWaiting
<1> HIDE DEF waiting, time
<1>8. LivePids \ {p.pid} = {r.pid : r \in Everyone'}
  BY <1>4, <1>5, <1>7
<1>9. \A r \in Everyone' : Contract!After(time)[r.pid] = r.wakeup
  BY <1>4, <1>7
<1>10. WakeupConditions' = [pid \in LivePids \ {p.pid} |-> Contract!After(time)[pid]]
  <2> DEFINE Left == [pid \in LivePids \ {p.pid} |-> Contract!After(time)[pid]]
  <2>1. \A r \in Everyone' : Left[r.pid] = r.wakeup
    BY <1>8, <1>9
  <2> QED
    BY <1>8, <2>1, Maps
<1> QED
  BY <1>2, <1>3, <1>6, <1>7, <1>10, ContractTerms DEF Contract!Exit, Contract!Stopped, time

-----------------------------------------------------------------------------
(* next(). *)

\* Who there is when next() decides, the sleep it asked for having passed.
Present == running_process \cup Elements(ReadyOnNext) \cup Elements(WaitingOnNext)

\* The time the contract lets pass is the sleep_time the scheduler kept.
LEMMA SleptIs ==
  ASSUME Coherent, NextIsDue
  PROVE  Contract!Slept = sleep_time /\ sleep_time \in Nat
BY DEF Coherent, NextIsDue, DecisionMatchesState, Contract!Slept, SleepFor

\* The contract's view of the processes when next() decides.
LEMMA PassedIs ==
  ASSUME Coherent, EachProcessOnce, NextIsDue
  PROVE  /\ Contract!Existing = LivePids
         /\ Contract!Passed = [pid \in LivePids |-> Contract!Passed[pid]]
         /\ LivePids = {r.pid : r \in Present}
         /\ \A r \in Present : Contract!Passed[r.pid] = r.wakeup
         /\ Contract!StillOverlooked = Pids(Woken(WaitingOnNext))
<1>1. Contract!Existing = LivePids
  BY DEF Contract!Existing, WakeupConditions
<1>2. CASE sleep_time = 0
  <2>1. /\ Contract!Passed = WakeupConditions
        /\ Contract!StillOverlooked = ReadyInWaiting
    BY <1>2, SleptIs DEF Contract!Passed, Contract!StillOverlooked
  <2>2. Present = Everyone /\ WaitingOnNext = waiting_processes
    BY <1>2 DEF Present, Everyone, ReadyOnNext, WaitingOnNext
  <2> QED
    BY <1>1, <2>1, <2>2, Conditions, ConditionsApply DEF ReadyInWaiting
<1>3. CASE sleep_time # 0
  <2> DEFINE waiting == WaitingAfter(sleep_time)
  <2>1. sleep_time \in Nat /\ Contract!Slept = sleep_time
    BY SleptIs
  <2>2. /\ Contract!Passed = Contract!After(sleep_time)
        /\ Contract!StillOverlooked = {}
    BY <1>3, <2>1 DEF Contract!Passed, Contract!StillOverlooked
  <2>3. waiting \in Seq(WaitingPcbs) /\ ready_processes \in Seq(ReadyPcbs)
    BY <2>1, ElapsedWaiting DEF Coherent, WaitingAfter
  <2>4. /\ Elements(waiting) = {Elapse(r, sleep_time) : r \in Elements(waiting_processes)}
        /\ \A r \in Elements(waiting_processes) : Elapse(r, sleep_time).pid = r.pid
    BY <2>1, AfterApply, ElapsedElements DEF WaitingAfter
  <2>5. \A r \in Elements(waiting) : Contract!After(sleep_time)[r.pid] = r.wakeup
    BY <2>1, AfterWaiting
  <2> HIDE DEF waiting
  <2>6. {r.pid : r \in Elements(waiting)} = {r.pid : r \in Elements(waiting_processes)}
    BY <2>4
  <2>7. /\ ReadyOnNext = ready_processes \o Woken(waiting)
        /\ WaitingOnNext = StillWaiting(waiting)
    BY <1>3 DEF ReadyOnNext, WaitingOnNext, waiting
  <2>8. /\ Present = running_process \cup Elements(ready_processes) \cup Elements(waiting)
        /\ Pids(Woken(WaitingOnNext)) = {}
    BY <2>3, <2>7, WakeupKeepsAll DEF Present
  <2>9. LivePids = {r.pid : r \in Present}
    BY <2>6, <2>8, Conditions DEF Everyone
  <2>10. \A r \in Present : Contract!After(sleep_time)[r.pid] = r.wakeup
    BY <2>1, <2>5, <2>8, AfterApply, AwakeHaveNoWakeup
  <2> QED
    BY <1>1, <2>1, <2>2, <2>8, <2>9, <2>10, AfterApply
<1> QED
  BY <1>2, <1>3

\* Awake, for the contract, is who runs and who is in the ready processes.
LEMMA AwakeIs ==
  ASSUME Coherent, EachProcessOnce, NextIsDue
  PROVE  /\ Contract!Awake = RunningPids \cup Pids(ReadyOnNext)
         /\ Contract!Sleepers =
              {r.pid : r \in {q \in Elements(WaitingOnNext) : q.wakeup.kind = "Sleep"}}
<1>1. /\ ReadyOnNext \in Seq(ReadyPcbs)
      /\ WaitingOnNext \in Seq(WaitingPcbs)
  BY NextStep
<1>2. \A r \in running_process \cup Elements(ReadyOnNext) : r.wakeup = NoWakeup
  BY <1>1, ElementsType DEF Coherent, RunningPcbs, ReadyPcbs, Parked
<1>3. /\ Pids(ReadyOnNext) = {r.pid : r \in Elements(ReadyOnNext)}
      /\ Pids(WaitingOnNext) = {r.pid : r \in Elements(WaitingOnNext)}
      /\ RunningPids = {r.pid : r \in running_process}
  BY ElementsPids DEF RunningPids
<1>4. (RunningPids \cup Pids(ReadyOnNext)) \cap Pids(WaitingOnNext) = {}
  BY NextOnce DEF Apart
<1>5. Contract!StillOverlooked =
        {r.pid : r \in {q \in Elements(WaitingOnNext) : q.wakeup = NoWakeup}}
  BY <1>1, PassedIs, WokenIfNoWakeup
<1>6. Contract!Awake = {pid \in LivePids : Contract!Passed[pid] = NoWakeup}
                         \ Contract!StillOverlooked
  BY PassedIs, ContractTerms DEF Contract!Awake
<1>7. ASSUME NEW pid \in Contract!Awake PROVE pid \in RunningPids \cup Pids(ReadyOnNext)
  <2>1. PICK r \in Present : r.pid = pid /\ r.wakeup = NoWakeup
    BY <1>6, PassedIs
  <2> QED
    BY <1>3, <1>5, <1>6, <2>1 DEF Present
<1>8. ASSUME NEW pid \in RunningPids \cup Pids(ReadyOnNext) PROVE pid \in Contract!Awake
  <2>1. PICK r \in running_process \cup Elements(ReadyOnNext) : r.pid = pid
    BY <1>3
  <2>2. r \in Present /\ r.wakeup = NoWakeup
    BY <1>2 DEF Present
  <2>3. pid \notin Contract!StillOverlooked
    BY <1>3, <1>4, <1>5
  <2> QED
    BY <1>6, <2>1, <2>2, <2>3, PassedIs
<1>9. Contract!Sleepers = {pid \in LivePids : Contract!Passed[pid].kind = "Sleep"}
  BY PassedIs DEF Contract!Sleepers
<1>10. \A r \in Present : r.wakeup.kind = "Sleep" => r \in Elements(WaitingOnNext)
  BY <1>2, Kinds DEF Present
<1>11. Contract!Sleepers =
         {r.pid : r \in {q \in Elements(WaitingOnNext) : q.wakeup.kind = "Sleep"}}
  BY <1>9, <1>10, PassedIs DEF Present
<1> QED
  BY <1>7, <1>8, <1>11

\* A decision that moves nobody but the sleepers whose time is up.
LEMMA DecidedMaps ==
  ASSUME Coherent, EachProcessOnce, Coherent', EachProcessOnce', NextIsDue,
         ready_processes' = ReadyOnNext,
         waiting_processes' = WaitingOnNext,
         UNCHANGED <<running_process, highest_pid>>
  PROVE  Contract!Decided(decision')
<1>1. Everyone' = Present /\ ReadyInWaiting' = Pids(Woken(WaitingOnNext))
  BY DEF Everyone, Present, ReadyInWaiting
<1>2. WakeupConditions' = Contract!Passed
  BY <1>1, PassedIs, Maps
<1> QED
  BY <1>1, <1>2, PassedIs DEF Contract!Decided, NextIsDue

LEMMA DoneMaps ==
  ASSUME Coherent, EachProcessOnce, Coherent', EachProcessOnce', DecideDone
  PROVE  Contract!DecideDone
<1>1. NextIsDue /\ IsDone /\ decision' = Outcome("Done")
  BY DEF DecideDone, Halt
<1>2. Contract!Decided(decision')
  BY DecidedMaps DEF DecideDone, Halt
<1>3. Present = {}
  BY <1>1 DEF IsDone, Present, Elements
<1>4. Contract!Existing = {}
  BY <1>1, <1>3, PassedIs
<1> QED
  BY <1>1, <1>2, <1>4, ContractTerms DEF Contract!DecideDone

\* PID 1 exists for the scheduler if and only if it does for the contract.
LEMMA Pid1Is ==
  ASSUME Coherent, EachProcessOnce, NextIsDue
  PROVE  Pid1Exists <=> 1 \in Contract!Existing
BY PassedIs, ElementsPids DEF Pid1Exists, RunningPids, Present

LEMMA PanicMaps ==
  ASSUME Coherent, EachProcessOnce, Coherent', EachProcessOnce', DecidePanic
  PROVE  Contract!DecidePanic
<1>1. NextIsDue /\ ~ IsDone /\ ~ Pid1Exists /\ decision' = Outcome("Panic")
  BY DEF DecidePanic, Halt
<1>2. Contract!Decided(decision')
  BY DecidedMaps DEF DecidePanic, Halt
<1>3. Present # {}
  <2>1. ASSUME NEW S, NEW list \in Seq(S), list # << >> PROVE Elements(list) # {}
    BY <2>1, ElementsHeadTail
  <2>2. ReadyOnNext \in Seq(ReadyPcbs) /\ WaitingOnNext \in Seq(WaitingPcbs)
    BY NextStep
  <2> QED
    BY <1>1, <2>1, <2>2 DEF IsDone, Present
<1>4. Contract!Existing # {} /\ 1 \notin Contract!Existing
  BY <1>1, <1>3, PassedIs, Pid1Is
<1> QED
  BY <1>1, <1>2, <1>4, ContractTerms DEF Contract!DecidePanic

LEMMA ContinueMaps ==
  ASSUME Coherent, EachProcessOnce, Coherent', EachProcessOnce', NeverAborts',
         DecideContinue
  PROVE  Contract!DecideRun
<1>1. PICK p \in running_process :
        decision' = NonZero(remaining_time, RunFor(p.pid, remaining_time))
  BY DEF DecideContinue
<1>2. NextIsDue /\ Contract!Decided(decision')
  BY DecidedMaps DEF DecideContinue
<1>3. remaining_time # 0
  BY <1>1 DEF NonZero, NeverAborts, Outcome
<1>4. remaining_time \in 1..Timeslice
  BY <1>3, RoundRobinAssumption DEF Coherent
<1>5. decision' = Contract!RunFor(p.pid, remaining_time)
  BY <1>1, <1>3, ContractTerms DEF NonZero
<1>6. p.pid \in Contract!Awake
  BY <1>1, <1>2, AwakeIs DEF RunningPids
<1>7. 1 \in Contract!Existing
  BY <1>2, Pid1Is DEF DecideContinue
<1> QED
  BY <1>2, <1>4, <1>5, <1>6, <1>7 DEF Contract!DecideRun

LEMMA DispatchMaps ==
  ASSUME Coherent, EachProcessOnce, Coherent', EachProcessOnce', DecideDispatch
  PROVE  Contract!DecideRun
<1> DEFINE p == Head(ReadyOnNext)
<1>1. /\ NextIsDue /\ Pid1Exists /\ running_process = {} /\ ReadyOnNext # << >>
      /\ running_process' = {SetRunning(p)} /\ ready_processes' = Tail(ReadyOnNext)
      /\ waiting_processes' = WaitingOnNext /\ highest_pid' = highest_pid
      /\ decision' = RunFor(p.pid, Timeslice)
  BY DEF DecideDispatch, Dispatch
<1>2. ReadyOnNext \in Seq(ReadyPcbs)
  BY NextStep
<1>3. Elements(ReadyOnNext) = {p} \cup Elements(Tail(ReadyOnNext))
  BY <1>1, <1>2, ElementsHeadTail
<1>4. p \in PcbType /\ p.wakeup = NoWakeup
  BY <1>2, <1>3, ElementsType DEF ReadyPcbs, Parked
<1>5. SetRunning(p).pid = p.pid /\ SetRunning(p).wakeup = p.wakeup
  BY <1>4, SamePid DEF SetRunning, PcbType
<1> HIDE DEF p
<1>6. /\ Everyone' = {SetRunning(p)} \cup Elements(Tail(ReadyOnNext)) \cup Elements(WaitingOnNext)
      /\ Present = {p} \cup Elements(Tail(ReadyOnNext)) \cup Elements(WaitingOnNext)
      /\ ReadyInWaiting' = Pids(Woken(WaitingOnNext))
  BY <1>1, <1>3 DEF Everyone, Present, ReadyInWaiting
<1>7. /\ \A r \in Everyone' : Contract!Passed[r.pid] = r.wakeup
      /\ LivePids = {r.pid : r \in Everyone'}
  BY <1>1, <1>5, <1>6, PassedIs
<1>8. WakeupConditions' = Contract!Passed
  BY <1>1, <1>7, PassedIs, Maps
<1>9. Contract!Decided(decision')
  BY <1>1, <1>6, <1>8, PassedIs DEF Contract!Decided, NextIsDue
<1>10. p.pid \in Contract!Awake
  BY <1>1, <1>3, AwakeIs, ElementsPids
<1>11. 1 \in Contract!Existing
  BY <1>1, Pid1Is
<1>12. Timeslice \in 1..Timeslice
  BY RoundRobinAssumption
<1> QED
  BY <1>1, <1>9, <1>10, <1>11, <1>12, ContractTerms DEF Contract!DecideRun

\* With nobody to run, the contract has nobody awake; what is left may sleep.
LEMMA NobodyAwake ==
  ASSUME Coherent, EachProcessOnce, NobodyToRun
  PROVE  /\ NextIsDue
         /\ 1 \in Contract!Existing
         /\ Contract!Awake = {}
<1>1. NextIsDue /\ Pid1Exists /\ running_process = {} /\ ReadyOnNext = << >>
  BY DEF NobodyToRun
<1>2. RunningPids = {} /\ Pids(ReadyOnNext) = {}
  BY <1>1 DEF RunningPids, Pids
<1> QED
  BY <1>1, <1>2, AwakeIs, Pid1Is

\* The times of the sleepers, in the list and in the contract.
LEMMA SleepersTimes ==
  ASSUME Coherent, EachProcessOnce, NextIsDue
  PROVE  /\ SleepingTimes(WaitingOnNext) \subseteq Nat
         /\ SleepingTimes(WaitingOnNext) =
              {Contract!Passed[pid].arg : pid \in Contract!Sleepers}
<1> DEFINE Asleeps == {q \in Elements(WaitingOnNext) : q.wakeup.kind = "Sleep"}
<1>1. WaitingOnNext \in Seq(WaitingPcbs)
  BY NextStep
<1>2. SleepingTimes(WaitingOnNext) = {q.wakeup.arg : q \in Asleeps}
  BY DEF SleepingTimes, Elements
<1>3. \A q \in Asleeps : q \in PcbType
  BY <1>1, ElementsType DEF WaitingPcbs
<1>4. SleepingTimes(WaitingOnNext) \subseteq Nat
  BY <1>2, <1>3 DEF PcbType, WakeupCondition
<1>5. Contract!Sleepers = {q.pid : q \in Asleeps}
  BY AwakeIs
<1>6. \A q \in Asleeps : Contract!Passed[q.pid] = q.wakeup
  BY PassedIs DEF Present
<1> HIDE DEF Asleeps
<1>7. {Contract!Passed[pid].arg : pid \in Contract!Sleepers} = {q.wakeup.arg : q \in Asleeps}
  BY <1>5, <1>6
<1> QED
  BY <1>2, <1>4, <1>7

LEMMA SleepDecisionMaps ==
  ASSUME Coherent, EachProcessOnce, Coherent', EachProcessOnce', NeverAborts',
         DecideSleep
  PROVE  Contract!DecideSleep
<1>1. PICK time \in FindSleepTime(WaitingOnNext) : PlanSleep(time)
  BY DEF DecideSleep
<1>2. /\ NextIsDue /\ 1 \in Contract!Existing /\ Contract!Awake = {}
  BY NobodyAwake DEF DecideSleep
<1>3. Contract!Decided(decision')
  BY <1>2, DecidedMaps DEF DecideSleep
<1>4. time # 0 /\ decision' = SleepFor(time)
  BY <1>1 DEF PlanSleep, NonZero, NeverAborts, Outcome
<1>5. /\ time \in SleepingTimes(WaitingOnNext)
      /\ \A other \in SleepingTimes(WaitingOnNext) : time <= other
  BY <1>1 DEF FindSleepTime
<1>6. PICK pid \in Contract!Sleepers : Contract!Passed[pid].arg = time
  BY <1>2, <1>5, SleepersTimes
<1>7. \A other \in Contract!Sleepers : Contract!Passed[pid].arg <= Contract!Passed[other].arg
  BY <1>2, <1>5, <1>6, SleepersTimes
<1> QED
  BY <1>2, <1>3, <1>4, <1>6, <1>7, ContractTerms DEF Contract!DecideSleep

LEMMA DeadlockMaps ==
  ASSUME Coherent, EachProcessOnce, Coherent', EachProcessOnce', DecideDeadlock
  PROVE  Contract!DecideDeadlock
<1>1. /\ NextIsDue /\ 1 \in Contract!Existing /\ Contract!Awake = {}
  BY NobodyAwake DEF DecideDeadlock
<1>2. Contract!Decided(decision') /\ decision' = Outcome("Deadlock")
  BY <1>1, DecidedMaps DEF DecideDeadlock, Halt
<1>3. SleepingTimes(WaitingOnNext) = {}
  <2>1. FindSleepTime(WaitingOnNext) = {}
    BY DEF DecideDeadlock
  <2>2. SleepingTimes(WaitingOnNext) \subseteq Nat
    BY <1>1, SleepersTimes
  <2> QED
    BY <2>1, <2>2, LeastElement DEF FindSleepTime
<1>4. Contract!Sleepers = {}
  BY <1>1, <1>3, SleepersTimes
<1> QED
  BY <1>1, <1>2, <1>4, ContractTerms DEF Contract!DecideDeadlock

-----------------------------------------------------------------------------
(* The refinement. *)

LEMMA InitMaps == Init => Contract!Init
<1> SUFFICES ASSUME Init PROVE Contract!Init
  OBVIOUS
<1>1. Coherent /\ EachProcessOnce /\ Everyone = {}
  BY InitCoherent, RoundRobinAssumption
     DEF Init, EachProcessOnce, RunningPids, ReadyPids, WaitingPids, LivePids, Pids,
         PidsDiffer, Everyone, Elements
<1>2. LivePids = {}
  BY <1>1, Conditions
<1>3. WakeupConditions = [pid \in {} |-> NoWakeup]
  BY <1>2 DEF WakeupConditions
<1>4. ReadyInWaiting = {}
  BY <1>1, WokenIfNoWakeup DEF ReadyInWaiting, Everyone, Coherent
<1> QED
  BY <1>3, <1>4, ContractTerms DEF Init, Contract!Init

LEMMA StopMaps ==
  ASSUME Coherent, EachProcessOnce, Coherent', EachProcessOnce', Stop
  PROVE  Contract!Stop
<1>1. CASE Start
  BY <1>1, StartMaps DEF Contract!Stop
<1>2. CASE Expired
  BY <1>2, ExpiredMaps DEF Contract!Stop
<1>3. CASE \E remaining \in Remaining :
             \/ Fork(remaining)
             \/ Exit(remaining)
             \/ \E event \in Events : Signal(event, remaining) \/ Wait(event, remaining)
             \/ \E time \in SleepTimes : Sleep(time, remaining)
  <2>1. PICK remaining \in Remaining :
             \/ Fork(remaining)
             \/ Exit(remaining)
             \/ \E event \in Events : Signal(event, remaining) \/ Wait(event, remaining)
             \/ \E time \in SleepTimes : Sleep(time, remaining)
    BY <1>3
  <2>2. decision.kind = "Run"
    BY <2>1 DEF Fork, Exit, Signal, Wait, Sleep
  <2>3. remaining \in Contract!Remaining
    BY <2>2, StopFrom DEF Coherent, DecisionMatchesState
  <2>4. CASE Fork(remaining)
    BY <2>3, <2>4, ForkMaps DEF Contract!Stop
  <2>5. CASE Exit(remaining)
    BY <2>3, <2>5, ExitMaps DEF Contract!Stop
  <2>6. ASSUME NEW event \in Events, Signal(event, remaining) PROVE Contract!Stop
    BY <2>3, <2>6, SignalMaps DEF Contract!Stop
  <2>7. ASSUME NEW event \in Events, Wait(event, remaining) PROVE Contract!Stop
    BY <2>3, <2>7, WaitMaps DEF Contract!Stop
  <2>8. ASSUME NEW time \in SleepTimes, Sleep(time, remaining) PROVE Contract!Stop
    BY <2>3, <2>8, SleepMaps DEF Contract!Stop
  <2> QED
    BY <2>1, <2>4, <2>5, <2>6, <2>7, <2>8
<1> QED
  BY <1>1, <1>2, <1>3 DEF Stop

LEMMA NextDecisionMaps ==
  ASSUME Coherent, EachProcessOnce, Coherent', EachProcessOnce', NeverAborts',
         NextDecision
  PROVE  Contract!NextDecision
BY DoneMaps, PanicMaps, ContinueMaps, DispatchMaps, SleepDecisionMaps, DeadlockMaps
   DEF NextDecision, Contract!NextDecision

\* A step that changes nothing changes nothing that the contract sees.
LEMMA StutterMaps ==
  ASSUME UNCHANGED vars
  PROVE  UNCHANGED Contract!vars
BY DEF vars, Contract!vars, WakeupConditions, WakeupOf, LivePids, Everyone,
       RunningPids, ReadyPids, WaitingPids, ReadyInWaiting

(***************************************************************************)
(* Up to an exit(-1), for every timeslice and any events and sleep times,  *)
(* every call of round robin is a step of the contract: nobody is lost or  *)
(* made up, a signal wakes all that wait for its event, a sleep ends       *)
(* neither early nor late (but for those Sleep and Wait overlook), and     *)
(* each decision is the one the processes warrant.                         *)
(***************************************************************************)
THEOREM ImplementsUntilAbort == Spec /\ []NeverAborts => ImplementsScheduler
<1>1. Init => Contract!Init
  BY InitMaps
<1>2. /\ Coherent /\ EachProcessOnce /\ NeverAborts
      /\ (Coherent /\ EachProcessOnce /\ NeverAborts)'
      /\ [Next]_vars
      => [Contract!Next]_Contract!vars
  <2> SUFFICES ASSUME Coherent, EachProcessOnce, Coherent', EachProcessOnce',
                      NeverAborts', [Next]_vars
               PROVE  Contract!Next \/ UNCHANGED Contract!vars
    OBVIOUS
  <2>1. CASE Stop
    BY <2>1, StopMaps DEF Contract!Next
  <2>2. CASE NextDecision
    BY <2>2, NextDecisionMaps DEF Contract!Next
  <2>3. CASE Halted \/ UNCHANGED vars
    BY <2>3, StutterMaps DEF Halted
  <2> QED
    BY <2>1, <2>2, <2>3 DEF Next
<1> QED
  BY <1>1, <1>2, Coherence, ProcessOnce, PTL DEF Spec, ImplementsScheduler, Contract!Spec

(***************************************************************************)
(* And there is no exit(-1) if the minimum remaining timeslice is not 0 and*)
(* nobody sleeps for 0: then round robin implements Scheduler.             *)
(***************************************************************************)
THEOREM Refinement ==
  ASSUME PositiveTimes
  PROVE  Spec => ImplementsScheduler
BY ImplementsUntilAbort, NoAbort, PTL

-----------------------------------------------------------------------------
(* The sum of the times of a set of processes.  It is defined in the       *)
(* library by a recursive function that takes the elements in some order.  *)

\* `sum' is that function, for the processes S and their timings t.
SumsUp(sum, t, S) ==
  sum = [s \in SUBSET S |-> IF s = {} THEN 0
                            ELSE LET x == CHOOSE x \in s : TRUE
                                 IN  Busy(t[x]) + sum[s \ {x}]]

SumOf(t, S) == (CHOOSE sum : SumsUp(sum, t, S))[S]

\* What the function says of one set.
LEMMA SumsUpAt ==
  ASSUME NEW sum, NEW t, NEW S, SumsUp(sum, t, S), NEW s \in SUBSET S
  PROVE  /\ s = {} => sum[s] = 0
         /\ s # {} => \E x \in s : /\ x = CHOOSE y \in s : TRUE
                                   /\ sum[s] = Busy(t[x]) + sum[s \ {x}]
<1> DEFINE first == CHOOSE x \in s : TRUE
           F == [r \in SUBSET S |-> IF r = {} THEN 0
                                    ELSE LET x == CHOOSE x \in r : TRUE
                                         IN  Busy(t[x]) + sum[r \ {x}]]
<1>1. sum = F
  BY DEF SumsUp
<1>2. F[s] = IF s = {} THEN 0 ELSE Busy(t[first]) + sum[s \ {first}]
  OBVIOUS
<1>3. s # {} => first \in s
  OBVIOUS
<1> HIDE DEF F, first
<1>4. sum[s] = IF s = {} THEN 0 ELSE Busy(t[first]) + sum[s \ {first}]
  BY <1>1, <1>2
<1> QED
  BY <1>3, <1>4 DEF first

\* There is one, for a finite set: by induction on the size of its subsets.
LEMMA SumExists ==
  ASSUME NEW t, NEW S, IsFiniteSet(S), \A x \in S : Busy(t[x]) \in Nat
  PROVE  \E sum \in [SUBSET S -> Nat] : SumsUp(sum, t, S)
<1> DEFINE first(s) == CHOOSE x \in s : TRUE
           Step(sum, s) == IF s = {} THEN 0 ELSE Busy(t[first(s)]) + sum[s \ {first(s)}]
           UpTo(n) == {s \in SUBSET S : Cardinality(s) <= n}
           T == {n \in Nat : \E sum \in [SUBSET S -> Nat] :
                               \A s \in UpTo(n) : sum[s] = Step(sum, s)}
<1>1. \A s \in SUBSET S : /\ IsFiniteSet(s) /\ Cardinality(s) \in Nat
                          /\ Cardinality(s) <= Cardinality(S)
                          /\ Cardinality(s) = 0 <=> s = {}
                          /\ s # {} => /\ first(s) \in s
                                       /\ s \ {first(s)} \in SUBSET S
                                       /\ Cardinality(s \ {first(s)}) = Cardinality(s) - 1
  <2> SUFFICES ASSUME NEW s \in SUBSET S
               PROVE  /\ IsFiniteSet(s) /\ Cardinality(s) \in Nat
                      /\ Cardinality(s) <= Cardinality(S)
                      /\ Cardinality(s) = 0 <=> s = {}
                      /\ s # {} => /\ first(s) \in s
                                   /\ s \ {first(s)} \in SUBSET S
                                   /\ Cardinality(s \ {first(s)}) = Cardinality(s) - 1
    OBVIOUS
  <2>1. IsFiniteSet(s) /\ Cardinality(s) \in Nat /\ Cardinality(s) <= Cardinality(S)
    BY FS_Subset, FS_CardinalityType
  <2>2. Cardinality(s) = 0 <=> s = {}
    BY <2>1, FS_EmptySet
  <2>3. s # {} => first(s) \in s
    OBVIOUS
  <2> HIDE DEF first
  <2>4. s # {} => Cardinality(s \ {first(s)}) = Cardinality(s) - 1
    BY <2>1, <2>3, FS_RemoveElement
  <2> QED
    BY <2>1, <2>2, <2>3, <2>4
<1> HIDE DEF first
<1>2. 0 \in T
  <2> DEFINE zero == [s \in SUBSET S |-> 0]
  <2>1. ASSUME NEW s \in UpTo(0) PROVE s = {}
    <3>1. s \in SUBSET S /\ Cardinality(s) <= 0
      OBVIOUS
    <3>2. Cardinality(s) \in Nat /\ (Cardinality(s) = 0 <=> s = {})
      BY <1>1, <3>1
    <3> QED
      BY <3>1, <3>2
  <2>2. zero \in [SUBSET S -> Nat] /\ \A s \in UpTo(0) : zero[s] = Step(zero, s)
    BY <2>1
  <2> QED
    BY <2>2
<1>3. ASSUME NEW n \in Nat, n \in T PROVE n + 1 \in T
  <2>1. PICK sum \in [SUBSET S -> Nat] : \A s \in UpTo(n) : sum[s] = Step(sum, s)
    BY <1>3
  <2> DEFINE more == [s \in SUBSET S |-> Step(sum, s)]
  <2>2. \A s \in SUBSET S : Step(sum, s) \in Nat
    <3> SUFFICES ASSUME NEW s \in SUBSET S PROVE Step(sum, s) \in Nat
      OBVIOUS
    <3>1. CASE s = {}
      BY <3>1
    <3>2. CASE s # {}
      <4>1. first(s) \in S /\ s \ {first(s)} \in SUBSET S
        BY <1>1, <3>2
      <4>2. Busy(t[first(s)]) \in Nat /\ sum[s \ {first(s)}] \in Nat
        BY <4>1
      <4> QED
        BY <3>2, <4>2
    <3> QED
      BY <3>1, <3>2
  <2>3. more \in [SUBSET S -> Nat]
    BY <2>2
  <2>4. ASSUME NEW s \in UpTo(n) PROVE more[s] = sum[s]
    BY <2>1
  <2>5. ASSUME NEW s \in UpTo(n + 1) PROVE more[s] = Step(more, s)
    <3>1. CASE s = {}
      BY <3>1
    <3>2. CASE s # {}
      <4>1. s \ {first(s)} \in UpTo(n)
        BY <1>1, <3>2
      <4>2. more[s \ {first(s)}] = sum[s \ {first(s)}]
        BY <2>4, <4>1
      <4> QED
        BY <3>2, <4>2
    <3> QED
      BY <3>1, <3>2
  <2> HIDE DEF more, Step, UpTo
  <2> QED
    BY <2>3, <2>5
<1>4. Cardinality(S) \in Nat
  BY FS_CardinalityType
<1> HIDE DEF T
<1>5. Cardinality(S) \in T
  BY <1>2, <1>3, <1>4, InductionUpTo
<1>6. PICK sum \in [SUBSET S -> Nat] : \A s \in UpTo(Cardinality(S)) : sum[s] = Step(sum, s)
  BY <1>5 DEF T
<1>7. \A s \in SUBSET S : sum[s] = Step(sum, s)
  BY <1>1, <1>6
<1>8. sum = [s \in SUBSET S |-> Step(sum, s)]
  <2> HIDE DEF Step
  <2> QED
    BY <1>7
<1>9. SumsUp(sum, t, S)
  BY <1>8, Zenon DEF SumsUp, first
<1> QED
  BY <1>9

\* It gives the same for the same times, whatever larger set it is defined for.
LEMMA SumUnique ==
  ASSUME NEW t, NEW u, NEW S, NEW R, NEW sum, SumsUp(sum, t, S), NEW other, SumsUp(other, u, R),
         NEW E, IsFiniteSet(E), E \subseteq S, E \subseteq R,
         \A x \in E : Busy(t[x]) = Busy(u[x])
  PROVE  sum[E] = other[E]
<1> DEFINE T == {n \in Nat : \A s \in SUBSET E : Cardinality(s) <= n => sum[s] = other[s]}
<1>1. \A s \in SUBSET E : IsFiniteSet(s) /\ Cardinality(s) \in Nat /\ (Cardinality(s) = 0 <=> s = {})
  BY FS_Subset, FS_CardinalityType, FS_EmptySet
<1>2. 0 \in T
  <2>1. ASSUME NEW s \in SUBSET E, Cardinality(s) <= 0 PROVE sum[s] = other[s]
    <3>1. s = {}
      BY <1>1, <2>1
    <3> QED
      BY <3>1, SumsUpAt
  <2> QED
    BY <2>1
<1>3. ASSUME NEW n \in Nat, n \in T PROVE n + 1 \in T
  <2>1. ASSUME NEW s \in SUBSET E, Cardinality(s) <= n + 1 PROVE sum[s] = other[s]
    <3>1. CASE s = {}
      BY <3>1, SumsUpAt
    <3>2. CASE s # {}
      <4>1. PICK x \in s : /\ x = CHOOSE y \in s : TRUE
                           /\ sum[s] = Busy(t[x]) + sum[s \ {x}]
        BY <3>2, SumsUpAt
      <4>2. other[s] = Busy(u[x]) + other[s \ {x}]
        <5>1. s \in SUBSET R
          OBVIOUS
        <5>2. PICK z \in s : /\ z = CHOOSE y \in s : TRUE
                             /\ other[s] = Busy(u[z]) + other[s \ {z}]
          BY <3>2, <5>1, SumsUpAt
        <5> QED
          BY <4>1, <5>2
      <4>3. Cardinality(s \ {x}) <= n
        BY <1>1, <2>1, FS_RemoveElement
      <4>4. sum[s \ {x}] = other[s \ {x}]
        BY <1>3, <4>3
      <4> QED
        BY <4>1, <4>2, <4>4
    <3> QED
      BY <3>1, <3>2
  <2> QED
    BY <2>1
<1>4. Cardinality(E) \in Nat
  BY <1>1
<1> HIDE DEF T
<1>5. Cardinality(E) \in T
  BY <1>2, <1>3, <1>4, InductionUpTo
<1> QED
  BY <1>4, <1>5 DEF T

TakesAny(sum, t, S) == \A x \in S : sum[S] = Busy(t[x]) + sum[S \ {x}]

\* Any of the elements may be taken first.
LEMMA SumTakesAny ==
  ASSUME NEW t, NEW S, IsFiniteSet(S), \A x \in S : Busy(t[x]) \in Nat,
         NEW sum, sum \in [SUBSET S -> Nat], SumsUp(sum, t, S)
  PROVE  TakesAny(sum, t, S)
<1> DEFINE Takes(s) == \A x \in s : sum[s] = Busy(t[x]) + sum[s \ {x}]
           T == {n \in Nat : \A s \in SUBSET S : Cardinality(s) <= n => Takes(s)}
<1>1. \A s \in SUBSET S : IsFiniteSet(s) /\ Cardinality(s) \in Nat /\ (Cardinality(s) = 0 <=> s = {})
  BY FS_Subset, FS_CardinalityType, FS_EmptySet
<1>2. 0 \in T
  <2>1. ASSUME NEW s \in SUBSET S, Cardinality(s) <= 0 PROVE Takes(s)
    <3>1. s = {}
      BY <1>1, <2>1
    <3> QED
      BY <3>1
  <2> QED
    BY <2>1
<1>3. ASSUME NEW n \in Nat, n \in T PROVE n + 1 \in T
  <2>1. ASSUME NEW s \in SUBSET S, Cardinality(s) <= n + 1, NEW x \in s
        PROVE  sum[s] = Busy(t[x]) + sum[s \ {x}]
    <3>1. PICK c \in s : /\ c = CHOOSE y \in s : TRUE
                         /\ sum[s] = Busy(t[c]) + sum[s \ {c}]
      BY SumsUpAt
    <3>2. CASE x = c
      BY <3>1, <3>2
    <3>3. CASE x # c
      <4>1. Cardinality(s \ {x}) <= n /\ Cardinality(s \ {c}) <= n
        BY <1>1, <2>1, FS_RemoveElement
      <4>2. Takes(s \ {x}) /\ Takes(s \ {c})
        BY <1>3, <4>1
      <4>3. x \in s \ {c} /\ c \in s \ {x}
        BY <3>3
      <4>4. /\ sum[s \ {c}] = Busy(t[x]) + sum[(s \ {c}) \ {x}]
            /\ sum[s \ {x}] = Busy(t[c]) + sum[(s \ {x}) \ {c}]
        BY <4>2, <4>3
      <4> DEFINE rest == sum[(s \ {x}) \ {c}]
      <4>5. (s \ {c}) \ {x} = (s \ {x}) \ {c}
        OBVIOUS
      <4>6. /\ sum[s] = Busy(t[c]) + (Busy(t[x]) + rest)
            /\ sum[s \ {x}] = Busy(t[c]) + rest
        BY <3>1, <4>4, <4>5
      <4>7. Busy(t[x]) \in Nat /\ Busy(t[c]) \in Nat /\ rest \in Nat
        OBVIOUS
      <4> HIDE DEF rest
      <4> QED
        BY <4>6, <4>7
    <3> QED
      BY <3>2, <3>3
  <2>2. ASSUME NEW s \in SUBSET S, Cardinality(s) <= n + 1 PROVE Takes(s)
    BY <2>1, <2>2
  <2> QED
    BY <2>2
<1>4. Cardinality(S) \in Nat
  BY <1>1
<1> HIDE DEF T
<1>5. \A i \in 0..(Cardinality(S) - 1) : i \in T => i + 1 \in T
  BY <1>3, <1>4
<1>6. Cardinality(S) \in T
  BY <1>2, <1>4, <1>5, InductionUpTo
<1> QED
  BY <1>4, <1>6 DEF T, TakesAny

(***************************************************************************)
(* What a sum is, for finite sets of any size: nothing is counted twice    *)
(* and nothing is left out, in whatever order the elements are taken.      *)
(***************************************************************************)
LEMMA Sums ==
  ASSUME NEW t, NEW S, IsFiniteSet(S), \A x \in S : Busy(t[x]) \in Nat
  PROVE  /\ SumOf(t, S) \in Nat
         /\ S = {} => SumOf(t, S) = 0
         /\ \A x \in S : SumOf(t, S) = Busy(t[x]) + SumOf(t, S \ {x})
<1>1. PICK sum \in [SUBSET S -> Nat] : SumsUp(sum, t, S)
  BY SumExists
<1>2. \A E \in SUBSET S : SumOf(t, E) = sum[E]
  <2> SUFFICES ASSUME NEW E \in SUBSET S PROVE SumOf(t, E) = sum[E]
    OBVIOUS
  <2> DEFINE chosen == CHOOSE f : SumsUp(f, t, E)
  <2>1. IsFiniteSet(E) /\ \A x \in E : Busy(t[x]) \in Nat
    BY FS_Subset
  <2>2. SumsUp(chosen, t, E)
    BY <2>1, SumExists
  <2>3. SumOf(t, E) = chosen[E]
    BY DEF SumOf
  <2> HIDE DEF chosen
  <2> QED
    BY <1>1, <2>1, <2>2, <2>3, SumUnique
<1>3. SumOf(t, S) \in Nat
  BY <1>2
<1>4. S = {} => SumOf(t, S) = 0
  BY <1>1, <1>2, SumsUpAt
<1>5. TakesAny(sum, t, S)
  BY <1>1, SumTakesAny
<1>6. ASSUME NEW x \in S PROVE SumOf(t, S) = Busy(t[x]) + SumOf(t, S \ {x})
  <2>1. sum[S] = Busy(t[x]) + sum[S \ {x}]
    BY <1>5 DEF TakesAny
  <2>2. SumOf(t, S) = sum[S] /\ SumOf(t, S \ {x}) = sum[S \ {x}]
    BY <1>2
  <2> QED
    BY <2>1, <2>2
<1> QED
  BY <1>3, <1>4, <1>6

\* The sum depends on the times of its elements alone.
LEMMA SumSame ==
  ASSUME NEW t, NEW u, NEW S, IsFiniteSet(S), \A x \in S : Busy(t[x]) \in Nat,
         \A x \in S : Busy(t[x]) = Busy(u[x])
  PROVE  SumOf(t, S) = SumOf(u, S)
<1> DEFINE one == CHOOSE f : SumsUp(f, t, S)
           two == CHOOSE f : SumsUp(f, u, S)
<1>1. SumsUp(one, t, S) /\ SumsUp(two, u, S)
  BY SumExists
<1>2. SumOf(t, S) = one[S] /\ SumOf(u, S) = two[S]
  BY DEF SumOf
<1> HIDE DEF one, two
<1> QED
  BY <1>1, <1>2, SumUnique

-----------------------------------------------------------------------------
(* The timings. *)

(***************************************************************************)
(* Round robin that counts the time of its processes is round robin: all   *)
(* that is proved of the calls is true of them with the timings.           *)
(***************************************************************************)
THEOREM TimedIsRoundRobin == TimedSpec => Spec
<1>1. TimedInit => Init
  BY DEF TimedInit
<1>2. [TimedNext]_timedVars => [Next]_vars
  BY DEF TimedNext, TimedStop, TimedNextDecision, TimedHalted, timedVars, SystemCall,
         Next, Stop
<1> QED
  BY <1>1, <1>2, PTL DEF TimedSpec, Spec

\* The timings of a PCB.
Timings == [total : Nat, syscalls : Nat, execution : Nat]

TimingsCoherent ==
  /\ clock \in Nat
  /\ gone \in Nat
  /\ \A pid \in LivePids : timings[pid] \in Timings /\ born[pid] \in Nat

\* What a stop counts, and whom.
LEMMA StopCounts ==
  ASSUME Coherent, TimedStop
  PROVE  /\ Stop
         /\ \E time, calls \in Nat :
              /\ IncrementTimings(time, calls)
              /\ calls <= time
              /\ decision.kind = "Start" => time = 0
<1>1. remaining_time \in Nat
  BY RoundRobinAssumption DEF Coherent
<1>2. CASE Start /\ IncrementTimings(0, 0)
  BY <1>2 DEF Stop
<1>3. CASE Expired /\ IncrementTimings(remaining_time, 0)
  BY <1>1, <1>3 DEF Stop, Expired
<1>4. ASSUME NEW remaining \in Remaining, SystemCall(remaining),
             IncrementTimings(remaining_time - remaining, 1)
      PROVE  /\ Stop
             /\ \E time, calls \in Nat :
                  /\ IncrementTimings(time, calls)
                  /\ calls <= time
                  /\ decision.kind = "Start" => time = 0
  <2>1. decision.kind = "Run" /\ Stop
    BY <1>4 DEF SystemCall, Stop, Fork, Exit, Signal, Wait, Sleep
  <2>2. remaining_time - remaining \in Nat /\ 1 <= remaining_time - remaining
    BY <1>1 DEF Remaining
  <2> HIDE DEF IncrementTimings
  <2> QED
    BY <1>4, <2>1, <2>2
<1> QED
  BY <1>2, <1>3, <1>4 DEF TimedStop

\* Who is there after a stop.
LEMMA StopLive ==
  ASSUME Coherent, EachProcessOnce, Coherent', EachProcessOnce', Stop
  PROVE  \/ /\ decision.kind = "Start" /\ LivePids = {} /\ RunningPids = {}
            /\ LivePids' = {highest_pid + 1}
         \/ \E pid \in LivePids :
              /\ decision.kind = "Run" /\ RunningPids = {pid} /\ decision.pid = pid
              /\ LivePids' \in {LivePids, LivePids \cup {highest_pid + 1}, LivePids \ {pid}}
<1>1. Contract!Existing = LivePids /\ DOMAIN WakeupConditions' = LivePids'
  BY DEF Contract!Existing, WakeupConditions
<1>2. CASE Start
  <2>1. LivePids' = {highest_pid + 1}
    BY <1>1, <1>2, StartMaps DEF Contract!Start
  <2>2. LivePids = {} /\ RunningPids = {}
    BY <1>2 DEF Start, Coherent, Nothing, LivePids, RunningPids, ReadyPids, WaitingPids, Pids
  <2> QED
    BY <1>2, <2>1, <2>2 DEF Start
<1>3. CASE decision.kind = "Run"
  <2>1. PICK p \in running_process : decision = RunFor(p.pid, remaining_time)
    BY <1>3 DEF Coherent, DecisionMatchesState
  <2>2. RunningPids = {p.pid} /\ p.pid \in LivePids
    BY DEF Coherent, RunningPids, LivePids
  <2>3. decision.pid = p.pid
    BY <2>1 DEF RunFor
  <2>4. Contract!Stop
    BY StopMaps
  <2>5. LivePids' \in {LivePids, LivePids \cup {highest_pid + 1}, LivePids \ {p.pid}}
    BY <1>1, <1>3, <2>3, <2>4
       DEF Contract!Stop, Contract!Start, Contract!Expired, Contract!Fork, Contract!Signal,
           Contract!Sleep, Contract!Wait, Contract!Block, Contract!Exit, Contract!After
  <2> QED
    BY <1>3, <2>2, <2>3, <2>5
<1> QED
  BY <1>2, <1>3 DEF Stop, Expired, Fork, Exit, Signal, Wait, Sleep

\* next() neither makes nor drops a process.
LEMMA NextLive ==
  ASSUME Coherent, EachProcessOnce, Coherent', EachProcessOnce', NextDecision
  PROVE  LivePids' = LivePids
<1>1. NextIsDue
  BY DEF NextDecision, DecideDone, DecidePanic, DecideContinue, DecideDispatch, DecideSleep,
         DecideDeadlock, NobodyToRun
<1>2. CASE DecideDispatch
  <2>1. \E pid, time : Contract!Decided(RunFor(pid, time))
    BY <1>2, DispatchMaps, ContractTerms DEF Contract!DecideRun
  <2> QED
    BY <1>1, <2>1, PassedIs DEF Contract!Decided, WakeupConditions
<1>3. CASE ~ DecideDispatch
  <2>1. Contract!Decided(decision')
    BY <1>1, <1>3, DecidedMaps
       DEF NextDecision, DecideDone, DecidePanic, DecideContinue, DecideSleep,
           DecideDeadlock, Halt
  <2> QED
    BY <1>1, <2>1, PassedIs DEF Contract!Decided, WakeupConditions
<1> QED
  BY <1>2, <1>3

\* Nobody else is there, when the processor sleeps, to be left out of the count.
LEMMA SleepTime ==
  ASSUME Coherent
  PROVE  sleep_time \in Nat /\ (sleep_time # 0 => LivePids = WaitingPids)
BY DEF Coherent, DecisionMatchesState, LivePids, RunningPids, ReadyPids, Pids

\* The times of a process that was ready or waiting, after a call.
LEMMA OtherIncrements ==
  ASSUME NEW t \in Timings, NEW time \in Nat
  PROVE  /\ Incremented(t, time, 0, 0) \in Timings
         /\ Incremented(t, time, 0, 0).total = t.total + time
         /\ Busy(Incremented(t, time, 0, 0)) = Busy(t)
         /\ Busy(t) \in Nat
BY DEF Timings, Incremented, Busy

\* The times of the process that made it.
LEMMA StoppedIncrements ==
  ASSUME NEW t \in Timings, NEW time \in Nat, NEW calls \in Nat, calls <= time
  PROVE  /\ OfStopped(t, time, calls) \in Timings
         /\ OfStopped(t, time, calls).total = t.total + time
         /\ Busy(OfStopped(t, time, calls)) = Busy(t) + time
BY DEF Timings, OfStopped, Incremented, Busy

\* A new process has used no time.
LEMMA NoIncrements == NoTimings \in Timings /\ NoTimings.total = 0 /\ Busy(NoTimings) = 0
BY DEF NoTimings, Timings, Busy

\* The timings after a stop, for the stopped process, the others and a new one.
LEMMA StopTimings ==
  ASSUME TimingsCoherent, NEW time \in Nat, NEW calls \in Nat, calls <= time,
         IncrementTimings(time, calls), NEW pid \in LivePids'
  PROVE  /\ timings'[pid] \in Timings /\ born'[pid] \in Nat
         /\ pid \in LivePids =>
              /\ timings'[pid].total = timings[pid].total + time
              /\ born'[pid] = born[pid]
              /\ Busy(timings'[pid]) = Busy(timings[pid])
                                         + (IF pid \in RunningPids THEN time ELSE 0)
         /\ pid \notin LivePids =>
              timings'[pid].total = 0 /\ born'[pid] = clock' /\ Busy(timings'[pid]) = 0
<1>1. clock' = clock + time /\ clock \in Nat
  BY DEF IncrementTimings, TimingsCoherent
<1>2. born'[pid] = IF pid \in LivePids THEN born[pid] ELSE clock + time
  BY DEF IncrementTimings
<1>3. timings'[pid] = IF pid \in RunningPids THEN OfStopped(timings[pid], time, calls)
                      ELSE IF pid \in LivePids THEN Incremented(timings[pid], time, 0, 0)
                      ELSE NoTimings
  BY DEF IncrementTimings, OfOther
<1>4. RunningPids \subseteq LivePids
  BY DEF LivePids
<1>5. CASE pid \in LivePids
  <2> DEFINE t == timings[pid]
             u == timings'[pid]
  <2>1. t \in Timings /\ born[pid] \in Nat /\ born'[pid] = born[pid]
    BY <1>2, <1>5 DEF TimingsCoherent
  <2>2. u = IF pid \in RunningPids THEN OfStopped(t, time, calls)
            ELSE Incremented(t, time, 0, 0)
    BY <1>3, <1>5
  <2> HIDE DEF t, u
  <2>3. /\ u \in Timings /\ u.total = t.total + time
        /\ Busy(u) = Busy(t) + (IF pid \in RunningPids THEN time ELSE 0)
    <3>1. CASE pid \in RunningPids
      <4>1. u = OfStopped(t, time, calls)
        BY <2>2, <3>1
      <4>2. u \in Timings /\ u.total = t.total + time /\ Busy(u) = Busy(t) + time
        BY <2>1, <4>1, StoppedIncrements
      <4> QED
        BY <3>1, <4>2
    <3>2. CASE pid \notin RunningPids
      <4>1. u = Incremented(t, time, 0, 0)
        BY <2>2, <3>2
      <4>2. /\ u \in Timings /\ u.total = t.total + time
            /\ Busy(t) \in Nat /\ Busy(u) = Busy(t)
        BY <2>1, <4>1, OtherIncrements
      <4>3. Busy(u) = Busy(t) + 0
        BY <4>2
      <4> QED
        BY <3>2, <4>2, <4>3
    <3> QED
      BY <3>1, <3>2
  <2> QED
    BY <1>5, <2>1, <2>3 DEF t, u
<1>6. CASE pid \notin LivePids
  <2>1. timings'[pid] = NoTimings
    BY <1>3, <1>4, <1>6
  <2>2. born'[pid] = clock' /\ clock' \in Nat
    BY <1>1, <1>2, <1>6
  <2> QED
    BY <1>6, <2>1, <2>2, NoIncrements
<1> QED
  BY <1>5, <1>6

\* The timings after a next().
LEMMA NextTimings ==
  ASSUME Coherent, TimingsCoherent, TimedNextDecision, LivePids' = LivePids,
         NEW pid \in LivePids
  PROVE  /\ timings'[pid] \in Timings /\ born'[pid] \in Nat
         /\ timings'[pid].total = timings[pid].total + sleep_time
         /\ born'[pid] = born[pid]
         /\ Busy(timings'[pid]) = Busy(timings[pid])
<1>1. timings[pid] \in Timings /\ born[pid] \in Nat
  BY DEF TimingsCoherent
<1>2. born' = born
  BY DEF TimedNextDecision
<1>3. timings'[pid] = IF pid \in WaitingPids THEN Incremented(timings[pid], sleep_time, 0, 0)
                      ELSE timings[pid]
  BY DEF TimedNextDecision
<1>4. CASE pid \in WaitingPids
  <2> DEFINE t == timings[pid]
             u == timings'[pid]
  <2>1. t \in Timings /\ sleep_time \in Nat /\ u = Incremented(t, sleep_time, 0, 0)
    BY <1>1, <1>3, <1>4, SleepTime
  <2> HIDE DEF t, u
  <2>2. u \in Timings /\ u.total = t.total + sleep_time /\ Busy(u) = Busy(t)
    BY <2>1, OtherIncrements
  <2> QED
    BY <1>1, <1>2, <2>2 DEF t, u
<1>5. CASE pid \notin WaitingPids
  <2>1. sleep_time = 0 /\ timings[pid].total \in Nat
    BY <1>1, <1>5, SleepTime DEF Timings
  <2> QED
    BY <1>1, <1>2, <1>3, <1>5, <2>1
<1> QED
  BY <1>4, <1>5

\* What TimesAddUp says, with the sum as it is above.
TimesAreSummed == clock = gone + SumOf(timings, LivePids)

LEMMA AddedUp == TimesAddUp <=> TimesAreSummed
<1>1. MapThenSumSet(LAMBDA pid : Busy(timings[pid]), LivePids) = SumOf(timings, LivePids)
  BY Zenon DEF MapThenSumSet, MapThenFoldSet, SumOf, SumsUp
<1> QED
  BY <1>1 DEF TimesAddUp, TimesAreSummed

\* The processes are finitely many, and a fork gives a pid that is new.
LEMMA LiveFinite ==
  ASSUME Coherent, EachProcessOnce
  PROVE  IsFiniteSet(LivePids) /\ highest_pid + 1 \notin LivePids
<1>1. highest_pid \in Nat /\ LivePids \subseteq 1..highest_pid
  BY RoundRobinAssumption DEF Coherent, EachProcessOnce
<1>2. IsFiniteSet(1..highest_pid)
  BY <1>1, FS_Interval
<1>3. highest_pid + 1 \notin LivePids
  BY <1>1
<1> QED
  BY <1>1, <1>2, <1>3, FS_Subset

\* The times that all of some processes keep.
LEMMA KeptSum ==
  ASSUME NEW S, IsFiniteSet(S), \A pid \in S : Busy(timings[pid]) \in Nat,
         \A pid \in S : Busy(timings'[pid]) = Busy(timings[pid])
  PROVE  SumOf(timings', S) = SumOf(timings, S)
<1> DEFINE t == timings
           u == timings'
<1>1. /\ \A pid \in S : Busy(t[pid]) \in Nat
      /\ \A pid \in S : Busy(t[pid]) = Busy(u[pid])
  OBVIOUS
<1> HIDE DEF t, u
<1>2. SumOf(t, S) = SumOf(u, S)
  BY <1>1, SumSame
<1> QED
  BY <1>2 DEF t, u

\* The first call: nobody has used any time, and none has passed.
LEMMA StartSum ==
  ASSUME Coherent, EachProcessOnce, TimingsCoherent, TimesAreSummed,
         NEW calls \in Nat, calls <= 0, IncrementTimings(0, calls),
         LivePids = {}, RunningPids = {}, LivePids' = {highest_pid + 1}
  PROVE  TimesAreSummed'
<1> DEFINE first == highest_pid + 1
           u == timings'
<1>1. SumOf(timings, {}) = 0
  BY LiveFinite, Sums
<1>2. clock' = clock /\ gone' = gone /\ clock = gone /\ clock \in Nat /\ gone \in Nat
  BY <1>1 DEF TimesAreSummed, IncrementTimings, TimingsCoherent
<1>3. first \in LivePids' /\ first \notin LivePids
  OBVIOUS
<1>4. Busy(u[first]) = 0
  BY <1>3, StopTimings
<1>5. IsFiniteSet({first}) /\ IsFiniteSet({})
  BY FS_Singleton, FS_EmptySet
<1> HIDE DEF u, first
<1>6. SumOf(u, {}) = 0
  BY <1>5, Sums
<1>7. SumOf(u, {first}) = Busy(u[first]) + SumOf(u, {first} \ {first})
  BY <1>4, <1>5, Sums
<1>8. SumOf(u, {first}) = 0
  BY <1>4, <1>6, <1>7
<1> QED
  BY <1>2, <1>8 DEF TimesAreSummed, u, first

\* A stop of a running process, which stays, exits, or has a child.
LEMMA StopSum ==
  ASSUME Coherent, EachProcessOnce, TimingsCoherent, TimesAreSummed,
         NEW time \in Nat, NEW calls \in Nat, calls <= time, IncrementTimings(time, calls),
         NEW pid \in LivePids, RunningPids = {pid}, decision.pid = pid,
         LivePids' \in {LivePids, LivePids \cup {highest_pid + 1}, LivePids \ {pid}}
  PROVE  TimesAreSummed'
<1> DEFINE t == timings
           u == timings'
           Live == LivePids
           Others == LivePids \ {pid}
           child == highest_pid + 1
<1>1. /\ \A q \in Live : Busy(t[q]) \in Nat
      /\ IsFiniteSet(Live) /\ IsFiniteSet(Others) /\ child \notin Live
  BY LiveFinite, FS_Subset, OtherIncrements DEF TimingsCoherent
<1>2. \A q \in Others : Busy(u[q]) = Busy(t[q])
  BY <1>1, StopTimings
<1>3. SumOf(u, Others) = SumOf(t, Others)
  BY <1>1, <1>2, KeptSum
<1>4. /\ SumOf(t, Live) = Busy(t[pid]) + SumOf(t, Others)
      /\ SumOf(t, Others) \in Nat /\ Busy(t[pid]) \in Nat
  <2>1. pid \in Live /\ Others = Live \ {pid} /\ \A q \in Others : Busy(t[q]) \in Nat
    BY <1>1
  <2> HIDE DEF t, Live, Others
  <2> QED
    BY <1>1, <2>1, Sums
<1>5. /\ clock = gone + SumOf(t, Live) /\ clock' = clock + time
      /\ clock \in Nat /\ gone \in Nat
  BY DEF TimesAreSummed, IncrementTimings, TimingsCoherent
<1>6. CASE LivePids' = Others
  <2>1. gone' = gone + (Busy(t[pid]) + time)
    BY <1>6 DEF IncrementTimings
  <2>2. clock' = gone' + SumOf(u, Others)
    <3> HIDE DEF t, u, Live, Others
    <3> QED
      BY <1>3, <1>4, <1>5, <2>1
  <2> QED
    BY <1>6, <2>2 DEF TimesAreSummed
<1>7. CASE Live \subseteq LivePids'
  <2>1. gone' = gone
    BY <1>5, <1>7 DEF IncrementTimings
  <2>2. Busy(u[pid]) = Busy(t[pid]) + time
    BY <1>7, StopTimings
  <2>3. SumOf(u, Live) = Busy(u[pid]) + SumOf(u, Others)
    <3>1. pid \in Live /\ Others = Live \ {pid}
      OBVIOUS
    <3>2. \A q \in Live : Busy(u[q]) \in Nat
      BY <1>1, <1>2, <1>4, <2>2
    <3> HIDE DEF u, Live, Others
    <3> QED
      BY <1>1, <3>1, <3>2, Sums
  <2>4. clock' = gone' + SumOf(u, Live)
    <3> HIDE DEF t, u, Live, Others
    <3> QED
      BY <1>3, <1>4, <1>5, <2>1, <2>2, <2>3
  <2>5. CASE LivePids' = Live
    BY <2>4, <2>5 DEF TimesAreSummed
  <2>6. CASE LivePids' = Live \cup {child}
    <3> DEFINE all == Live \cup {child}
    <3>1. Busy(u[child]) = 0
      BY <1>1, <2>6, StopTimings
    <3>2. \A q \in all : Busy(u[q]) \in Nat
      BY <1>1, <1>2, <1>4, <2>2, <3>1
    <3>3. IsFiniteSet(all) /\ all \ {child} = Live
      BY <1>1, FS_AddElement
    <3>4. child \in all
      OBVIOUS
    <3>5. SumOf(u, Live) \in Nat
      <4>1. \A q \in Live : Busy(u[q]) \in Nat
        BY <3>2
      <4> HIDE DEF u, Live
      <4> QED
        BY <1>1, <4>1, Sums
    <3>6. LivePids' = all
      BY <2>6
    <3> HIDE DEF u, Live, all, child
    <3>7. SumOf(u, all) = Busy(u[child]) + SumOf(u, Live)
      BY <3>2, <3>3, <3>4, Sums
    <3>8. SumOf(u, all) = SumOf(u, Live)
      BY <3>1, <3>5, <3>7
    <3> QED
      BY <2>4, <3>6, <3>8 DEF TimesAreSummed, u
  <2>7. LivePids' \in {Live, Live \cup {child}}
    BY <1>7
  <2> QED
    BY <2>5, <2>6, <2>7
<1> QED
  BY <1>6, <1>7

\* A next().
LEMMA NextSum ==
  ASSUME Coherent, EachProcessOnce, TimingsCoherent, TimesAreSummed,
         TimedNextDecision, LivePids' = LivePids
  PROVE  TimesAreSummed'
<1>1. IsFiniteSet(LivePids) /\ \A pid \in LivePids : Busy(timings[pid]) \in Nat
  BY LiveFinite, OtherIncrements DEF TimingsCoherent
<1>2. \A pid \in LivePids : Busy(timings'[pid]) = Busy(timings[pid])
  BY NextTimings
<1>3. SumOf(timings', LivePids) = SumOf(timings, LivePids)
  BY <1>1, <1>2, KeptSum
<1>4. /\ clock' = clock + sleep_time /\ gone' = gone + sleep_time
      /\ clock = gone + SumOf(timings, LivePids)
      /\ sleep_time \in Nat /\ gone \in Nat
  BY SleepTime DEF TimedNextDecision, TimesAreSummed, TimingsCoherent
<1>5. SumOf(timings, LivePids) \in Nat
  <2> DEFINE t == timings
             Live == LivePids
  <2>1. IsFiniteSet(Live) /\ \A pid \in Live : Busy(t[pid]) \in Nat
    BY <1>1
  <2> HIDE DEF t, Live
  <2>2. SumOf(t, Live) \in Nat
    BY <2>1, Sums
  <2> QED
    BY <2>2 DEF t, Live
<1>6. clock' = gone' + SumOf(timings', LivePids)
  BY <1>3, <1>4, <1>5
<1> QED
  BY <1>6 DEF TimesAreSummed

\* The timings are consistent after a call, and stay exact and complete.
LEMMA TimedStopStep ==
  ASSUME Coherent, EachProcessOnce, Coherent', EachProcessOnce', TimingsCoherent, TimedStop
  PROVE  /\ TimingsCoherent'
         /\ TotalsAreExact => TotalsAreExact'
         /\ TimesAreSummed => TimesAreSummed'
<1>1. Stop
  BY StopCounts
<1>2. PICK time \in Nat, calls \in Nat :
        /\ IncrementTimings(time, calls)
        /\ calls <= time
        /\ decision.kind = "Start" => time = 0
  BY StopCounts
<1>3. clock' = clock + time /\ clock \in Nat /\ gone \in Nat
  BY <1>2 DEF IncrementTimings, TimingsCoherent
<1>4. TimingsCoherent'
  <2>1. gone' \in Nat
    <3>1. CASE RunningPids \subseteq LivePids'
      BY <1>2, <1>3, <3>1 DEF IncrementTimings
    <3>2. CASE ~ (RunningPids \subseteq LivePids')
      <4>1. decision.pid \in LivePids
        BY <1>1, <3>2, StopLive
      <4>2. Busy(timings[decision.pid]) \in Nat
        BY <1>2, <4>1, OtherIncrements DEF TimingsCoherent
      <4>3. gone' = gone + (Busy(timings[decision.pid]) + time)
        BY <1>2, <1>3, <3>2, <4>2 DEF IncrementTimings
      <4> QED
        BY <1>3, <4>2, <4>3
    <3> QED
      BY <3>1, <3>2
  <2>2. \A pid \in LivePids' : timings'[pid] \in Timings /\ born'[pid] \in Nat
    BY <1>2, StopTimings
  <2> QED
    BY <1>3, <2>1, <2>2 DEF TimingsCoherent
<1>5. ASSUME TotalsAreExact PROVE TotalsAreExact'
  <2>1. ASSUME NEW pid \in LivePids' PROVE timings'[pid].total = clock' - born'[pid]
    <3>1. CASE pid \in LivePids
      <4>1. /\ timings'[pid].total = timings[pid].total + time
            /\ born'[pid] = born[pid]
        BY <1>2, <3>1, StopTimings
      <4>2. timings[pid].total = clock - born[pid] /\ born[pid] \in Nat
        BY <1>5, <3>1 DEF TotalsAreExact, TimingsCoherent
      <4> QED
        BY <1>3, <4>1, <4>2
    <3>2. CASE pid \notin LivePids
      BY <1>2, <1>3, <3>2, StopTimings
    <3> QED
      BY <3>1, <3>2
  <2> QED
    BY <2>1 DEF TotalsAreExact
<1>6. ASSUME TimesAreSummed PROVE TimesAreSummed'
  <2>1. CASE decision.kind = "Start"
    <3>1. time = 0
      BY <1>2, <2>1
    <3>2. /\ LivePids = {} /\ RunningPids = {} /\ LivePids' = {highest_pid + 1}
      BY <1>1, <2>1, StopLive DEF LivePids
    <3> QED
      BY <1>2, <1>6, <3>1, <3>2, StartSum
  <2>2. ASSUME NEW pid \in LivePids, RunningPids = {pid}, decision.pid = pid,
               LivePids' \in {LivePids, LivePids \cup {highest_pid + 1}, LivePids \ {pid}}
        PROVE  TimesAreSummed'
    BY <1>2, <1>6, <2>2, StopSum
  <2> QED
    BY <1>1, <2>1, <2>2, StopLive
<1> QED
  BY <1>4, <1>5, <1>6

\* A next() keeps them so.
LEMMA TimedNextStep ==
  ASSUME Coherent, EachProcessOnce, Coherent', EachProcessOnce', TimingsCoherent,
         TimedNextDecision
  PROVE  /\ TimingsCoherent'
         /\ TotalsAreExact => TotalsAreExact'
         /\ TimesAreSummed => TimesAreSummed'
<1>1. LivePids' = LivePids
  BY NextLive DEF TimedNextDecision
<1>2. /\ clock' = clock + sleep_time /\ gone' = gone + sleep_time
      /\ sleep_time \in Nat /\ clock \in Nat /\ gone \in Nat
  BY SleepTime DEF TimedNextDecision, TimingsCoherent
<1>3. TimingsCoherent'
  BY <1>1, <1>2, NextTimings DEF TimingsCoherent
<1>4. ASSUME TotalsAreExact PROVE TotalsAreExact'
  <2>1. ASSUME NEW pid \in LivePids PROVE timings'[pid].total = clock' - born'[pid]
    <3>1. /\ timings'[pid].total = timings[pid].total + sleep_time
          /\ born'[pid] = born[pid]
      BY <1>1, NextTimings
    <3>2. timings[pid].total = clock - born[pid] /\ born[pid] \in Nat
      BY <1>4 DEF TotalsAreExact, TimingsCoherent
    <3> QED
      BY <1>2, <3>1, <3>2
  <2> QED
    BY <1>1, <2>1 DEF TotalsAreExact
<1> QED
  BY <1>1, <1>3, <1>4, NextSum

\* Before the first call no time has passed.
LEMMA TimedInitStep ==
  ASSUME TimedInit
  PROVE  TimingsCoherent /\ TotalsAreExact /\ TimesAreSummed
<1>1. LivePids = {} /\ clock = 0 /\ gone = 0
  BY DEF TimedInit, Init, LivePids, RunningPids, ReadyPids, WaitingPids, Pids
<1>2. IsFiniteSet({})
  BY FS_EmptySet
<1>3. SumOf(timings, {}) = 0
  BY <1>2, Sums
<1> QED
  BY <1>1, <1>3 DEF TimingsCoherent, TotalsAreExact, TimesAreSummed

\* Nothing changes when nothing does.
LEMMA TimedStutterStep ==
  ASSUME TimingsCoherent, UNCHANGED timedVars
  PROVE  /\ TimingsCoherent'
         /\ TotalsAreExact => TotalsAreExact'
         /\ TimesAreSummed => TimesAreSummed'
BY DEF timedVars, vars, TimingsCoherent, TotalsAreExact, TimesAreSummed, LivePids, RunningPids,
       ReadyPids, WaitingPids

\* The inductive invariant of the timings, on top of that of the processes.
TimingsInvariant == TimingsCoherent /\ TotalsAreExact /\ TimesAreSummed

LEMMA TimingsCoherence == TimedSpec => []TimingsInvariant
<1>1. TimedInit => TimingsInvariant
  BY TimedInitStep DEF TimingsInvariant
<1>2. /\ Coherent /\ EachProcessOnce /\ (Coherent /\ EachProcessOnce)'
      /\ TimingsInvariant /\ [TimedNext]_timedVars
      => TimingsInvariant'
  BY TimedStopStep, TimedNextStep, TimedStutterStep
     DEF TimingsInvariant, TimedNext, TimedHalted
<1> QED
  BY <1>1, <1>2, TimedIsRoundRobin, Coherence, ProcessOnce, PTL DEF TimedSpec

(***************************************************************************)
(* The total time of a process is the time since its fork, exactly, for    *)
(* every timeslice, events, sleep times and number of processes.           *)
(***************************************************************************)
THEOREM ExactTotals == TimedSpec => []TotalsAreExact
<1>1. TimingsInvariant => TotalsAreExact
  BY DEF TimingsInvariant
<1> QED
  BY <1>1, TimingsCoherence, PTL

(***************************************************************************)
(* And none of the time is lost or counted twice: what the processes have  *)
(* used, those that have exited used and nobody used is all that passed.   *)
(***************************************************************************)
THEOREM AllTimeIsCounted == TimedSpec => []TimesAddUp
<1>1. TimingsInvariant => TimesAddUp
  BY AddedUp DEF TimingsInvariant
<1> QED
  BY <1>1, TimingsCoherence, PTL

=============================================================================
