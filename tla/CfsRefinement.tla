---------------------------- MODULE CfsRefinement ----------------------------
(***************************************************************************)
(* The fair scheduler implements the strict contract of Scheduler, the one *)
(* that overlooks nobody, for every cpu_time and minimum, any events, sleep*)
(* times and number of processes.                                          *)
(*                                                                         *)
(* As for the other two schedulers only the set of all PCBs matters, here  *)
(* Live: by Conditions the mapped `wakeup' gives every process the         *)
(* condition in its PCB.  What is different is that a Ready process is     *)
(* nowhere but in the ready list, so that the processes that wait for      *)
(* nothing and the awake ones are the same.                                *)
(***************************************************************************)
EXTENDS CfsProofs

-----------------------------------------------------------------------------
(* The mapping. *)

LivePids == {p.pid : p \in Live}

\* Processes that are each in its place, once, have PIDs of their own.
LEMMA PlacedDistinct ==
  ASSUME NEW R, NEW q, NEW w, NEW h, Placed(R, q, w, h)
  PROVE  Distinct(R \cup Elements(q) \cup Elements(w))
<1>1. Pids(q) = {p.pid : p \in Elements(q)} /\ Pids(w) = {p.pid : p \in Elements(w)}
  BY ElementsPids
<1>2. \A p, r \in Elements(q) : p.pid = r.pid => p = r
  BY DEF Placed, Apart, PidsDiffer, Elements
<1>3. \A p, r \in Elements(w) : p.pid = r.pid => p = r
  BY DEF Placed, Apart, PidsDiffer, Elements
<1> QED
  BY <1>1, <1>2, <1>3 DEF Placed, Apart, Distinct

\* The mapped variable has each process once, with the condition in its PCB.
LEMMA Conditions ==
  Coherent =>
    /\ Distinct(Live)
    /\ WakeupConditions = Wakeups(Live)
<1> SUFFICES ASSUME Coherent PROVE Distinct(Live) /\ WakeupConditions = Wakeups(Live)
  OBVIOUS
<1>1. Distinct(Live)
  BY PlacedDistinct DEF Coherent, Live
<1>2. WakeupConditions = Wakeups(Live)
  BY DEF WakeupConditions, WakeupOf, Wakeups
<1> QED
  BY <1>1, <1>2

\* The same after a step.
LEMMA NextConditions ==
  Coherent' =>
    /\ Distinct(Live')
    /\ WakeupConditions' = Wakeups(Live')
<1>1. (Coherent => Distinct(Live) /\ WakeupConditions = Wakeups(Live))'
  BY Conditions, PTL
<1> QED
  BY <1>1 DEF Distinct, Wakeups

\* What the contract says of each process is so, if it says it of each PCB.
LEMMA Maps ==
  ASSUME Coherent', NEW D, NEW f, f = [pid \in D |-> f[pid]],
         D = {p.pid : p \in Live'},
         \A p \in Live' : f[p.pid] = p.wakeup
  PROVE  WakeupConditions' = f
BY NextConditions, WakeupsAre

\* The conditions of the processes that are there.
LEMMA ConditionsApply ==
  ASSUME Coherent
  PROVE  /\ WakeupConditions = [pid \in LivePids |-> WakeupConditions[pid]]
         /\ \A p \in Live : p.pid \in LivePids /\ WakeupConditions[p.pid] = p.wakeup
<1>1. WakeupConditions = [pid \in LivePids |-> WakeupConditions[pid]]
  BY DEF WakeupConditions, LivePids
<1> QED
  BY <1>1, Conditions, WakeupsApply DEF LivePids

\* The contract writes conditions and decisions as the scheduler does.
LEMMA ContractTerms ==
  /\ Contract!NoWakeup = NoWakeup
  /\ \A time : /\ Contract!SleepWakeup(time) = SleepWakeup(time)
               /\ Contract!SleepFor(time) = SleepFor(time)
  /\ \A event : Contract!SignalWakeup(event) = SignalWakeup(event)
  /\ \A kind : Contract!Outcome(kind) = Outcome(kind)
  /\ \A pid, time : Contract!RunFor(pid, time) = RunFor(pid, time)
BY DEF Contract!NoWakeup, Contract!SleepWakeup, Contract!SleepFor, Contract!SignalWakeup,
       Contract!Outcome, Contract!RunFor,
       NoWakeup, SleepWakeup, SleepFor, SignalWakeup, Outcome, RunFor

\* The awake processes, running or ready, are told apart from those that wait.
LEMMA AwakeHaveNoWakeup ==
  ASSUME Coherent
  PROVE  /\ \A p \in running_process \cup Elements(ready_processes) :
              p \in CfsPcb /\ p.wakeup = NoWakeup
         /\ Elements(waiting_processes) \subseteq WaitingPcbs
BY ElementsType DEF Coherent, Placed, RunningPcbs, ReadyPcbs, Parked

-----------------------------------------------------------------------------
(* Time. *)

\* The pass over the waiting list does to a process what the contract says.
LEMMA ElapseCountdown ==
  ASSUME NEW p \in WaitingPcbs, NEW time \in Nat
  PROVE  Elapse(p, time).wakeup = Contract!Countdown(p.wakeup, time)
<1>1. p \in CfsPcb
  BY DEF WaitingPcbs
<1>2. CASE p.wakeup.kind # "Sleep"
  BY <1>2 DEF Elapse, Contract!Countdown
<1>3. CASE p.wakeup.kind = "Sleep" /\ p.wakeup.arg > time
  BY <1>1, <1>3, ContractTerms DEF Elapse, Contract!Countdown, CfsPcb, WakeupCondition
<1>4. CASE p.wakeup.kind = "Sleep" /\ ~(p.wakeup.arg > time)
  BY <1>1, <1>4, ContractTerms
     DEF Elapse, Contract!Countdown, CfsPcb, WakeupCondition, SetReady
<1> QED
  BY <1>2, <1>3, <1>4

\* The conditions when some time has passed, place by place.
LEMMA AfterApply ==
  ASSUME Coherent, NEW time \in Nat
  PROVE  /\ Contract!Existing = LivePids
         /\ Contract!After(time) = [pid \in LivePids |-> Contract!After(time)[pid]]
         /\ \A p \in running_process \cup Elements(ready_processes) :
              Contract!After(time)[p.pid] = NoWakeup
         /\ \A p \in Elements(waiting_processes) :
              Contract!After(time)[p.pid] = Elapse(p, time).wakeup
<1>1. Contract!Existing = LivePids
  BY DEF Contract!Existing, WakeupConditions, LivePids
<1>2. \A p \in Live : Contract!After(time)[p.pid] = Contract!Countdown(p.wakeup, time)
  BY <1>1, ConditionsApply DEF Contract!After
<1>3. Contract!After(time) = [pid \in LivePids |-> Contract!After(time)[pid]]
  BY <1>1 DEF Contract!After
<1>4. ASSUME NEW p \in running_process \cup Elements(ready_processes)
      PROVE  Contract!After(time)[p.pid] = NoWakeup
  BY <1>2, AwakeHaveNoWakeup, Kinds DEF Live, Contract!Countdown
<1>5. ASSUME NEW p \in Elements(waiting_processes)
      PROVE  Contract!After(time)[p.pid] = Elapse(p, time).wakeup
  BY <1>2, AwakeHaveNoWakeup, ElapseCountdown DEF Live
<1> QED
  BY <1>1, <1>3, <1>4, <1>5

\* The processes of the waiting list after some time, and what the contract has for them.
LEMMA AfterWaiting ==
  ASSUME Coherent, NEW time \in Nat
  PROVE  /\ WaitingAfter(time) \in Seq(PassedPcbs)
         /\ Elements(WaitingAfter(time)) = {Elapse(r, time) : r \in Elements(waiting_processes)}
         /\ {r.pid : r \in Elements(WaitingAfter(time))}
              = {r.pid : r \in Elements(waiting_processes)}
         /\ \A r \in Elements(WaitingAfter(time)) : Contract!After(time)[r.pid] = r.wakeup
<1>1. Elements(WaitingAfter(time)) = {Elapse(r, time) : r \in Elements(waiting_processes)}
  BY ElapsedElements DEF WaitingAfter
<1>2. WaitingAfter(time) \in Seq(PassedPcbs)
  BY ElapsedWaiting DEF WaitingAfter, Coherent, Placed
<1>3. \A r \in Elements(waiting_processes) : Elapse(r, time).pid = r.pid
  BY AwakeHaveNoWakeup, ElapseWaiting
<1>4. {r.pid : r \in Elements(WaitingAfter(time))} = {r.pid : r \in Elements(waiting_processes)}
  BY <1>1, <1>3
<1> QED
  BY <1>1, <1>2, <1>3, <1>4, AfterApply

\* The PCBs after wakeup_processes are the same, in other places.
LEMMA WakeupKeepsAll ==
  ASSUME NEW queue \in Seq(ReadyPcbs), NEW waiting \in Seq(PassedPcbs)
  PROVE  Elements(queue \o Woken(waiting)) \cup Elements(StillWaiting(waiting))
           = Elements(queue) \cup Elements(waiting)
<1>1. Elements(queue \o Woken(waiting)) = Elements(queue) \cup Elements(Woken(waiting))
  BY ReadyInCall
<1>2. /\ Elements(Woken(waiting)) = {p \in Elements(waiting) : p.state = Ready}
      /\ Elements(StillWaiting(waiting)) = {p \in Elements(waiting) : p.state # Ready}
  BY WakeupElements
<1> QED
  BY <1>1, <1>2

-----------------------------------------------------------------------------
(* stop(reason). *)

\* What every stop of the running process starts from.
LEMMA StopFrom ==
  ASSUME Coherent, decision.kind = "Run", NEW p \in running_process
  PROVE  /\ decision.pid = p.pid /\ decision.time = remaining_time
         /\ Contract!Remaining = Remaining
BY RunningStep DEF RunFor, Contract!Remaining, Remaining

\* Who there is when the running process stops after some time, and what for.
LEMMA CallFrom ==
  ASSUME Coherent, decision.kind = "Run", NEW p \in running_process, NEW time \in Nat
  PROVE  /\ Charge(p, time) \in CfsPcb /\ Charge(p, time).pid = p.pid
         /\ Charge(p, time).wakeup = NoWakeup
         /\ ready_processes \in Seq(ReadyPcbs) /\ WaitingAfter(time) \in Seq(PassedPcbs)
         /\ LivePids = {p.pid} \cup {r.pid : r \in Elements(ready_processes)}
                               \cup {r.pid : r \in Elements(WaitingAfter(time))}
         /\ p.pid \notin {r.pid : r \in Elements(ready_processes)}
                           \cup {r.pid : r \in Elements(WaitingAfter(time))}
         /\ \A r \in {p} \cup Elements(ready_processes) :
              Contract!After(time)[r.pid] = NoWakeup /\ r.wakeup = NoWakeup
         /\ \A r \in Elements(WaitingAfter(time)) : Contract!After(time)[r.pid] = r.wakeup
<1>1. /\ p \in CfsPcb /\ p.wakeup = NoWakeup /\ running_process = {p}
      /\ Calls(p, ready_processes, waiting_processes, highest_pid)
  BY RunningStep
<1>2. /\ Charge(p, time) \in CfsPcb /\ Charge(p, time).pid = p.pid
      /\ Charge(p, time).wakeup = NoWakeup
  BY <1>1, PcbOperations
<1>3. /\ ready_processes \in Seq(ReadyPcbs) /\ WaitingAfter(time) \in Seq(PassedPcbs)
      /\ {r.pid : r \in Elements(WaitingAfter(time))}
           = {r.pid : r \in Elements(waiting_processes)}
      /\ \A r \in Elements(WaitingAfter(time)) : Contract!After(time)[r.pid] = r.wakeup
  BY AfterWaiting DEF Coherent, Placed
<1>4. LivePids = {p.pid} \cup {r.pid : r \in Elements(ready_processes)}
                         \cup {r.pid : r \in Elements(waiting_processes)}
  BY <1>1 DEF LivePids, Live
<1>5. p.pid \notin {r.pid : r \in Elements(ready_processes)}
                     \cup {r.pid : r \in Elements(waiting_processes)}
  BY <1>1, ElementsPids DEF Calls, Apart
<1>6. \A r \in {p} \cup Elements(ready_processes) :
        Contract!After(time)[r.pid] = NoWakeup /\ r.wakeup = NoWakeup
  BY <1>1, AfterApply, AwakeHaveNoWakeup
<1> QED
  BY <1>2, <1>3, <1>4, <1>5, <1>6

\* Whether it goes on or waits for its turn, the process that called is there.
LEMMA CallerStays ==
  ASSUME NEW p \in CfsPcb, p.wakeup = NoWakeup, NEW queue \in Seq(ReadyPcbs),
         StaysOrYields(p, queue)
  PROVE  \E q : /\ q.pid = p.pid /\ q.wakeup = NoWakeup
                /\ running_process' \cup Elements(ready_processes') = {q} \cup Elements(queue)
<1>1. CASE Yield(p, queue)
  <2>1. SetReady(p) \in ReadyPcbs /\ SetReady(p).pid = p.pid
    BY PcbOperations
  <2>2. Elements(ready_processes') = Elements(queue) \cup {SetReady(p)}
    BY <1>1, <2>1, ElementsAppend DEF Yield
  <2> QED
    BY <1>1, <2>1, <2>2 DEF Yield, ReadyPcbs, Parked
<1>2. CASE running_process' = {SetRunning(p)} /\ ready_processes' = queue
  <2>1. SetRunning(p) \in RunningPcbs /\ SetRunning(p).pid = p.pid
    BY PcbOperations
  <2> QED
    BY <1>2, <2>1 DEF RunningPcbs
<1> QED
  BY <1>1, <1>2 DEF StaysOrYields

\* Everyone after a call that does not end its process: the queue and who waited with it.
LEMMA EveryoneAfterCall ==
  ASSUME NEW p \in CfsPcb, p.wakeup = NoWakeup, NEW queue \in Seq(ReadyPcbs),
         NEW waiting \in Seq(PassedPcbs),
         StaysOrYields(p, queue \o Woken(waiting)),
         waiting_processes' = StillWaiting(waiting)
  PROVE  \E q : /\ q.pid = p.pid /\ q.wakeup = NoWakeup
                /\ Live' = {q} \cup Elements(queue) \cup Elements(waiting)
<1> DEFINE longer == queue \o Woken(waiting)
<1>1. longer \in Seq(ReadyPcbs)
  BY WakeupWaiting, ConcatProperties
<1>2. Elements(longer) \cup Elements(StillWaiting(waiting))
        = Elements(queue) \cup Elements(waiting)
  BY WakeupKeepsAll
<1>3. StaysOrYields(p, longer)
  OBVIOUS
<1> HIDE DEF longer
<1>4. PICK q : /\ q.pid = p.pid /\ q.wakeup = NoWakeup
               /\ running_process' \cup Elements(ready_processes') = {q} \cup Elements(longer)
  BY <1>1, <1>3, CallerStays
<1>5. Live' = {q} \cup Elements(queue) \cup Elements(waiting)
  BY <1>2, <1>4 DEF Live
<1> QED
  BY <1>4, <1>5

LEMMA StartMaps ==
  ASSUME Coherent, Coherent', Start
  PROVE  Contract!Start
<1> DEFINE first == NewCfsPcb(highest_pid + 1, MinVruntime(Live))
<1>1. /\ Nothing /\ highest_pid' = 1 /\ highest_pid = 0
      /\ ready_processes' = <<first>>
      /\ running_process' = {} /\ waiting_processes' = << >>
  BY DEF Coherent, Start, Nothing
<1>2. first.pid = 1 /\ first.wakeup = NoWakeup
  BY <1>1 DEF NewCfsPcb
<1> HIDE DEF first
<1>3. Live' = {first}
  BY <1>1 DEF Live, Elements
<1>4. WakeupConditions' = [pid \in {1} |-> NoWakeup]
  <2>1. \A p \in Live' : [pid \in {1} |-> NoWakeup][p.pid] = p.wakeup
    BY <1>2, <1>3
  <2> QED
    BY <1>2, <1>3, <2>1, Maps
<1> QED
  BY <1>1, <1>4, ContractTerms DEF Contract!Start, Start

LEMMA ExpiredMaps ==
  ASSUME Coherent, Coherent', Expired
  PROVE  Contract!Expired
<1> DEFINE time == remaining_time
           waiting == WaitingAfter(time)
<1>1. PICK p \in running_process :
         /\ Yield(Charge(p, time), ready_processes \o Woken(waiting))
         /\ waiting_processes' = StillWaiting(waiting)
  BY DEF Expired
<1>2. decision.kind = "Run" /\ decision' = Outcome("Stopped") /\ highest_pid' = highest_pid
  BY DEF Expired
<1>3. decision.time = time /\ time \in Nat
  BY <1>2, RunningStep, StopFrom
<1> DEFINE charged == Charge(p, time)
<1>4. /\ charged \in CfsPcb /\ charged.pid = p.pid /\ charged.wakeup = NoWakeup
      /\ ready_processes \in Seq(ReadyPcbs) /\ waiting \in Seq(PassedPcbs)
      /\ LivePids = {p.pid} \cup {r.pid : r \in Elements(ready_processes)}
                            \cup {r.pid : r \in Elements(waiting)}
      /\ \A r \in {p} \cup Elements(ready_processes) :
           Contract!After(time)[r.pid] = NoWakeup /\ r.wakeup = NoWakeup
      /\ \A r \in Elements(waiting) : Contract!After(time)[r.pid] = r.wakeup
  BY <1>2, <1>3, CallFrom
<1> HIDE DEF waiting, charged
<1>5. StaysOrYields(charged, ready_processes \o Woken(waiting))
  BY <1>1 DEF StaysOrYields, charged
<1>6. PICK q : /\ q.pid = charged.pid /\ q.wakeup = NoWakeup
               /\ Live' = {q} \cup Elements(ready_processes) \cup Elements(waiting)
  BY <1>1, <1>4, <1>5, EveryoneAfterCall
<1>7. \A r \in Live' : Contract!After(time)[r.pid] = r.wakeup
  BY <1>4, <1>6
<1>8. LivePids = {r.pid : r \in Live'}
  BY <1>4, <1>6
<1>9. WakeupConditions' = Contract!After(time)
  BY <1>3, <1>7, <1>8, AfterApply, Maps
<1> QED
  BY <1>2, <1>3, <1>9, ContractTerms DEF Contract!Expired, Contract!Stopped

LEMMA ForkMaps ==
  ASSUME Coherent, Coherent', NEW remaining \in Remaining, Fork(remaining)
  PROVE  Contract!Fork(remaining)
<1> DEFINE Forked(t) == [pid \in LivePids \cup {highest_pid + 1} |->
                           IF pid \in LivePids THEN Contract!After(t)[pid] ELSE NoWakeup]
<1>1. PICK p \in running_process, new \in ReadyPcbs, time \in Nat, queue \in Seq(ReadyPcbs) :
        /\ time = remaining_time - remaining
        /\ queue = ready_processes \o Woken(WaitingAfter(time))
        /\ ContinueOrYield(Charge(p, time), Append(queue, new), remaining)
        /\ waiting_processes' = StillWaiting(WaitingAfter(time))
        /\ new.pid = highest_pid + 1
  BY ForkStep
<1> DEFINE waiting == WaitingAfter(time)
           charged == Charge(p, time)
<1>2. /\ decision.kind = "Run" /\ decision' = Outcome("Stopped")
      /\ highest_pid < MaxPid /\ highest_pid' = highest_pid + 1
  BY DEF Fork
<1>3. decision.time = remaining_time
  BY <1>2, StopFrom
<1>4. /\ charged \in CfsPcb /\ charged.pid = p.pid /\ charged.wakeup = NoWakeup
      /\ ready_processes \in Seq(ReadyPcbs) /\ waiting \in Seq(PassedPcbs)
      /\ LivePids = {p.pid} \cup {r.pid : r \in Elements(ready_processes)}
                            \cup {r.pid : r \in Elements(waiting)}
      /\ \A r \in {p} \cup Elements(ready_processes) :
           Contract!After(time)[r.pid] = NoWakeup /\ r.wakeup = NoWakeup
      /\ \A r \in Elements(waiting) : Contract!After(time)[r.pid] = r.wakeup
  BY <1>2, CallFrom
<1>5. new.wakeup = NoWakeup /\ highest_pid + 1 \notin LivePids
  <2>1. LivePids \subseteq 1..highest_pid /\ highest_pid \in Nat
    BY ElementsPids, CfsAssumption DEF LivePids, Live, Coherent, Placed, Apart
  <2> QED
    BY <2>1 DEF ReadyPcbs, Parked
<1> HIDE DEF waiting, charged
<1>6. /\ Append(queue, new) \in Seq(ReadyPcbs)
      /\ Elements(Append(queue, new)) = Elements(queue) \cup {new}
  BY ElementsAppend
<1>7. Elements(queue) \cup Elements(StillWaiting(waiting))
        = Elements(ready_processes) \cup Elements(waiting)
  BY <1>1, <1>4, WakeupKeepsAll DEF waiting
<1>8. StaysOrYields(charged, Append(queue, new))
  BY <1>1, ContinueStaysOrYields DEF charged
<1>9. PICK q : /\ q.pid = charged.pid /\ q.wakeup = NoWakeup
               /\ running_process' \cup Elements(ready_processes')
                    = {q} \cup Elements(Append(queue, new))
  BY <1>4, <1>6, <1>8, CallerStays
<1>10. Live' = {q, new} \cup Elements(ready_processes) \cup Elements(waiting)
  BY <1>1, <1>6, <1>7, <1>9 DEF Live, waiting
<1>11. \A r \in Live' : Forked(time)[r.pid] = r.wakeup
  BY <1>1, <1>4, <1>5, <1>9, <1>10
<1>12. LivePids \cup {highest_pid + 1} = {r.pid : r \in Live'}
  BY <1>1, <1>4, <1>9, <1>10
<1>13. Forked(time) = [pid \in LivePids \cup {highest_pid + 1} |-> Forked(time)[pid]]
  OBVIOUS
<1> HIDE DEF Forked
<1>14. WakeupConditions' = Forked(time)
  BY <1>11, <1>12, <1>13, Maps
<1>15. Contract!Existing = LivePids
  BY AfterApply
<1> QED
  BY <1>1, <1>2, <1>3, <1>14, <1>15, ContractTerms
     DEF Contract!Fork, Contract!Stopped, Forked

\* A signal ends the wait for its event and no other, before or after some time.
LEMMA NotifyCondition ==
  ASSUME NEW p \in WaitingPcbs, NEW time \in Nat, NEW event
  PROVE  LET q == Elapse(p, time)
         IN  /\ Notify(q, event).pid = p.pid /\ q.pid = p.pid
             /\ Notify(q, event).wakeup =
                  IF p.wakeup = SignalWakeup(event) THEN NoWakeup ELSE q.wakeup
<1> DEFINE q == Elapse(p, time)
<1>1. q \in PassedPcbs /\ q \in CfsPcb /\ q.pid = p.pid
  BY ElapseWaiting DEF PassedPcbs
<1>2. q.wakeup = SignalWakeup(event) <=> p.wakeup = SignalWakeup(event)
  <2>1. CASE p.wakeup.kind # "Sleep"
    BY <2>1 DEF Elapse
  <2>2. CASE p.wakeup.kind = "Sleep"
    <3>1. q.wakeup.kind \in {"Sleep", "None"}
      BY <2>2, ElapseCountdown, ContractTerms, Kinds DEF Contract!Countdown, SleepWakeup
    <3> QED
      BY <2>2, <3>1, Kinds
  <2> QED
    BY <2>1, <2>2
<1> HIDE DEF q
<1>3. Notify(q, event).pid = p.pid
  BY <1>1, NotifyWaiting
<1>4. Notify(q, event).wakeup =
        IF p.wakeup = SignalWakeup(event) THEN NoWakeup ELSE q.wakeup
  BY <1>1, <1>2 DEF Notify, SetReady, CfsPcb
<1> QED
  BY <1>1, <1>3, <1>4 DEF q

LEMMA SignalMaps ==
  ASSUME Coherent, Coherent', NEW event, NEW remaining \in Remaining,
         Signal(event, remaining)
  PROVE  Contract!Signal(event, remaining)
<1> DEFINE time == remaining_time - remaining
           before == WaitingAfter(time)
           waiting == Notified(before, event)
           Signalled == [pid \in LivePids |->
                           IF WakeupConditions[pid] = SignalWakeup(event) THEN NoWakeup
                           ELSE Contract!After(time)[pid]]
<1>1. PICK p \in running_process :
         /\ ContinueOrYield(Charge(p, time), ready_processes \o Woken(waiting), remaining)
         /\ waiting_processes' = StillWaiting(waiting)
  BY DEF Signal
<1>2. /\ decision.kind = "Run" /\ decision' = Outcome("Stopped")
      /\ highest_pid' = highest_pid
  BY DEF Signal
<1>3. decision.time = remaining_time /\ time \in Nat
  BY <1>2, RunningStep, RemainingStep, StopFrom
<1> DEFINE charged == Charge(p, time)
<1>4. /\ charged \in CfsPcb /\ charged.pid = p.pid /\ charged.wakeup = NoWakeup
      /\ ready_processes \in Seq(ReadyPcbs) /\ before \in Seq(PassedPcbs)
      /\ LivePids = {p.pid} \cup {r.pid : r \in Elements(ready_processes)}
                            \cup {r.pid : r \in Elements(before)}
      /\ \A r \in {p} \cup Elements(ready_processes) :
           Contract!After(time)[r.pid] = NoWakeup /\ r.wakeup = NoWakeup
  BY <1>2, <1>3, CallFrom
<1>5. waiting \in Seq(PassedPcbs)
  BY <1>4, NotifiedWaiting
<1>6. \A r \in {p} \cup Elements(ready_processes) : Signalled[r.pid] = NoWakeup
  <2> SUFFICES ASSUME NEW r \in {p} \cup Elements(ready_processes)
               PROVE  Signalled[r.pid] = NoWakeup
    OBVIOUS
  <2>1. r.pid \in LivePids /\ Contract!After(time)[r.pid] = NoWakeup
    BY <1>4
  <2> QED
    BY <2>1
<1>7. /\ Elements(waiting) = {Notify(r, event) : r \in Elements(before)}
      /\ Elements(before) = {Elapse(r, time) : r \in Elements(waiting_processes)}
  BY NotifiedElements, ElapsedElements DEF WaitingAfter
<1>8. ASSUME NEW r \in Elements(waiting_processes)
      PROVE  LET n == Notify(Elapse(r, time), event)
             IN  n.pid = r.pid /\ Elapse(r, time).pid = r.pid /\ Signalled[n.pid] = n.wakeup
  <2> DEFINE n == Notify(Elapse(r, time), event)
  <2>1. r \in WaitingPcbs
    BY AwakeHaveNoWakeup
  <2>2. /\ n.pid = r.pid /\ Elapse(r, time).pid = r.pid
        /\ n.wakeup = IF r.wakeup = SignalWakeup(event) THEN NoWakeup ELSE Elapse(r, time).wakeup
    BY <1>3, <2>1, NotifyCondition
  <2>3. Contract!After(time)[r.pid] = Elapse(r, time).wakeup
    BY <1>3, AfterApply
  <2>4. r.pid \in LivePids /\ WakeupConditions[r.pid] = r.wakeup
    BY ConditionsApply DEF Live
  <2> QED
    BY <2>2, <2>3, <2>4
<1> HIDE DEF Signalled, time
<1>9. /\ \A r \in Elements(waiting) : Signalled[r.pid] = r.wakeup
      /\ {r.pid : r \in Elements(waiting)} = {r.pid : r \in Elements(before)}
  BY <1>7, <1>8
<1> HIDE DEF waiting, before, charged
<1>10. StaysOrYields(charged, ready_processes \o Woken(waiting))
  BY <1>1, ContinueStaysOrYields DEF charged
<1>11. PICK q : /\ q.pid = charged.pid /\ q.wakeup = NoWakeup
                /\ Live' = {q} \cup Elements(ready_processes) \cup Elements(waiting)
  BY <1>1, <1>4, <1>5, <1>10, EveryoneAfterCall
<1>12. \A r \in Live' : Signalled[r.pid] = r.wakeup
  BY <1>4, <1>6, <1>9, <1>11
<1>13. LivePids = {r.pid : r \in Live'}
  BY <1>4, <1>9, <1>11
<1>14. Signalled = [pid \in LivePids |-> Signalled[pid]]
  BY DEF Signalled
<1>15. WakeupConditions' = Signalled
  BY <1>12, <1>13, <1>14, Maps
<1>16. Contract!Existing = LivePids
  BY <1>3, AfterApply
<1> QED
  BY <1>2, <1>3, <1>15, <1>16, ContractTerms
     DEF Contract!Signal, Contract!Stopped, time, Signalled

\* Sleep and Wait: unlike in the other schedulers, whose sleep has run out is woken.
LEMMA BlockMaps ==
  ASSUME Coherent, Coherent', decision.kind = "Run", NEW remaining \in Remaining,
         NEW p \in running_process, NEW asleep \in WaitingPcbs, asleep.pid = p.pid,
         Block(asleep, remaining_time - remaining), running_process' = {},
         decision' = Outcome("Stopped"), highest_pid' = highest_pid
  PROVE  Contract!Block(asleep.wakeup, remaining)
<1> DEFINE time == remaining_time - remaining
           waiting == WaitingAfter(time)
           charged == Charge(asleep, time)
           Blocks == [Contract!After(time) EXCEPT ![p.pid] = asleep.wakeup]
<1>1. /\ ready_processes' = ready_processes \o Woken(waiting)
      /\ waiting_processes' = Append(StillWaiting(waiting), charged)
  BY DEF Block
<1>2. decision.time = remaining_time /\ decision.pid = p.pid /\ time \in Nat
  BY RunningStep, RemainingStep, StopFrom
<1>3. /\ ready_processes \in Seq(ReadyPcbs) /\ waiting \in Seq(PassedPcbs)
      /\ LivePids = {p.pid} \cup {r.pid : r \in Elements(ready_processes)}
                            \cup {r.pid : r \in Elements(waiting)}
      /\ p.pid \notin {r.pid : r \in Elements(ready_processes)}
                        \cup {r.pid : r \in Elements(waiting)}
      /\ \A r \in Elements(ready_processes) :
           Contract!After(time)[r.pid] = NoWakeup /\ r.wakeup = NoWakeup
      /\ \A r \in Elements(waiting) : Contract!After(time)[r.pid] = r.wakeup
  BY <1>2, CallFrom
<1>4. /\ charged \in WaitingPcbs /\ charged.pid = p.pid
      /\ charged.wakeup = asleep.wakeup
  BY <1>2, ChargeWaiting, PcbOperations DEF WaitingPcbs
<1>5. /\ Contract!Existing = LivePids
      /\ Contract!After(time) = [pid \in LivePids |-> Contract!After(time)[pid]]
  BY <1>2, AfterApply
<1> HIDE DEF waiting, charged, time
<1>6. Elements(waiting_processes') = Elements(StillWaiting(waiting)) \cup {charged}
  BY <1>1, <1>3, <1>4, WakeupWaiting, ElementsAppend
<1>7. Live' = Elements(ready_processes) \cup Elements(waiting) \cup {charged}
  BY <1>1, <1>3, <1>6, WakeupKeepsAll DEF Live
<1>8. \A r \in Live' : Blocks[r.pid] = r.wakeup
  BY <1>3, <1>4, <1>5, <1>7
<1>9. LivePids = {r.pid : r \in Live'}
  BY <1>3, <1>4, <1>7
<1>10. Blocks = [pid \in LivePids |-> Blocks[pid]]
  BY <1>5
<1> HIDE DEF Blocks
<1>11. WakeupConditions' = Blocks
  BY <1>8, <1>9, <1>10, Maps
<1> QED
  BY <1>2, <1>11, ContractTerms DEF Contract!Block, Contract!Stopped, time, Blocks

LEMMA SleepMaps ==
  ASSUME Coherent, Coherent', NEW remaining \in Remaining, NEW time \in SleepTimes,
         Sleep(time, remaining)
  PROVE  Contract!Sleep(time, remaining)
<1>1. PICK p \in running_process : Block(PutToSleep(p, time), remaining_time - remaining)
  BY DEF Sleep
<1>2. decision.kind = "Run" /\ p \in CfsPcb /\ time \in Nat
  BY <1>1, RunningStep, CfsAssumption DEF Sleep
<1>3. PutToSleep(p, time) \in WaitingPcbs /\ PutToSleep(p, time).pid = p.pid
  BY <1>2, PcbOperations
<1>4. PutToSleep(p, time).wakeup = SleepWakeup(time)
  BY <1>2 DEF PutToSleep, CfsPcb
<1>5. Contract!Block(PutToSleep(p, time).wakeup, remaining)
  BY <1>1, <1>2, <1>3, BlockMaps DEF Sleep
<1> QED
  BY <1>4, <1>5, ContractTerms DEF Contract!Sleep

LEMMA WaitMaps ==
  ASSUME Coherent, Coherent', NEW remaining \in Remaining, NEW event \in Events,
         Wait(event, remaining)
  PROVE  Contract!Wait(event, remaining)
<1>1. PICK p \in running_process : Block(AwaitEvent(p, event), remaining_time - remaining)
  BY DEF Wait
<1>2. decision.kind = "Run" /\ p \in CfsPcb
  BY <1>1, RunningStep DEF Wait
<1>3. AwaitEvent(p, event) \in WaitingPcbs /\ AwaitEvent(p, event).pid = p.pid
  BY <1>2, PcbOperations
<1>4. AwaitEvent(p, event).wakeup = SignalWakeup(event)
  BY <1>2 DEF AwaitEvent, CfsPcb
<1>5. Contract!Block(AwaitEvent(p, event).wakeup, remaining)
  BY <1>1, <1>2, <1>3, BlockMaps DEF Wait
<1> QED
  BY <1>4, <1>5, ContractTerms DEF Contract!Wait

LEMMA ExitMaps ==
  ASSUME Coherent, Coherent', NEW remaining \in Remaining, Exit(remaining)
  PROVE  Contract!Exit(remaining)
<1> DEFINE time == remaining_time - remaining
           waiting == WaitingAfter(time)
<1>1. PICK p \in running_process : TRUE
  BY DEF Exit, Coherent, DecisionMatchesState
<1>2. /\ decision.kind = "Run" /\ decision' = Outcome("Stopped")
      /\ highest_pid' = highest_pid /\ running_process' = {}
      /\ ready_processes' = ready_processes \o Woken(waiting)
      /\ waiting_processes' = StillWaiting(waiting)
  BY DEF Exit
<1>3. decision.time = remaining_time /\ decision.pid = p.pid /\ time \in Nat
  BY <1>2, RunningStep, RemainingStep, StopFrom
<1>4. /\ ready_processes \in Seq(ReadyPcbs) /\ waiting \in Seq(PassedPcbs)
      /\ LivePids = {p.pid} \cup {r.pid : r \in Elements(ready_processes)}
                            \cup {r.pid : r \in Elements(waiting)}
      /\ p.pid \notin {r.pid : r \in Elements(ready_processes)}
                        \cup {r.pid : r \in Elements(waiting)}
      /\ \A r \in Elements(ready_processes) :
           Contract!After(time)[r.pid] = NoWakeup /\ r.wakeup = NoWakeup
      /\ \A r \in Elements(waiting) : Contract!After(time)[r.pid] = r.wakeup
  BY <1>2, <1>3, CallFrom
<1>5. Contract!Existing = LivePids
  BY <1>3, AfterApply
<1> HIDE DEF waiting, time
<1>6. Live' = Elements(ready_processes) \cup Elements(waiting)
  BY <1>2, <1>4, WakeupKeepsAll DEF Live
<1>7. LivePids \ {p.pid} = {r.pid : r \in Live'}
  BY <1>4, <1>6
<1>8. \A r \in Live' : Contract!After(time)[r.pid] = r.wakeup
  BY <1>4, <1>6
<1>9. WakeupConditions' = [pid \in LivePids \ {p.pid} |-> Contract!After(time)[pid]]
  <2> DEFINE Left == [pid \in LivePids \ {p.pid} |-> Contract!After(time)[pid]]
  <2>1. \A r \in Live' : Left[r.pid] = r.wakeup
    BY <1>7, <1>8
  <2> QED
    BY <1>7, <2>1, Maps
<1> QED
  BY <1>2, <1>3, <1>5, <1>9, ContractTerms DEF Contract!Exit, Contract!Stopped, time

-----------------------------------------------------------------------------
(* next(). *)

\* Who there is when next() decides, the sleep it asked for having passed.
Present == running_process \cup Elements(ReadyOnNext) \cup Elements(WaitingOnNext)

\* The time the contract lets pass is the sleep_time the scheduler kept.
LEMMA SleptIs ==
  ASSUME Coherent, NextIsDue
  PROVE  Contract!Slept = sleep_time /\ sleep_time \in Nat
BY DEF Coherent, NextIsDue, DecisionMatchesState, Contract!Slept, SleepFor

\* The contract's view of the processes when next() decides.
LEMMA PassedIs ==
  ASSUME Coherent, NextIsDue
  PROVE  /\ Contract!Existing = LivePids
         /\ Contract!Passed = [pid \in LivePids |-> Contract!Passed[pid]]
         /\ LivePids = {r.pid : r \in Present}
         /\ \A r \in Present : Contract!Passed[r.pid] = r.wakeup
         /\ Contract!StillOverlooked = {}
<1>1. Contract!Existing = LivePids
  BY DEF Contract!Existing, WakeupConditions, LivePids
<1>2. Contract!StillOverlooked = {}
  BY DEF Contract!StillOverlooked
<1>3. CASE sleep_time = 0
  <2>1. Contract!Passed = WakeupConditions
    BY <1>3, SleptIs DEF Contract!Passed
  <2>2. Present = Live
    BY <1>3 DEF Present, Live, ReadyOnNext, WaitingOnNext
  <2> QED
    BY <1>1, <1>2, <2>1, <2>2, ConditionsApply DEF LivePids
<1>4. CASE sleep_time # 0
  <2> DEFINE waiting == WaitingAfter(sleep_time)
  <2>1. sleep_time \in Nat /\ Contract!Slept = sleep_time
    BY SleptIs
  <2>2. Contract!Passed = Contract!After(sleep_time)
    BY <1>4, <2>1 DEF Contract!Passed
  <2>3. /\ waiting \in Seq(PassedPcbs)
        /\ {r.pid : r \in Elements(waiting)} = {r.pid : r \in Elements(waiting_processes)}
        /\ \A r \in Elements(waiting) : Contract!After(sleep_time)[r.pid] = r.wakeup
    BY <2>1, AfterWaiting
  <2>4. /\ ReadyOnNext = ready_processes \o Woken(waiting)
        /\ WaitingOnNext = StillWaiting(waiting)
    BY <1>4 DEF ReadyOnNext, WaitingOnNext
  <2> HIDE DEF waiting
  <2>5. ready_processes \in Seq(ReadyPcbs)
    BY DEF Coherent, Placed
  <2>6. Present = running_process \cup Elements(ready_processes) \cup Elements(waiting)
    BY <2>3, <2>4, <2>5, WakeupKeepsAll DEF Present
  <2>7. LivePids = {r.pid : r \in Present}
    BY <2>3, <2>6 DEF LivePids, Live
  <2>8. \A r \in Present : Contract!After(sleep_time)[r.pid] = r.wakeup
    BY <2>1, <2>3, <2>6, AfterApply, AwakeHaveNoWakeup
  <2> QED
    BY <1>1, <1>2, <2>1, <2>2, <2>7, <2>8, AfterApply
<1> QED
  BY <1>3, <1>4

\* Awake, for the contract, is who runs and who is in the ready processes.
LEMMA AwakeIs ==
  ASSUME Coherent, NextIsDue
  PROVE  /\ Contract!Awake = {r.pid : r \in running_process \cup Elements(ReadyOnNext)}
         /\ Contract!Sleepers =
              {r.pid : r \in {q \in Elements(WaitingOnNext) : q.wakeup.kind = "Sleep"}}
<1>1. /\ running_process \subseteq RunningPcbs
      /\ Elements(ReadyOnNext) \subseteq ReadyPcbs
      /\ Elements(WaitingOnNext) \subseteq WaitingPcbs
  BY NextStep, ElementsType DEF Placed
<1>2. \A r \in running_process \cup Elements(ReadyOnNext) : r.wakeup = NoWakeup
  BY <1>1 DEF RunningPcbs, ReadyPcbs, Parked
<1>3. \A r \in Elements(WaitingOnNext) : r.wakeup # NoWakeup
  BY <1>1, Kinds DEF WaitingPcbs, Waits
<1>4. Contract!Awake = {pid \in LivePids : Contract!Passed[pid] = NoWakeup}
  BY PassedIs, ContractTerms DEF Contract!Awake
<1>5. Contract!Sleepers = {pid \in LivePids : Contract!Passed[pid].kind = "Sleep"}
  BY PassedIs DEF Contract!Sleepers
<1>6. \A r \in Present : r.wakeup = NoWakeup <=> r \in running_process \cup Elements(ReadyOnNext)
  BY <1>2, <1>3 DEF Present
<1>7. \A r \in Present : r.wakeup.kind = "Sleep" => r \in Elements(WaitingOnNext)
  BY <1>2, Kinds DEF Present
<1>8. Contract!Awake = {r.pid : r \in running_process \cup Elements(ReadyOnNext)}
  BY <1>4, <1>6, PassedIs DEF Present
<1>9. Contract!Sleepers =
        {r.pid : r \in {q \in Elements(WaitingOnNext) : q.wakeup.kind = "Sleep"}}
  BY <1>5, <1>7, PassedIs DEF Present
<1> QED
  BY <1>8, <1>9

\* A decision that moves nobody but the sleepers whose time is up.
LEMMA DecidedMaps ==
  ASSUME Coherent, Coherent', NextIsDue,
         ready_processes' = ReadyOnNext,
         waiting_processes' = WaitingOnNext,
         UNCHANGED <<running_process, highest_pid>>
  PROVE  Contract!Decided(decision')
<1>1. Live' = Present
  BY DEF Live, Present
<1>2. WakeupConditions' = Contract!Passed
  BY <1>1, PassedIs, Maps
<1> QED
  BY <1>2, PassedIs DEF Contract!Decided, NextIsDue

LEMMA DoneMaps ==
  ASSUME Coherent, Coherent', DecideDone
  PROVE  Contract!DecideDone
<1>1. NextIsDue /\ IsDone /\ decision' = Outcome("Done")
  BY DEF DecideDone, Halt
<1>2. Contract!Decided(decision')
  BY DecidedMaps DEF DecideDone, Halt
<1>3. Present = {}
  BY <1>1 DEF IsDone, Present, Elements
<1>4. Contract!Existing = {}
  BY <1>1, <1>3, PassedIs
<1> QED
  BY <1>1, <1>2, <1>4, ContractTerms DEF Contract!DecideDone

\* PID 1 exists for the scheduler if and only if it does for the contract.
LEMMA Pid1Is ==
  ASSUME Coherent, NextIsDue
  PROVE  Pid1Exists <=> 1 \in Contract!Existing
BY PassedIs, ElementsPids DEF Pid1Exists, Present

LEMMA PanicMaps ==
  ASSUME Coherent, Coherent', DecidePanic
  PROVE  Contract!DecidePanic
<1>1. NextIsDue /\ ~ IsDone /\ ~ Pid1Exists /\ decision' = Outcome("Panic")
  BY DEF DecidePanic, Halt
<1>2. Contract!Decided(decision')
  BY DecidedMaps DEF DecidePanic, Halt
<1>3. Present # {}
  <2>1. ASSUME NEW S, NEW list \in Seq(S), list # << >> PROVE Elements(list) # {}
    BY <2>1, ElementsHeadTail
  <2>2. ReadyOnNext \in Seq(ReadyPcbs) /\ WaitingOnNext \in Seq(WaitingPcbs)
    BY NextStep DEF Placed
  <2> QED
    BY <1>1, <2>1, <2>2 DEF IsDone, Present
<1>4. Contract!Existing # {} /\ 1 \notin Contract!Existing
  BY <1>1, <1>3, PassedIs, Pid1Is
<1> QED
  BY <1>1, <1>2, <1>4, ContractTerms DEF Contract!DecidePanic

LEMMA ContinueMaps ==
  ASSUME Coherent, Coherent', NeverAborts', DecideContinue
  PROVE  Contract!DecideRun
<1>1. PICK p \in running_process :
        decision' = NonZero(remaining_time, RunFor(p.pid, remaining_time))
  BY DEF DecideContinue
<1>2. NextIsDue /\ Contract!Decided(decision')
  BY DecidedMaps DEF DecideContinue
<1>3. remaining_time # 0
  BY <1>1 DEF NonZero, NeverAborts, Outcome
<1>4. remaining_time \in 1..Longest
  BY <1>3, CfsAssumption DEF Coherent, Longest
<1>5. decision' = Contract!RunFor(p.pid, remaining_time)
  BY <1>1, <1>3, ContractTerms DEF NonZero
<1>6. p.pid \in Contract!Awake
  BY <1>1, <1>2, AwakeIs
<1>7. 1 \in Contract!Existing
  BY <1>2, Pid1Is DEF DecideContinue
<1> QED
  BY <1>2, <1>4, <1>5, <1>6, <1>7 DEF Contract!DecideRun

\* The sorted ready processes are the same processes, and the first of them is awake.
LEMMA DispatchMaps ==
  ASSUME Coherent, Coherent', NeverAborts', DecideDispatch
  PROVE  Contract!DecideRun
<1> DEFINE queue == Sorted(ReadyOnNext)
<1>1. PICK p \in ReadyPcbs, timeslice \in 0..Longest :
        /\ queue \in Seq(ReadyPcbs) /\ queue # << >>
        /\ Elements(queue) = Elements(ReadyOnNext)
        /\ p = Head(queue)
        /\ running_process' = {SetRunning(p)}
        /\ ready_processes' = Tail(queue)
        /\ waiting_processes' = WaitingOnNext
        /\ decision' = NonZero(timeslice, RunFor(p.pid, timeslice))
  BY DispatchStep
<1>2. /\ NextIsDue /\ Pid1Exists /\ running_process = {} /\ highest_pid' = highest_pid
  BY DEF DecideDispatch
<1> HIDE DEF queue
<1>3. Elements(ReadyOnNext) = {p} \cup Elements(Tail(queue))
  BY <1>1, ElementsHeadTail
<1>4. p.wakeup = NoWakeup /\ SetRunning(p).pid = p.pid /\ SetRunning(p).wakeup = NoWakeup
  BY PcbOperations DEF ReadyPcbs, Parked, RunningPcbs
<1>5. /\ Live' = {SetRunning(p)} \cup Elements(Tail(queue)) \cup Elements(WaitingOnNext)
      /\ Present = {p} \cup Elements(Tail(queue)) \cup Elements(WaitingOnNext)
  BY <1>1, <1>2, <1>3 DEF Live, Present
<1>6. /\ \A r \in Live' : Contract!Passed[r.pid] = r.wakeup
      /\ LivePids = {r.pid : r \in Live'}
  BY <1>2, <1>4, <1>5, PassedIs
<1>7. WakeupConditions' = Contract!Passed
  BY <1>2, <1>6, PassedIs, Maps
<1>8. Contract!Decided(decision')
  BY <1>2, <1>7, PassedIs DEF Contract!Decided, NextIsDue
<1>9. p.pid \in Contract!Awake
  BY <1>2, <1>3, AwakeIs
<1>10. 1 \in Contract!Existing
  BY <1>2, Pid1Is
<1>11. timeslice # 0
  BY <1>1 DEF NonZero, NeverAborts, Outcome
<1>12. timeslice \in 1..Longest /\ decision' = Contract!RunFor(p.pid, timeslice)
  BY <1>1, <1>11, CfsAssumption, ContractTerms DEF NonZero, Longest
<1> QED
  BY <1>8, <1>9, <1>10, <1>12 DEF Contract!DecideRun

\* With nobody to run, the contract has nobody awake.
LEMMA NobodyAwake ==
  ASSUME Coherent, NobodyToRun
  PROVE  NextIsDue /\ 1 \in Contract!Existing /\ Contract!Awake = {}
<1>1. NextIsDue /\ Pid1Exists /\ running_process = {} /\ ReadyOnNext = << >>
  BY DEF NobodyToRun
<1>2. Elements(ReadyOnNext) = {}
  BY <1>1 DEF Elements
<1> QED
  BY <1>1, <1>2, AwakeIs, Pid1Is

\* The times of the sleepers, in the list and in the contract.
LEMMA SleepersTimes ==
  ASSUME Coherent, NextIsDue
  PROVE  /\ SleepingTimes(WaitingOnNext) \subseteq Nat
         /\ SleepingTimes(WaitingOnNext) =
              {Contract!Passed[pid].arg : pid \in Contract!Sleepers}
<1> DEFINE Asleeps == {q \in Elements(WaitingOnNext) : q.wakeup.kind = "Sleep"}
<1>1. WaitingOnNext \in Seq(WaitingPcbs)
  BY NextStep DEF Placed
<1>2. SleepingTimes(WaitingOnNext) = {q.wakeup.arg : q \in Asleeps}
  BY DEF SleepingTimes, Elements
<1>3. \A q \in Asleeps : q \in CfsPcb
  BY <1>1, ElementsType DEF WaitingPcbs
<1>4. SleepingTimes(WaitingOnNext) \subseteq Nat
  BY <1>2, <1>3 DEF CfsPcb, WakeupCondition
<1>5. Contract!Sleepers = {q.pid : q \in Asleeps}
  BY AwakeIs
<1>6. \A q \in Asleeps : Contract!Passed[q.pid] = q.wakeup
  BY PassedIs DEF Present
<1> HIDE DEF Asleeps
<1>7. {Contract!Passed[pid].arg : pid \in Contract!Sleepers} = {q.wakeup.arg : q \in Asleeps}
  BY <1>5, <1>6
<1> QED
  BY <1>2, <1>4, <1>7

LEMMA SleepDecisionMaps ==
  ASSUME Coherent, Coherent', NeverAborts', DecideSleep
  PROVE  Contract!DecideSleep
<1>1. PICK time \in FindSleepTime(WaitingOnNext) : decision' = NonZero(time, SleepFor(time))
  BY DEF DecideSleep
<1>2. NextIsDue /\ 1 \in Contract!Existing /\ Contract!Awake = {}
  BY NobodyAwake DEF DecideSleep
<1>3. Contract!Decided(decision')
  BY <1>2, DecidedMaps DEF DecideSleep
<1>4. time # 0 /\ decision' = SleepFor(time)
  BY <1>1 DEF NonZero, NeverAborts, Outcome
<1>5. /\ time \in SleepingTimes(WaitingOnNext)
      /\ \A other \in SleepingTimes(WaitingOnNext) : time <= other
  BY <1>1 DEF FindSleepTime
<1>6. PICK pid \in Contract!Sleepers : Contract!Passed[pid].arg = time
  BY <1>2, <1>5, SleepersTimes
<1>7. \A other \in Contract!Sleepers : Contract!Passed[pid].arg <= Contract!Passed[other].arg
  BY <1>2, <1>5, <1>6, SleepersTimes
<1> QED
  BY <1>2, <1>3, <1>4, <1>6, <1>7, ContractTerms DEF Contract!DecideSleep

LEMMA DeadlockMaps ==
  ASSUME Coherent, Coherent', DecideDeadlock
  PROVE  Contract!DecideDeadlock
<1>1. NextIsDue /\ 1 \in Contract!Existing /\ Contract!Awake = {}
  BY NobodyAwake DEF DecideDeadlock
<1>2. Contract!Decided(decision') /\ decision' = Outcome("Deadlock")
  BY <1>1, DecidedMaps DEF DecideDeadlock, Halt
<1>3. SleepingTimes(WaitingOnNext) = {}
  <2>1. FindSleepTime(WaitingOnNext) = {}
    BY DEF DecideDeadlock
  <2>2. SleepingTimes(WaitingOnNext) \subseteq Nat
    BY <1>1, SleepersTimes
  <2> QED
    BY <2>1, <2>2, LeastElement DEF FindSleepTime
<1>4. Contract!Sleepers = {}
  BY <1>1, <1>3, SleepersTimes
<1> QED
  BY <1>1, <1>2, <1>4, ContractTerms DEF Contract!DecideDeadlock

-----------------------------------------------------------------------------
(* The refinement. *)

LEMMA InitMaps == Init => Contract!Init
<1> SUFFICES ASSUME Init PROVE Contract!Init
  OBVIOUS
<1>1. Live = {}
  BY DEF Init, Live, Elements
<1>2. WakeupConditions = [pid \in {} |-> NoWakeup]
  BY <1>1 DEF WakeupConditions
<1> QED
  BY <1>2, ContractTerms DEF Init, Contract!Init

LEMMA StopMaps ==
  ASSUME Coherent, Coherent', Stop
  PROVE  Contract!Stop
<1>1. CASE Start
  BY <1>1, StartMaps DEF Contract!Stop
<1>2. CASE Expired
  BY <1>2, ExpiredMaps DEF Contract!Stop
<1>3. CASE \E remaining \in Remaining :
             \/ Fork(remaining)
             \/ Exit(remaining)
             \/ \E event \in Events : Signal(event, remaining) \/ Wait(event, remaining)
             \/ \E time \in SleepTimes : Sleep(time, remaining)
  <2>1. PICK remaining \in Remaining :
             \/ Fork(remaining)
             \/ Exit(remaining)
             \/ \E event \in Events : Signal(event, remaining) \/ Wait(event, remaining)
             \/ \E time \in SleepTimes : Sleep(time, remaining)
    BY <1>3
  <2>2. decision.kind = "Run"
    BY <2>1 DEF Fork, Exit, Signal, Wait, Sleep
  <2>3. remaining \in Contract!Remaining
    BY <2>2, StopFrom DEF Coherent, DecisionMatchesState
  <2>4. CASE Fork(remaining)
    BY <2>3, <2>4, ForkMaps DEF Contract!Stop
  <2>5. CASE Exit(remaining)
    BY <2>3, <2>5, ExitMaps DEF Contract!Stop
  <2>6. ASSUME NEW event \in Events, Signal(event, remaining) PROVE Contract!Stop
    BY <2>3, <2>6, SignalMaps DEF Contract!Stop
  <2>7. ASSUME NEW event \in Events, Wait(event, remaining) PROVE Contract!Stop
    BY <2>3, <2>7, WaitMaps DEF Contract!Stop
  <2>8. ASSUME NEW time \in SleepTimes, Sleep(time, remaining) PROVE Contract!Stop
    BY <2>3, <2>8, SleepMaps DEF Contract!Stop
  <2> QED
    BY <2>1, <2>4, <2>5, <2>6, <2>7, <2>8
<1> QED
  BY <1>1, <1>2, <1>3 DEF Stop

LEMMA NextDecisionMaps ==
  ASSUME Coherent, Coherent', NeverAborts', NextDecision
  PROVE  Contract!NextDecision
BY DoneMaps, PanicMaps, ContinueMaps, DispatchMaps, SleepDecisionMaps, DeadlockMaps
   DEF NextDecision, Contract!NextDecision

\* A step that changes nothing changes nothing that the contract sees.
LEMMA StutterMaps ==
  ASSUME UNCHANGED vars
  PROVE  UNCHANGED Contract!vars
BY DEF vars, Contract!vars, WakeupConditions, WakeupOf, Live

(***************************************************************************)
(* Up to the end of the program by exit(-1) or a panic, for every cpu_time *)
(* and minimum and any events and sleep times, every call of the fair      *)
(* scheduler is a step of the strict contract: nobody is lost or made up,  *)
(* a signal wakes all that wait for its event, a sleep ends neither early  *)
(* nor late, nobody is overlooked, and a Deadlock is answered only when    *)
(* all wait for events.                                                    *)
(***************************************************************************)
THEOREM ImplementsUntilAbort == Spec /\ []NeverAborts => ImplementsScheduler
<1>1. Init => Contract!Init
  BY InitMaps
<1>2. /\ Coherent /\ NeverAborts
      /\ (Coherent /\ NeverAborts)'
      /\ [Next]_vars
      => [Contract!Next]_Contract!vars
  <2> SUFFICES ASSUME Coherent, Coherent', NeverAborts', [Next]_vars
               PROVE  Contract!Next \/ UNCHANGED Contract!vars
    OBVIOUS
  <2>1. CASE Stop
    BY <2>1, StopMaps DEF Contract!Next
  <2>2. CASE NextDecision
    BY <2>2, NextDecisionMaps DEF Contract!Next
  <2>3. CASE Halted \/ UNCHANGED vars
    BY <2>3, StutterMaps DEF Halted
  <2> QED
    BY <2>1, <2>2, <2>3 DEF Next
<1> QED
  BY <1>1, <1>2, Coherence, PTL DEF Spec, ImplementsScheduler, Contract!Spec

(***************************************************************************)
(* And the program does not end so if the minimum is not 0 and nobody      *)
(* sleeps for 0: then the fair scheduler implements Scheduler.             *)
(***************************************************************************)
THEOREM Refinement ==
  ASSUME PositiveTimes
  PROVE  Spec => ImplementsScheduler
BY ImplementsUntilAbort, NoAbort, PTL

=============================================================================
